---------------------------- MODULE ExportProofs ----------------------------
(***************************************************************************)
(* For every folder, every writer and every plan: the list of streams      *)
(* misses nothing that was there all along (DiscoveryComplete), what is    *)
(* fetched of a file is everything up to some record (FetchExact), and the *)
(* output has it exactly once and in order (ExportExact, OutputBySecond).  *)
(*                                                                         *)
(* Discovery.  A file the list must name was readable when the query       *)
(* arrived and its day is intact now.  Nothing the writer does turns a     *)
(* file that need not be listed into one that must be (StillRequired), so  *)
(* it is enough to follow the required files through the scan: such a file *)
(* was listed by the directory at the start, and is then still to be       *)
(* visited, or at hand with a reader that holds every record seen at the   *)
(* start, or in the response (ScanInv).                                    *)
(*                                                                         *)
(* Fetching.  A reader holds a prefix of the index (ReadingInv), the       *)
(* response the records of a stretch of it behind the last page            *)
(* (AnswerInv), and the client those of a prefix (FetchInv).               *)
(*                                                                         *)
(* Exporting.  The combiner holds what was fetched of the wanted seconds,  *)
(* every file in its order (CombinerInv); save() writes the seconds one    *)
(* after the other (OutputInv).                                            *)
(*                                                                         *)
(* The loops of getData(), addRecords() and save() are folds: Folding      *)
(* reduces each of them to a loop invariant (DataLoop, RecordLoop,         *)
(* SaveLoop) that one turn keeps.                                          *)
(***************************************************************************)
EXTENDS Export, FiniteSetTheorems, TLAPS

-----------------------------------------------------------------------------
(* The inductive invariant *)

Looking == service \in {"resolve", "index", "data", "match"}

\* The types of what the scan depends on.
Types ==
    /\ plan \in Plans
    /\ stage \in [Files -> {"none", "half", "open"}]
    /\ there \in [Files -> SUBSET {"idx", "data"}]
    /\ index \in [Files -> Seq(Times)]
    /\ records \in [Files -> Nat]
    /\ service \in {"idle", "scan", "resolve", "index", "data", "match", "respond"}
    /\ request.file \in Files \cup {"none"}
    /\ request.start_ns \in 0..MaxTime /\ request.end_ns \in 0..MaxTime
    /\ due \subseteq Files /\ visited \subseteq Files
    /\ reader \in [file : Files \cup {"none"}, times : Seq(Times),
                   data : Nat, status : Status]
    /\ seen \in [Files -> Nat]

\* What the writer keeps true of a pair of files.
PairInv ==
    \A f \in Files :
        /\ seen[f] <= records[f] /\ records[f] <= Len(index[f])
        /\ Len(index[f]) <= MaxRecords
        /\ there[f] \subseteq Parts(f)
        /\ index[f] # <<>> => stage[f] = "open"
        /\ stage[f] = "none" => there[f] = {}
        /\ stage[f] = "half" => f \notin FixedFiles
        /\ \A i \in DOMAIN index[f] : Time2YYYYMMDD(index[f][i]) = DayOf[f]

\* The reader belongs to a file that was created.
ReaderInv ==
    /\ Looking => reader.file \in Files /\ (Listing => stage[reader.file] # "none")
    /\ Len(reader.times) <= MaxRecords
    /\ reader.status = "kHealthy" \/ service = "data" => reader.times # <<>>

\* The answer to a query is a set of streams.
ResponseInv ==
    Listing => response \in [streams : SUBSET Stream, data : {<<>>}, errors : {FALSE}]

\* The list must name f.
Required(f) ==
    /\ f \notin LongNamed
    /\ Whole(f) /\ DayIntact(f)
    /\ Ordered(index[f])
    /\ \E i \in 1..seen[f] : InRange(index[f][i])

\* The reader holds a part of the index of f with all that was seen of it.
Holds(f) ==
    /\ seen[f] <= Len(reader.times) /\ Len(reader.times) <= Len(index[f])
    /\ \A i \in 1..Len(reader.times) : reader.times[i] = index[f][i]

AtHand(f) ==
    /\ reader.file = f
    /\ \/ service \in {"resolve", "index"}
       \/ service = "data" /\ Holds(f) /\ f \notin FixedFiles
       \/ service = "match" /\ Holds(f) /\ reader.status = "kHealthy"

Listed(f) == \E s \in response.streams : s.file = f

Tracked(f) ==
    /\ f \in due
    /\ (f \notin visited /\ service # "respond") \/ AtHand(f) \/ Listed(f)

\* Where the required files are, while a query is being answered.
ScanInv == service # "idle" /\ Listing => \A f \in Files : Required(f) => Tracked(f)

IInv == Types /\ PairInv /\ ReaderInv /\ ResponseInv /\ ScanInv

-----------------------------------------------------------------------------
(* Lemmas *)

\* A later time is not on an earlier day.
LEMMA DayMonotone ==
    ASSUME NEW a \in Nat, NEW b \in Nat, a <= b
    PROVE  /\ Time2YYYYMMDD(a) \in Nat /\ Time2YYYYMMDD(b) \in Nat
           /\ Time2YYYYMMDD(a) <= Time2YYYYMMDD(b)
  BY ScannerAssumption DEF Time2YYYYMMDD

\* Eviction has not reached the pair g.
Intact(g) == Whole(g) \/ stage[g] = "none" \/ (stage[g] = "half" /\ ~Vanished(g))

LEMMA WriterPair ==
    ASSUME Types, PairInv, NEW f \in Files,
           \/ CreateIndex(f) \/ CreateData(f) \/ AppendData(f)
           \/ \E t \in Times : AppendEntry(f, t)
           \/ \E part \in {"idx", "data"} : Unlink(f, part),
           UNCHANGED <<plan, readerVars>>
    PROVE  /\ Types' /\ PairInv'
           /\ \A g \in Files : /\ Len(index[g]) <= Len(index'[g])
                               /\ \A i \in 1..Len(index[g]) : index'[g][i] = index[g][i]
                               /\ stage[g] # "none" => stage'[g] # "none"
                               /\ index[g] # <<>> /\ Whole(g)' => Whole(g)
                               /\ Intact(g)' => Intact(g)
  <1> USE DEF readerVars, scan, Parts
  <1>1. CASE CreateIndex(f)
    <2>1. Types'
      BY <1>1 DEF Types, CreateIndex
    <2>2. /\ there'[f] = {"idx"}
          /\ stage'[f] = IF f \in FixedFiles THEN "open" ELSE "half"
          /\ \A g \in Files \ {f} : there'[g] = there[g] /\ stage'[g] = stage[g]
          /\ index[f] = <<>> /\ index' = index /\ records' = records
      BY <1>1 DEF Types, PairInv, CreateIndex
    <2>3. PairInv'
      BY <2>2 DEF PairInv
    <2>4. QED
      BY <1>1, <2>1, <2>2, <2>3 DEF CreateIndex, Whole, Intact, Vanished
  <1>2. CASE CreateData(f)
    <2>1. Types'
      BY <1>2 DEF Types, CreateData
    <2>2. /\ there'[f] = {"idx", "data"} /\ stage'[f] = "open" /\ f \notin FixedFiles
          /\ \A g \in Files \ {f} : there'[g] = there[g] /\ stage'[g] = stage[g]
          /\ index[f] = <<>> /\ index' = index /\ records' = records
      BY <1>2 DEF Types, PairInv, CreateData
    <2>3. PairInv'
      BY <2>2 DEF PairInv
    <2>4. QED
      BY <1>2, <2>1, <2>2, <2>3 DEF CreateData, Whole, Intact, Vanished
  <1>3. CASE AppendData(f)
    <2>1. Types'
      BY <1>3 DEF Types, AppendData
    <2>2. PairInv'
      BY <1>3 DEF Types, PairInv, AppendData
    <2>3. UNCHANGED <<stage, there, index>>
      BY <1>3 DEF AppendData
    <2>4. \A g \in Files : Len(index[g]) <= Len(index'[g])
      BY <2>3 DEF Types
    <2>5. QED
      BY <2>1, <2>2, <2>3, <2>4 DEF Whole, Intact, Vanished
  <1>4. ASSUME NEW t \in Times, AppendEntry(f, t)
        PROVE  /\ Types' /\ PairInv'
               /\ \A g \in Files : /\ Len(index[g]) <= Len(index'[g])
                                   /\ \A i \in 1..Len(index[g]) : index'[g][i] = index[g][i]
                                   /\ stage[g] # "none" => stage'[g] # "none"
                                   /\ index[g] # <<>> /\ Whole(g)' => Whole(g)
                                   /\ Intact(g)' => Intact(g)
    <2>1. Types'
      <3>1. Append(index[f], t) \in Seq(Times) /\ index \in [Files -> Seq(Times)]
        BY <1>4 DEF Types
      <3>2. index' \in [Files -> Seq(Times)]
        BY <1>4, <3>1 DEF AppendEntry
      <3>3. Len(index[f]) + 1 \in Nat /\ records \in [Files -> Nat]
        BY <3>1 DEF Types
      <3>4. records' \in [Files -> Nat]
        BY <1>4, <3>3 DEF AppendEntry
      <3>5. QED
        BY <1>4, <3>2, <3>4 DEF Types, AppendEntry, readerVars, scan
    <2>2. PairInv'
      <3> SUFFICES ASSUME NEW g \in Files
                   PROVE  /\ seen[g] <= records'[g] /\ records'[g] <= Len(index'[g])
                          /\ Len(index'[g]) <= MaxRecords
                          /\ there[g] \subseteq Parts(g)
                          /\ index'[g] # <<>> => stage[g] = "open"
                          /\ stage[g] = "none" => there[g] = {}
                          /\ stage[g] = "half" => g \notin FixedFiles
                          /\ \A i \in DOMAIN index'[g] :
                                 Time2YYYYMMDD(index'[g][i]) = DayOf[g]
        BY <1>4 DEF PairInv, AppendEntry, Time2YYYYMMDD
      <3>1. CASE g = f
        <4>1. /\ index[f] \in Seq(Times) /\ records[f] \in Nat /\ seen[f] \in Nat
              /\ index'[f] = Append(index[f], t) /\ Len(index[f]) < MaxRecords
              /\ records'[f] \in {records[f], Len(index[f]) + 1}
              /\ stage[f] = "open" /\ Time2YYYYMMDD(t) = DayOf[f]
          BY <1>4 DEF Types, AppendEntry
        <4>2. /\ Len(index'[f]) = Len(index[f]) + 1 /\ Len(index[f]) \in Nat
              /\ index'[f] # <<>>
              /\ \A i \in DOMAIN index'[f] : index'[f][i] = t \/
                     (i \in DOMAIN index[f] /\ index'[f][i] = index[f][i])
          BY <4>1
        <4>3. /\ seen[f] <= records'[f] /\ records'[f] <= Len(index'[f])
              /\ Len(index'[f]) <= MaxRecords
          BY <4>1, <4>2, ScannerAssumption DEF PairInv
        <4>4. \A i \in DOMAIN index'[f] : Time2YYYYMMDD(index'[f][i]) = DayOf[f]
          BY <4>1, <4>2 DEF PairInv
        <4>5. QED
          BY <3>1, <4>1, <4>2, <4>3, <4>4 DEF PairInv
      <3>2. CASE g # f
        BY <1>4, <3>2 DEF Types, PairInv, AppendEntry
      <3>3. QED
        BY <3>1, <3>2
    <2>3. /\ index'[f] = Append(index[f], t)
          /\ \A g \in Files \ {f} : index'[g] = index[g]
          /\ \A g \in Files : index[g] \in Seq(Times)
          /\ UNCHANGED <<stage, there>>
      BY <1>4 DEF Types, AppendEntry
    <2>4. \A g \in Files : /\ Len(index[g]) <= Len(index'[g])
                           /\ \A i \in 1..Len(index[g]) : index'[g][i] = index[g][i]
      BY <2>3
    <2>5. QED
      BY <2>1, <2>2, <2>3, <2>4 DEF Whole, Intact, Vanished
  <1>5. ASSUME NEW part \in {"idx", "data"}, Unlink(f, part)
        PROVE  /\ Types' /\ PairInv'
               /\ \A g \in Files : /\ Len(index[g]) <= Len(index'[g])
                                   /\ \A i \in 1..Len(index[g]) : index'[g][i] = index[g][i]
                                   /\ stage[g] # "none" => stage'[g] # "none"
                                   /\ index[g] # <<>> /\ Whole(g)' => Whole(g)
                                   /\ Intact(g)' => Intact(g)
    <2>1. Types'
      BY <1>5 DEF Types, Unlink
    <2>2. PairInv'
      BY <1>5 DEF Types, PairInv, Unlink
    <2>3. \A g \in Files : Whole(g)' => Whole(g)
      BY <1>5 DEF Types, PairInv, Unlink, Whole
    <2>4. UNCHANGED <<stage, index>> /\ \A g \in Files : there'[g] \subseteq there[g]
      BY <1>5 DEF Types, Unlink
    <2>5. \A g \in Files : Len(index[g]) <= Len(index'[g])
      BY <2>4 DEF Types
    <2>6. \A g \in Files : Intact(g)' => Intact(g)
      BY <2>3, <2>4 DEF Intact, Vanished
    <2>7. QED
      BY <2>1, <2>2, <2>3, <2>4, <2>5, <2>6
  <1>6. QED
    BY <1>1, <1>2, <1>3, <1>4, <1>5

\* The writer turns no file that need not be listed into one that must be.
LEMMA StillRequired ==
    ASSUME Types, PairInv, Types', PairInv', UNCHANGED <<request, seen>>,
           \A g \in Files : /\ Len(index[g]) <= Len(index'[g])
                            /\ \A i \in 1..Len(index[g]) : index'[g][i] = index[g][i]
                            /\ index[g] # <<>> /\ Whole(g)' => Whole(g)
                            /\ Intact(g)' => Intact(g),
           NEW f \in Files, Required(f)'
    PROVE  Required(f)
  <1>1. PICK i \in 1..seen[f] : InRange(index'[f][i])
    BY DEF Required, InRange
  <1>2. i \in 1..Len(index[f]) /\ index[f] # <<>> /\ index'[f][i] = index[f][i]
    <2>1. /\ index[f] \in Seq(Times) /\ seen[f] \in Nat /\ records[f] \in Nat
          /\ seen[f] <= records[f] /\ records[f] <= Len(index[f])
      BY DEF Types, PairInv
    <2>2. i \in 1..Len(index[f])
      BY <1>1, <2>1
    <2>3. QED
      BY <2>1, <2>2
  <1>3. \E k \in 1..seen[f] : InRange(index[f][k])
    BY <1>1, <1>2
  <1>4. Whole(f)
    BY <1>2 DEF Required
  <1>5. DayIntact(f)
    <2>1. \A g \in Files : DayOf[g] = DayOf[f] => Intact(g)'
      BY DEF Required, DayIntact, Intact
    <2>2. QED
      BY <2>1 DEF DayIntact, Intact
  <1>6. Ordered(index[f])
    <2>1. index[f] \in Seq(Times) /\ index'[f] \in Seq(Times)
      BY DEF Types
    <2>2. \A k, j \in 1..Len(index'[f]) : k <= j => index'[f][k] <= index'[f][j]
      BY <2>1 DEF Required, Ordered
    <2>3. /\ DOMAIN index[f] = 1..Len(index[f]) /\ Len(index[f]) \in Nat
          /\ Len(index'[f]) \in Nat /\ Len(index[f]) <= Len(index'[f])
      BY <2>1
    <2>4. ASSUME NEW k \in 1..Len(index[f]), NEW j \in 1..Len(index[f]), k <= j
          PROVE  index[f][k] <= index[f][j]
      <3>1. k \in 1..Len(index'[f]) /\ j \in 1..Len(index'[f])
        BY <2>3, <2>4
      <3>2. index'[f][k] = index[f][k] /\ index'[f][j] = index[f][j]
        BY <2>4
      <3>3. index'[f][k] <= index'[f][j]
        BY <2>2, <2>4, <3>1
      <3>4. QED
        BY <3>2, <3>3
    <2>5. QED
      BY <2>3, <2>4 DEF Ordered
  <1>7. QED
    BY <1>3, <1>4, <1>5, <1>6 DEF Required

LEMMA WriterInv ==
    ASSUME IInv, WriterStep, UNCHANGED plan
    PROVE  IInv'
  <1> USE DEF IInv
  <1>1. PICK f \in Files : \/ CreateIndex(f) \/ CreateData(f) \/ AppendData(f)
                           \/ \E t \in Times : AppendEntry(f, t)
                           \/ \E part \in {"idx", "data"} : Unlink(f, part)
    BY DEF WriterStep
  <1>2. UNCHANGED <<plan, readerVars>>
    BY DEF WriterStep
  <1>3. /\ Types' /\ PairInv'
        /\ \A g \in Files : /\ Len(index[g]) <= Len(index'[g])
                            /\ \A i \in 1..Len(index[g]) : index'[g][i] = index[g][i]
                            /\ stage[g] # "none" => stage'[g] # "none"
                            /\ index[g] # <<>> /\ Whole(g)' => Whole(g)
                            /\ Intact(g)' => Intact(g)
    BY <1>1, <1>2, WriterPair
  <1>4. UNCHANGED <<service, request, due, visited, reader, response, seen>>
    BY <1>2 DEF readerVars, scan
  <1>5. ReaderInv'
    BY <1>3, <1>4 DEF ReaderInv, Looking, Listing
  <1>6. ResponseInv'
    BY <1>4 DEF ResponseInv, Listing
  <1>7. ScanInv'
    <2> SUFFICES ASSUME service # "idle", Listing, NEW g \in Files, Required(g)'
                 PROVE  Tracked(g)'
      BY <1>4 DEF ScanInv, Listing
    <2>1. Tracked(g)
      BY <1>3, <1>4, StillRequired DEF ScanInv
    <2>2. Holds(g) => Holds(g)'
      <3>1. /\ index[g] \in Seq(Times) /\ index'[g] \in Seq(Times)
            /\ reader.times \in Seq(Times) /\ UNCHANGED <<seen, reader>>
        BY <1>3, <1>4 DEF Types
      <3>2. /\ Len(index[g]) <= Len(index'[g])
            /\ \A i \in 1..Len(index[g]) : index'[g][i] = index[g][i]
        BY <1>3
      <3>3. QED
        BY <3>1, <3>2 DEF Holds
    <2>3. AtHand(g) => AtHand(g)'
      BY <1>4, <2>2 DEF AtHand
    <2>4. Listed(g) => Listed(g)'
      BY <1>4 DEF Listed
    <2>5. QED
      BY <1>4, <2>1, <2>3, <2>4 DEF Tracked
  <1>8. QED
    BY <1>3, <1>5, <1>6, <1>7

-----------------------------------------------------------------------------
(* The steps of the service thread *)

\* The storage and the query stay, so the same files must be listed.
LEMMA SameRequired ==
    ASSUME UNCHANGED <<storage, request, seen>>, NEW f \in Files
    PROVE  Required(f)' <=> Required(f)
  BY DEF Required, storage, Whole, Parts, DayIntact, Vanished, Ordered, InRange

\* A required file is there, and its index holds what was seen of it.
LEMMA RequiredFile ==
    ASSUME Types, PairInv, NEW f \in Files, Required(f)
    PROVE  /\ ~Vanished(f) /\ index[f] # <<>> /\ stage[f] = "open"
           /\ seen[f] \in 1..Len(index[f]) /\ records[f] >= 1
           /\ f \notin FixedFiles => "data" \in there[f]
  BY DEF Types, PairInv, Required, Whole, Parts, Vanished

LEMMA VisitInv ==
    ASSUME IInv, NEW f \in Files, Visit(f), UNCHANGED plan
    PROVE  IInv'
  <1> USE DEF IInv
  <1>1. /\ UNCHANGED <<storage, request, due, response, seen>>
        /\ service = "scan" /\ service' = "resolve"
        /\ visited' = visited \cup {f}
        /\ reader' = [file |-> f, times |-> <<>>, data |-> 0, status |-> "kUnknown"]
        /\ "idx" \in there[f]
    BY DEF Visit, NoReader
  <1>2. Types' /\ PairInv'
    BY <1>1 DEF Types, PairInv, storage, Status
  <1>3. ReaderInv'
    BY <1>1, ScannerAssumption DEF ReaderInv, Looking, Listing, storage, PairInv
  <1>4. ResponseInv'
    BY <1>1 DEF ResponseInv, Listing
  <1>5. ScanInv'
    <2> SUFFICES ASSUME Listing, NEW g \in Files, Required(g)'
                 PROVE  Tracked(g)'
      BY <1>1 DEF ScanInv, Listing
    <2>1. Tracked(g)
      BY <1>1, SameRequired DEF ScanInv
    <2>2. QED
      BY <1>1, <2>1 DEF Tracked, AtHand, Listed
  <1>6. QED
    BY <1>2, <1>3, <1>4, <1>5

\* Required files do not vanish, so the scan has visited them all.
LEMMA EndScanInv ==
    ASSUME IInv, EndScan, UNCHANGED plan
    PROVE  IInv'
  <1> USE DEF IInv
  <1>1. /\ UNCHANGED <<storage, request, due, visited, reader, response, seen>>
        /\ service = "scan" /\ service' = "respond" /\ Scanned
    BY DEF EndScan, scan
  <1>2. Types' /\ PairInv'
    BY <1>1 DEF Types, PairInv, storage
  <1>3. ReaderInv' /\ ResponseInv'
    BY <1>1 DEF ReaderInv, ResponseInv, Looking, Listing
  <1>4. ScanInv'
    <2> SUFFICES ASSUME Listing, NEW g \in Files, Required(g)'
                 PROVE  Tracked(g)'
      BY <1>1 DEF ScanInv, Listing
    <2>1. Required(g) /\ Tracked(g)
      BY <1>1, SameRequired DEF ScanInv
    <2>2. ~Vanished(g)
      BY <2>1, RequiredFile
    <2>3. QED
      BY <1>1, <2>1, <2>2 DEF Tracked, AtHand, Listed, Scanned
  <1>5. QED
    BY <1>2, <1>3, <1>4

\* A day whose file vanishes under the scan is not intact.
LEMMA ResolveInv ==
    ASSUME IInv, Resolve, UNCHANGED plan
    PROVE  IInv'
  <1> USE DEF IInv
  <1>1. UNCHANGED <<storage, request, due, reader, seen>> /\ service = "resolve"
    BY DEF Resolve
  <1>2. /\ reader.file \in Files
        /\ Listing => stage[reader.file] # "none"
    BY <1>1 DEF ReaderInv, Looking
  <1>3. \/ /\ service' = "index" /\ UNCHANGED <<visited, response>>
        \/ /\ MayBeInvalid(reader.file) /\ Listing
           /\ service' = "scan" /\ UNCHANGED response
           /\ UNCHANGED visited
              \/ (Vanished(reader.file) /\ visited' = visited \cup RestOfDay)
        \/ /\ ~Listing
           /\ service' = "respond" /\ UNCHANGED visited
           /\ response' = [response EXCEPT !.errors = TRUE]
    BY DEF Resolve
  <1>4. Types' /\ PairInv'
    BY <1>1, <1>3 DEF Types, PairInv, storage, RestOfDay
  <1>5. ReaderInv'
    BY <1>1, <1>3 DEF ReaderInv, Looking, Listing, storage
  <1>6. ResponseInv'
    BY <1>1, <1>3 DEF ResponseInv, Listing
  <1>7. ScanInv'
    <2> SUFFICES ASSUME Listing, NEW g \in Files, Required(g)'
                 PROVE  Tracked(g)'
      BY <1>1 DEF ScanInv, Listing
    <2>1. Required(g) /\ Tracked(g)
      BY <1>1, SameRequired DEF ScanInv
    <2>2. ~Vanished(g) /\ index[g] # <<>>
      BY <2>1, RequiredFile
    <2>3. CASE service' = "index" /\ UNCHANGED <<visited, response>>
      BY <1>1, <2>1, <2>3 DEF Tracked, AtHand, Listed
    <2>4. CASE /\ MayBeInvalid(reader.file) /\ service' = "scan"
               /\ UNCHANGED <<visited, response>>
      BY <1>1, <2>1, <2>2, <2>4 DEF Tracked, AtHand, Listed, MayBeInvalid
    <2>5. CASE /\ Vanished(reader.file) /\ service' = "scan" /\ UNCHANGED response
               /\ visited' = visited \cup RestOfDay
      <3>1. ~Intact(reader.file)
        BY <1>2, <2>5 DEF Intact, Vanished, Whole, Parts
      <3>2. g \notin RestOfDay
        BY <1>2, <2>1, <3>1 DEF Required, DayIntact, Intact, RestOfDay
      <3>3. QED
        BY <1>1, <2>1, <2>2, <2>5, <3>2 DEF Tracked, AtHand, Listed
    <2>6. QED
      BY <1>3, <2>3, <2>4, <2>5
  <1>8. QED
    BY <1>4, <1>5, <1>6, <1>7

\* The reader takes the whole index, which holds all that was seen.
LEMMA OpenIndexInv ==
    ASSUME IInv, OpenIndex, UNCHANGED plan
    PROVE  IInv'
  <1> USE DEF IInv
  <1>1. UNCHANGED <<storage, request, due, visited, response, seen>> /\ service = "index"
    BY DEF OpenIndex, scan
  <1>2. /\ reader.file \in Files
        /\ Listing => stage[reader.file] # "none"
        /\ index[reader.file] \in Seq(Times) /\ Len(index[reader.file]) <= MaxRecords
        /\ reader \in [file : Files \cup {"none"}, times : Seq(Times),
                       data : Nat, status : Status]
    BY <1>1 DEF ReaderInv, Looking, Types, PairInv
  <1>3. \/ /\ Vanished(reader.file) /\ service' = "match" /\ UNCHANGED reader
        \/ /\ index[reader.file] = <<>> /\ service' = "match"
           /\ reader' = [reader EXCEPT !.status = "kEmpty"]
        \/ /\ index[reader.file] # <<>>
           /\ service' = IF reader.file \in FixedFiles THEN "match" ELSE "data"
           /\ reader' = [reader EXCEPT !.status = "kHealthy", !.times = index[reader.file]]
    BY DEF OpenIndex
  <1>4. /\ reader' \in [file : Files \cup {"none"}, times : Seq(Times),
                        data : Nat, status : Status]
        /\ service' \in {"match", "data"} /\ reader'.file = reader.file
    BY <1>2, <1>3 DEF Status
  <1>5. Types' /\ PairInv'
    BY <1>1, <1>4 DEF Types, PairInv, storage
  <1>6. ReaderInv'
    BY <1>1, <1>2, <1>3, <1>4 DEF ReaderInv, Looking, Listing, storage
  <1>7. ResponseInv'
    BY <1>1 DEF ResponseInv, Listing
  <1>8. ScanInv'
    <2> SUFFICES ASSUME Listing, NEW g \in Files, Required(g)'
                 PROVE  Tracked(g)'
      BY <1>1 DEF ScanInv, Listing
    <2>1. Required(g) /\ Tracked(g)
      BY <1>1, SameRequired DEF ScanInv
    <2>2. CASE ~AtHand(g)
      BY <1>1, <1>4, <2>1, <2>2 DEF Tracked, Listed
    <2>3. CASE AtHand(g)
      <3>1. /\ reader.file = g /\ ~Vanished(g) /\ index[g] # <<>>
            /\ seen[g] \in 1..Len(index[g])
        BY <2>1, <2>3, RequiredFile DEF AtHand
      <3>2. /\ service' = IF g \in FixedFiles THEN "match" ELSE "data"
            /\ reader'.file = g /\ reader'.times = index[g] /\ reader'.status = "kHealthy"
        BY <1>2, <1>3, <3>1
      <3>3. Holds(g)'
        BY <1>1, <1>2, <3>1, <3>2 DEF Holds, storage
      <3>4. QED
        BY <1>1, <2>1, <3>2, <3>3 DEF Tracked, AtHand
    <2>4. QED
      BY <2>2, <2>3
  <1>9. QED
    BY <1>5, <1>6, <1>7, <1>8

\* The data file of a required pair is there, and its header is on disk.
LEMMA OpenDataInv ==
    ASSUME IInv, OpenData, UNCHANGED plan
    PROVE  IInv'
  <1> USE DEF IInv
  <1>1. /\ UNCHANGED <<storage, request, due, visited, response, seen>>
        /\ service = "data" /\ service' = "match"
    BY DEF OpenData, scan
  <1>2. /\ reader.file \in Files /\ records[reader.file] \in Nat
        /\ Listing => stage[reader.file] # "none"
        /\ reader \in [file : Files \cup {"none"}, times : Seq(Times),
                       data : Nat, status : Status]
    BY <1>1 DEF ReaderInv, Looking, Types
  <1>3. PICK s \in StatusOfPair(reader.file) :
            reader' = [reader EXCEPT !.status = s, !.data = records[reader.file]]
    BY DEF OpenData
  <1>4. /\ reader' \in [file : Files \cup {"none"}, times : Seq(Times),
                        data : Nat, status : Status]
        /\ reader'.file = reader.file /\ reader'.times = reader.times
        /\ reader'.status = s
    BY <1>2, <1>3 DEF Status, StatusOfPair
  <1>5. Types' /\ PairInv'
    BY <1>1, <1>4 DEF Types, PairInv, storage
  <1>6. ReaderInv'
    BY <1>1, <1>2, <1>4 DEF ReaderInv, Looking, Listing, storage
  <1>7. ResponseInv'
    BY <1>1 DEF ResponseInv, Listing
  <1>8. ScanInv'
    <2> SUFFICES ASSUME Listing, NEW g \in Files, Required(g)'
                 PROVE  Tracked(g)'
      BY <1>1 DEF ScanInv, Listing
    <2>1. Required(g) /\ Tracked(g)
      BY <1>1, SameRequired DEF ScanInv
    <2>2. CASE ~AtHand(g)
      BY <1>1, <2>1, <2>2 DEF Tracked, Listed
    <2>3. CASE AtHand(g)
      <3>1. reader.file = g /\ Holds(g) /\ g \notin FixedFiles /\ g \notin LongNamed
        BY <1>1, <2>1, <2>3 DEF AtHand, Required
      <3>2. "data" \in there[g] /\ records[g] >= 1
        BY <2>1, <3>1, RequiredFile
      <3>3. s = "kHealthy"
        BY <1>2, <3>1, <3>2 DEF StatusOfPair
      <3>4. Holds(g)'
        BY <1>1, <1>4, <3>1 DEF Holds, storage
      <3>5. QED
        BY <1>1, <1>4, <2>1, <3>1, <3>3, <3>4 DEF Tracked, AtHand
    <2>4. QED
      BY <2>2, <2>3
  <1>9. QED
    BY <1>5, <1>6, <1>7, <1>8

\* In order of time, a record of the queried time lies between the first and
\* the last one.
LEMMA RequiredMatches ==
    ASSUME IInv, NEW f \in Files, Required(f), Holds(f), reader.status = "kHealthy"
    PROVE  matchTime(request.start_ns, request.end_ns)
  <1>1. PICK i \in 1..seen[f] : InRange(index[f][i])
    BY DEF Required
  <1>2. /\ index[f] \in Seq(Times) /\ reader.times \in Seq(Times) /\ seen[f] \in Nat
        /\ request.start_ns \in Nat /\ request.end_ns \in Nat
        /\ \A k \in 1..Len(index[f]) : index[f][k] \in Nat
        /\ Ordered(index[f])
    <2>1. /\ index[f] \in Seq(Times) /\ reader.times \in Seq(Times) /\ seen[f] \in Nat
          /\ request.start_ns \in 0..MaxTime /\ request.end_ns \in 0..MaxTime
          /\ Ordered(index[f])
      BY DEF IInv, Types, Required
    <2>2. Times \subseteq Nat /\ 0..MaxTime \subseteq Nat
      BY ScannerAssumption
    <2>3. \A k \in 1..Len(index[f]) : index[f][k] \in Times
      BY <2>1
    <2>4. QED
      BY <2>1, <2>2, <2>3
  <1>3. /\ i \in 1..Len(reader.times) /\ i \in 1..Len(index[f])
        /\ 1 \in 1..Len(index[f]) /\ Len(reader.times) \in 1..Len(index[f])
        /\ reader.times[1] = index[f][1]
        /\ reader.times[Len(reader.times)] = index[f][Len(reader.times)]
    <2>1. /\ seen[f] <= Len(reader.times) /\ Len(reader.times) <= Len(index[f])
          /\ \A k \in 1..Len(reader.times) : reader.times[k] = index[f][k]
      BY DEF Holds
    <2>2. i \in 1..Len(reader.times) /\ Len(reader.times) \in 1..Len(index[f])
      BY <1>1, <1>2, <2>1
    <2>3. 1 \in 1..Len(reader.times) /\ Len(reader.times) \in 1..Len(reader.times)
      BY <1>2, <2>2
    <2>4. /\ reader.times[1] = index[f][1]
          /\ reader.times[Len(reader.times)] = index[f][Len(reader.times)]
      BY <2>1, <2>3
    <2>5. QED
      BY <1>2, <2>1, <2>2, <2>4
  <1>4. /\ index[f][1] <= index[f][i]
        /\ index[f][i] <= index[f][Len(reader.times)]
    BY <1>2, <1>3 DEF Ordered
  <1>5. request.start_ns <= index[f][i] /\ index[f][i] <= request.end_ns
    BY <1>1 DEF InRange
  <1>6. request.start_ns <= request.end_ns
    BY <1>2, <1>3, <1>5
  <1>7. reader.times[1] <= request.end_ns
    BY <1>2, <1>3, <1>4, <1>5
  <1>8. reader.times[Len(reader.times)] >= request.start_ns
    BY <1>2, <1>3, <1>4, <1>5
  <1>9. QED
    BY <1>2, <1>6, <1>7, <1>8 DEF matchTime, start_ns, end_ns, records_cnt

LEMMA MatchInv ==
    ASSUME IInv, Match, UNCHANGED plan
    PROVE  IInv'
  <1> USE DEF IInv
  <1>1. /\ UNCHANGED <<storage, request, due, visited, reader, seen>>
        /\ service = "match" /\ service' = IF Listing THEN "scan" ELSE "respond"
    BY DEF Match, scan
  <1>2. /\ Listing /\ ~matchTime(request.start_ns, request.end_ns) => UNCHANGED response
        /\ Listing /\ matchTime(request.start_ns, request.end_ns) =>
               response' = [response EXCEPT !.streams = @ \cup {ThisStream}]
    BY DEF Match
  <1>3. Types' /\ PairInv'
    BY <1>1 DEF Types, PairInv, storage
  <1>4. ReaderInv'
    BY <1>1 DEF ReaderInv, Looking, Listing, storage
  <1>5. matchTime(request.start_ns, request.end_ns) => ThisStream \in Stream
    <2> SUFFICES ASSUME matchTime(request.start_ns, request.end_ns)
                 PROVE  ThisStream \in Stream
      OBVIOUS
    <2>1. /\ reader.file \in Files /\ reader.times \in Seq(Times) /\ reader.times # <<>>
          /\ Len(reader.times) <= MaxRecords
      BY <1>1 DEF ReaderInv, Looking, Types, matchTime
    <2>2. /\ Len(reader.times) \in 1..MaxRecords
          /\ reader.times[1] \in Times /\ reader.times[Len(reader.times)] \in Times
      BY <2>1, ScannerAssumption
    <2>3. QED
      BY <2>1, <2>2 DEF ThisStream, Stream, records_cnt, start_ns, end_ns
  <1>6. ResponseInv'
    BY <1>1, <1>2, <1>5 DEF ResponseInv, Listing
  <1>7. ScanInv'
    <2> SUFFICES ASSUME Listing, NEW g \in Files, Required(g)'
                 PROVE  Tracked(g)'
      BY <1>1 DEF ScanInv, Listing
    <2>1. Required(g) /\ Tracked(g) /\ service' = "scan"
      BY <1>1, SameRequired DEF ScanInv
    <2>2. response \in [streams : SUBSET Stream, data : {<<>>}, errors : {FALSE}]
      BY DEF ResponseInv
    <2>3. Listed(g) => Listed(g)'
      BY <1>2, <2>2 DEF Listed
    <2>4. CASE ~AtHand(g)
      BY <1>1, <2>1, <2>3, <2>4 DEF Tracked
    <2>5. CASE AtHand(g)
      <3>1. reader.file = g /\ Holds(g) /\ reader.status = "kHealthy"
        BY <1>1, <2>5 DEF AtHand
      <3>2. response' = [response EXCEPT !.streams = @ \cup {ThisStream}]
        BY <1>2, <2>1, <3>1, RequiredMatches
      <3>3. Listed(g)'
        <4>1. ThisStream \in response'.streams
          BY <2>2, <3>2
        <4>2. ThisStream.file = g
          BY <3>1 DEF ThisStream
        <4>3. QED
          BY <4>1, <4>2 DEF Listed
      <3>4. QED
        BY <1>1, <2>1, <3>3 DEF Tracked
    <2>6. QED
      BY <2>4, <2>5
  <1>8. QED
    BY <1>3, <1>4, <1>6, <1>7

-----------------------------------------------------------------------------
(* Requests and responses *)

\* A readable file with a record of the queried time is in the directory of a
\* queried day.
LEMMA RequestInv ==
    ASSUME IInv, UNCHANGED plan,
           NEW r, r.file \in Files \cup {"none"},
           r.start_ns \in 0..MaxTime, r.end_ns \in 0..MaxTime,
           handleReadingRequest(r)
    PROVE  IInv'
  <1> USE DEF IInv
  <1>1. /\ service = "idle" /\ request' = r /\ response' = NoResponse
        /\ seen' = [f \in Files |-> Readable(f)]
        /\ UNCHANGED <<stage, there, index, records>>
    BY DEF handleReadingRequest, storage
  <1>2. \/ /\ r.file = "none" /\ service' = "scan" /\ visited' = {}
           /\ due' = {f \in Files : "idx" \in there[f] /\ Selected(f, r)}
           /\ UNCHANGED reader
        \/ /\ r.file \in Files /\ r.file # "none" /\ service' = "resolve"
           /\ UNCHANGED <<due, visited>>
           /\ reader' = [file |-> r.file, times |-> <<>>, data |-> 0,
                         status |-> "kUnknown"]
    BY DEF handleReadingRequest, scan, NoReader
  <1>3. /\ \A f \in Files : Readable(f) \in Nat /\ Readable(f) <= records[f]
        /\ seen' \in [Files -> Nat]
    BY <1>1 DEF Types, Readable
  <1>4. Types'
    <2>1. due' \subseteq Files /\ visited' \subseteq Files
      BY <1>2 DEF Types
    <2>2. reader' \in [file : Files \cup {"none"}, times : Seq(Times),
                      data : Nat, status : Status]
      <3>1. /\ <<>> \in Seq(Times) /\ "kUnknown" \in Status /\ 0 \in Nat
            /\ reader \in [file : Files \cup {"none"}, times : Seq(Times),
                           data : Nat, status : Status]
        BY DEF Types, Status
      <3>2. CASE UNCHANGED reader
        BY <3>1, <3>2
      <3>3. CASE r.file \in Files /\ reader' = [file |-> r.file, times |-> <<>>,
                                               data |-> 0, status |-> "kUnknown"]
        BY <3>1, <3>3
      <3>4. QED
        BY <1>2, <3>2, <3>3
    <2>3. QED
      BY <1>1, <1>2, <1>3, <2>1, <2>2 DEF Types
  <1>5. PairInv'
    BY <1>1, <1>3 DEF PairInv
  <1>6. ReaderInv'
    BY <1>1, <1>2, ScannerAssumption DEF ReaderInv, Looking, Listing
  <1>7. ResponseInv'
    BY <1>1 DEF ResponseInv, NoResponse
  <1>8. ScanInv'
    <2> SUFFICES ASSUME Listing', NEW g \in Files, Required(g)'
                 PROVE  Tracked(g)'
      BY DEF ScanInv
    <2>1. PICK i \in 1..seen'[g] : InRange(index[g][i])'
      BY <1>1 DEF Required, InRange
    <2>2. r.start_ns <= index[g][i] /\ index[g][i] <= r.end_ns
      BY <1>1, <2>1 DEF InRange
    <2>3. Whole(g) /\ i \in DOMAIN index[g] /\ index[g][i] \in Nat
      <3>1. seen'[g] = Readable(g) /\ records[g] \in Nat /\ records[g] <= Len(index[g])
            /\ index[g] \in Seq(Times)
        BY <1>1 DEF Types, PairInv
      <3>2. Whole(g) /\ i \in 1..Len(index[g])
        BY <2>1, <3>1 DEF Readable
      <3>3. DOMAIN index[g] = 1..Len(index[g]) /\ index[g][i] \in Times
        BY <3>1, <3>2
      <3>4. Times \subseteq Nat
        BY ScannerAssumption
      <3>5. QED
        BY <3>2, <3>3, <3>4
    <2>4. Time2YYYYMMDD(index[g][i]) = DayOf[g]
      BY <2>3 DEF PairInv
    <2>5. r.start_ns \in Nat /\ r.end_ns \in Nat
      BY ScannerAssumption
    <2>6. Selected(g, r)
      <3>1. /\ Time2YYYYMMDD(r.start_ns) \in Nat /\ Time2YYYYMMDD(r.end_ns) \in Nat
            /\ Time2YYYYMMDD(r.start_ns) <= DayOf[g]
            /\ DayOf[g] <= Time2YYYYMMDD(r.end_ns) /\ DayOf[g] \in Nat
        BY <2>2, <2>3, <2>4, <2>5, DayMonotone
      <3>2. QED
        BY <3>1 DEF Selected
    <2>7. "idx" \in there[g]
      BY <2>3 DEF Whole, Parts
    <2>8. r.file = "none"
      BY <1>1 DEF Listing
    <2>9. QED
      BY <1>2, <2>6, <2>7, <2>8 DEF Tracked
  <1>9. QED
    BY <1>4, <1>5, <1>6, <1>7, <1>8

LEMMA RespondInv ==
    ASSUME IInv, Respond, UNCHANGED plan
    PROVE  IInv'
  <1> USE DEF IInv
  <1>1. /\ UNCHANGED <<stage, there, index, records, request>> /\ service' = "idle"
        /\ due' = {} /\ visited' = {} /\ response' = NoResponse
        /\ reader' = [file |-> "none", times |-> <<>>, data |-> 0, status |-> "kUnknown"]
        /\ seen' = [f \in Files |-> 0]
    BY DEF Respond, storage, NoReader
  <1>2. Types'
    BY <1>1 DEF Types, Status
  <1>3. PairInv'
    BY <1>1 DEF PairInv, Types
  <1>4. ReaderInv' /\ ResponseInv' /\ ScanInv'
    BY <1>1, ScannerAssumption DEF ReaderInv, ResponseInv, ScanInv, Looking, NoResponse
  <1>5. QED
    BY <1>2, <1>3, <1>4

-----------------------------------------------------------------------------
(* The theorem about discovery *)

LEMMA ShortSequences ==
    ASSUME NEW s \in SeqOf(Times, MaxRecords)
    PROVE  s \in Seq(Times) /\ Len(s) <= MaxRecords
  BY ScannerAssumption DEF SeqOf

LEMMA InitInv ==
    ASSUME Init
    PROVE  IInv
  <1> USE DEF Init, ScannerInit
  <1>1. /\ index \in [Files -> SeqOf(Times, MaxRecords)]
        /\ \A f \in Files : \A t \in ToSet(index[f]) : Time2YYYYMMDD(t) = DayOf[f]
    OBVIOUS
  <1>2. /\ index \in [Files -> Seq(Times)]
        /\ \A f \in Files : Len(index[f]) <= MaxRecords
    BY <1>1, ShortSequences
  <1>3. \A f \in Files : \A i \in DOMAIN index[f] : Time2YYYYMMDD(index[f][i]) = DayOf[f]
    BY <1>1 DEF ToSet
  <1>4. Types
    BY <1>2, ScannerAssumption DEF Types, Parts, NoReader, Status
  <1>5. PairInv
    BY <1>2, <1>3, ScannerAssumption DEF PairInv, Parts
  <1>6. ReaderInv /\ ResponseInv /\ ScanInv
    BY ScannerAssumption DEF ReaderInv, ResponseInv, ScanInv, Looking, NoReader, NoResponse
  <1>7. QED
    BY <1>4, <1>5, <1>6 DEF IInv

LEMMA StutterInv ==
    ASSUME IInv, UNCHANGED <<scannerVars, plan>>
    PROVE  IInv'
  <1>1. UNCHANGED <<storage, service, request, due, visited, reader, response, seen, plan>>
    BY DEF scannerVars, scan
  <1>2. \A f \in Files : Required(f)' <=> Required(f)
    BY <1>1, SameRequired
  <1>3. \A f \in Files : Tracked(f)' <=> Tracked(f)
    BY <1>1 DEF Tracked, AtHand, Listed, Holds, storage
  <1>4. ScanInv'
    BY <1>1, <1>2, <1>3 DEF IInv, ScanInv, Listing
  <1>5. QED
    BY <1>1, <1>4 DEF IInv, Types, PairInv, ReaderInv, ResponseInv, Looking, Listing, storage

\* Every step of the client, of the service thread and of the writer.
THEOREM Inductive == IInv /\ [Next]_vars => IInv'
  <1> SUFFICES ASSUME IInv, [Next]_vars
               PROVE  IInv'
    OBVIOUS
  <1>1. CASE WriterStep /\ UNCHANGED clientVars
    BY <1>1, WriterInv DEF clientVars
  <1>2. CASE ServiceStep /\ UNCHANGED clientVars
    BY <1>2, VisitInv, EndScanInv, ResolveInv, OpenIndexInv, OpenDataInv, MatchInv
       DEF ServiceStep, clientVars
  <1>3. CASE getStreams
    <2>1. plan.start_ns \in 0..MaxTime /\ plan.end_ns \in 0..MaxTime
      BY ExportAssumption DEF IInv, Types
    <2>2. QED
      BY <1>3, <2>1, RequestInv DEF getStreams
  <1>4. CASE ListStep
    BY <1>4, RespondInv DEF ListStep, NoRecords, TakeList, ListReceived
  <1>5. CASE TakeData
    BY <1>5, RespondInv DEF TakeData
  <1>6. ASSUME NEW f \in Files, ReadStream(f)
        PROVE  IInv'
    <2>1. DataRange[1] \in 0..MaxTime /\ DataRange[2] \in 0..MaxTime
      BY ExportAssumption, ScannerAssumption DEF IInv, Types, DataRange
    <2>2. QED
      BY <1>6, <2>1, RequestInv DEF ReadStream
  <1>7. CASE Save
    BY <1>7, StutterInv DEF Save
  <1>8. CASE UNCHANGED vars
    BY <1>8, StutterInv DEF vars, clientVars
  <1>9. QED
    BY <1>1, <1>2, <1>3, <1>4, <1>5, <1>6, <1>7, <1>8 DEF Next, ClientStep

\* The list of streams misses nothing that was readable when the query arrived
\* and whose day is still there when it is answered, however files come, grow
\* and go while StorageScanner walks the folder.
THEOREM DiscoveryCorrect == Spec => []DiscoveryComplete
  <1>1. IInv => DiscoveryComplete
    BY DEF IInv, ScanInv, Required, Tracked, AtHand, Listed, DiscoveryComplete
  <1>2. QED
    BY <1>1, InitInv, Inductive, PTL DEF Spec

-----------------------------------------------------------------------------
(* Fetching and exporting: the rest of the inductive invariant *)

\* The types of what discovery does not depend on.
MoreTypes ==
    /\ changes \in 0..MaxChanges
    /\ request.start_idx \in Nat /\ request.max_count \in 0..Unlimited
    /\ DOMAIN request = {"file", "start_ns", "end_ns", "start_idx", "max_count"}
    /\ reader.data \in 0..MaxRecords
    /\ response \in [streams : SUBSET Stream, data : Seq(Piece), errors : BOOLEAN]
    /\ client \in {"start", "listing", "next", "reading", "done", "stopped"}
    /\ listed \subseteq Files
    /\ position \in 0..MaxRecords
    /\ fetched \in [Files -> Seq(Piece)]
    /\ finished \subseteq Files /\ failed \subseteq Files
    /\ promised \in [Files -> 0..MaxRecords]

\* How client and service thread take turns, and what is being read.
PhaseInv ==
    /\ client \in {"listing", "reading"} <=> service # "idle"
    /\ client = "listing" => Listing
    /\ client = "reading" =>
           /\ request.start_ns = DataRange[1] /\ request.end_ns = DataRange[2]
           /\ request.start_idx = position /\ request.max_count = Page
           /\ request.file \in listed
    /\ client \in {"start", "listing", "stopped"} => listed = {} /\ finished = {}
    /\ client = "done" => listed = {}
    /\ listed \cap finished = {}
    /\ position > 0 => /\ plan.app = "pages" /\ request.file \in listed
                       /\ position <= Len(index[request.file])

\* Everything there is of f can be read.
Complete(f) ==
    Whole(f) /\ f \notin LongNamed /\ (plan.app # "range" \/ Ordered(index[f]))

\* Records of one file, in their order, with the times of the index.
Pieces(f, times, data) ==
    /\ \A k \in DOMAIN data : /\ data[k].file = f /\ data[k].i \in 1..Len(times)
                              /\ data[k].time_ns = times[data[k].i]
    /\ \A j, k \in DOMAIN data : j < k => data[j].i < data[k].i

\* Of the records behind a, up to n, data has those of the range.
Covers(range, times, data, a, n) ==
    /\ \A k \in DOMAIN data : /\ a < data[k].i /\ data[k].i <= n
                              /\ range[1] <= times[data[k].i] /\ times[data[k].i] <= range[2]
    /\ \A i \in (a + 1)..n : range[1] <= times[i] /\ times[i] <= range[2] =>
                                  \E k \in DOMAIN data : data[k].i = i

\* The reader of a file whose records are asked for.
ReadingInv ==
    client = "reading" =>
        LET f == request.file
        IN  /\ Looking => /\ reader.file = f /\ response = NoResponse
                          /\ Len(reader.times) <= Len(index[f])
                          /\ \A i \in 1..Len(reader.times) : reader.times[i] = index[f][i]
            /\ service = "data" => f \notin FixedFiles /\ reader.status = "kHealthy"
            /\ service \in {"data", "match"} /\ Whole(f) /\ f \notin LongNamed =>
                   /\ promised[f] <= Len(reader.times)
                   /\ reader.status = "kHealthy" \/ promised[f] = 0
            /\ service # "scan"

\* The records on their way.
AnswerInv ==
    client = "reading" /\ service = "respond" =>
        LET f == request.file
            data == response.data
        IN  /\ Pieces(f, index[f], data)
            /\ Len(data) <= Page
            /\ \A k \in DOMAIN data : position < data[k].i
            /\ response.errors => Len(data) < Page
            /\ ~response.errors =>
                   \E n \in position..Len(index[f]) :
                       /\ Covers(DataRange, index[f], data, position, n)
                       /\ Complete(f) /\ Len(data) < Page => promised[f] <= n

\* How far the pages of f have come.
UpTo(f) == IF f = request.file THEN position ELSE 0

\* What the client has.
FetchInv ==
    \A f \in Files :
        /\ promised[f] <= records[f]
        /\ Pieces(f, index[f], fetched[f])
        /\ f \notin finished => \A k \in DOMAIN fetched[f] : fetched[f][k].i <= UpTo(f)
        /\ f \notin finished \cup failed => Covers(DataRange, index[f], fetched[f], 0, UpTo(f))
        /\ f \in finished \ failed =>
               \E n \in 0..Len(index[f]) : /\ Covers(DataRange, index[f], fetched[f], 0, n)
                                           /\ Complete(f) => promised[f] <= n

FInv == MoreTypes /\ PhaseInv /\ ReadingInv /\ AnswerInv /\ FetchInv

\* The combiner holds the fetched records of the wanted seconds.
Due(second) == second # 0 /\ second \in Second(plan.start_ns)..Second(plan.end_ns)

TimesOf(data) == [i \in DOMAIN data |-> data[i].time_ns]

Seconds == [0..LastSecond -> Seq(OutputPiece)]

\* The combiner knows every stream at most once.
Distinct(inds) ==
    inds \in Seq(Channels) /\ \A i, j \in DOMAIN inds : inds[i] = inds[j] => i = j

CombinerTypes(c) ==
    /\ DOMAIN c = {"first_second_", "last_second_", "indices_", "seconds_"}
    /\ c.first_second_ = Second(plan.start_ns)
    /\ c.last_second_ = Second(plan.end_ns)
    /\ Distinct(c.indices_)
    /\ c.seconds_ \in Seconds

\* What the combiner holds has been fetched, is in its second and has the index
\* of its channel.
Held(c, got) ==
    \A s \in 0..LastSecond : \A k \in DOMAIN c.seconds_[s] :
        LET p == c.seconds_[s][k]
        IN  /\ Second(p.time_ns) = s /\ Due(s)
            /\ p.stream_idx + 1 \in DOMAIN c.indices_
            /\ c.indices_[p.stream_idx + 1] = ChannelOf[p.file]
            /\ \E i \in DOMAIN got[p.file] :
                   got[p.file][i].i = p.i /\ got[p.file][i].time_ns = p.time_ns

\* Within a second every file keeps its order.
InOrder(secs) ==
    \A s \in 0..LastSecond : \A j, k \in DOMAIN secs[s] :
        j < k /\ secs[s][j].file = secs[s][k].file => secs[s][j].i < secs[s][k].i

\* The record x of f is in the combiner, if its second is wanted.
Combined(secs, f, x) ==
    Due(Second(x.time_ns)) =>
        \E k \in DOMAIN secs[Second(x.time_ns)] :
            LET p == secs[Second(x.time_ns)][k] IN p.file = f /\ p.i = x.i

\* Nothing that was fetched in the order of time is missing.
NoneMissing(secs, got) ==
    \A f \in Files : Ordered(TimesOf(got[f])) =>
        \A i \in DOMAIN got[f] : Combined(secs, f, got[f][i])

CombinerInv ==
    /\ CombinerTypes(combiner)
    /\ Held(combiner, fetched)
    /\ InOrder(combiner.seconds_)
    /\ NoneMissing(combiner.seconds_, fetched)

\* out has what is in the first n seconds, second by second.
Written(secs, n, out) ==
    /\ out \in Seq(OutputPiece)
    /\ \A p \in DOMAIN out : \E s \in 1..n : \E k \in DOMAIN secs[s] : out[p] = secs[s][k]
    /\ \A s \in 1..n : \A k \in DOMAIN secs[s] : \E p \in DOMAIN out : out[p] = secs[s][k]
    /\ \A p, q \in DOMAIN out : p < q =>
           \E s, t \in 1..n : \E k \in DOMAIN secs[s], l \in DOMAIN secs[t] :
               /\ out[p] = secs[s][k] /\ out[q] = secs[t][l]
               /\ s < t \/ (s = t /\ k < l)

OutputInv == IF client = "done" THEN Written(combiner.seconds_, LastSecond, output)
                                ELSE output = <<>>

-----------------------------------------------------------------------------
(* The loop of getData() *)

Responses == [streams : SUBSET Stream, data : Seq(Piece), errors : BOOLEAN]

\* After turn k, that is, behind record FirstIndex + k.
DataLoop(k, res) ==
    /\ res \in Responses
    /\ \A j \in DOMAIN res.data :
           /\ res.data[j].file = reader.file
           /\ FirstIndex < res.data[j].i /\ res.data[j].i <= FirstIndex + k
           /\ res.data[j].time_ns = reader.times[res.data[j].i]
           /\ InRange(reader.times[res.data[j].i])
    /\ \A j, l \in DOMAIN res.data : j < l => res.data[j].i < res.data[l].i
    /\ Len(res.data) <= request.max_count
    /\ res.errors => ~ReadOk(FirstIndex + k) /\ Len(res.data) < request.max_count
    /\ ~res.errors => \A i \in (FirstIndex + 1)..(FirstIndex + k) :
           InRange(reader.times[i]) =>
               \/ \E j \in DOMAIN res.data : res.data[j].i = i
               \/ /\ Len(res.data) = request.max_count
                  /\ \A j \in DOMAIN res.data : res.data[j].i < i

Indices == [k \in 1..(records_cnt - FirstIndex) |-> FirstIndex + k]

Getting == INSTANCE Folding WITH op <- getDataTurn, base <- response, seq <- Indices,
                           After <- DataLoop

\* What the loop depends on.
ReaderTypes ==
    /\ reader.file \in Files /\ reader.times \in Seq(Times)
    /\ reader.data \in Nat /\ records_cnt \in 0..MaxRecords
    /\ request.start_idx \in Nat /\ request.max_count \in Nat

LEMMA IndicesAre ==
    ASSUME ReaderTypes
    PROVE  /\ Len(Indices) \in Nat /\ DOMAIN Indices = 1..Len(Indices)
           /\ \A k \in 1..Len(Indices) : /\ Indices[k] = FirstIndex + k
                                         /\ FirstIndex + k \in 1..records_cnt
           /\ records_cnt - FirstIndex <= Len(Indices)
           /\ FirstIndex <= records_cnt => Len(Indices) = records_cnt - FirstIndex
           /\ Len(Indices) > 0 => FirstIndex + Len(Indices) = records_cnt
  <1> DEFINE N == records_cnt - FirstIndex
  <1>1. N \in Int /\ FirstIndex \in Nat /\ records_cnt \in Nat
    BY ScannerAssumption DEF ReaderTypes, FirstIndex
  <1>2. CASE N >= 0
    <2>1. N \in Nat
      BY <1>1, <1>2
    <2> HIDE DEF N
    <2>2. Len([k \in 1..N |-> FirstIndex + k]) = N
      BY <2>1
    <2>3. Indices = [k \in 1..N |-> FirstIndex + k]
      BY DEF Indices, N
    <2>4. Len(Indices) = N /\ DOMAIN Indices = 1..N /\ \A k \in 1..N : Indices[k] = FirstIndex + k
      BY <2>2, <2>3
    <2>5. N = records_cnt - FirstIndex
      BY DEF N
    <2>6. \A k \in 1..N : FirstIndex + k \in 1..records_cnt
      BY <1>1, <2>1, <2>5
    <2>7. QED
      BY <1>1, <2>1, <2>4, <2>5, <2>6
  <1>3. CASE N < 0
    <2>1. 1..N = {}
      BY <1>1, <1>3
    <2>2. Indices = <<>>
      BY <2>1 DEF Indices
    <2>3. QED
      BY <1>1, <1>3, <2>2
  <1>4. QED
    BY <1>1, <1>2, <1>3

LEMMA GetDataFolds ==
    ASSUME ReaderTypes
    PROVE  getData = Getting!Folded
  <1>1. DOMAIN Indices = 1..Len(Indices)
    BY IndicesAre
  <1>2. getData = FoldLeft(getDataTurn, response, Indices)
    BY DEF getData, Indices
  <1>3. QED
    BY <1>1, <1>2 DEF FoldLeft, MapThenFoldSet, Getting!Folded, Getting!Iter, Getting!Largest, Getting!Others, Max

\* The parts of a piece in a sequence of pieces.
LEMMA PieceAt ==
    ASSUME NEW data \in Seq(Piece), NEW k \in DOMAIN data
    PROVE  /\ data[k].i \in Nat /\ data[k].i \in 1..MaxRecords
           /\ data[k].file \in Files /\ data[k].time_ns \in Times
  <1>1. data[k] \in Piece
    OBVIOUS
  <1>2. /\ data[k].i \in 1..MaxRecords
        /\ data[k].file \in Files /\ data[k].time_ns \in Times
    BY <1>1 DEF Piece
  <1>3. QED
    BY <1>2, ScannerAssumption

\* One turn.
LEMMA DataTurn ==
    ASSUME ReaderTypes, NEW k \in Nat, k >= 1, FirstIndex + k \in 1..records_cnt,
           NEW res, DataLoop(k - 1, res)
    PROVE  DataLoop(k, getDataTurn(res, FirstIndex + k))
  <1> DEFINE i == FirstIndex + k
             piece == [file |-> reader.file, i |-> i, time_ns |-> reader.times[i]]
             new == getDataTurn(res, i)
  <1>1. /\ FirstIndex \in Nat /\ i \in 1..MaxRecords /\ i \in Nat
        /\ FirstIndex + (k - 1) = i - 1
        /\ reader.times[i] \in Times /\ reader.file \in Files
        /\ request.max_count \in Nat
    BY ScannerAssumption DEF ReaderTypes, FirstIndex, records_cnt
  <1>2. res \in Responses /\ res.data \in Seq(Piece) /\ Len(res.data) \in Nat
    BY DEF DataLoop, Responses
  <1>3. /\ \A j \in DOMAIN res.data :
               /\ res.data[j].file = reader.file /\ res.data[j].i \in Nat
               /\ FirstIndex < res.data[j].i /\ res.data[j].i <= i - 1
               /\ res.data[j].time_ns = reader.times[res.data[j].i]
               /\ InRange(reader.times[res.data[j].i])
        /\ \A j, l \in DOMAIN res.data : j < l => res.data[j].i < res.data[l].i
        /\ Len(res.data) <= request.max_count
    <2>1. \A j \in DOMAIN res.data : res.data[j].i \in Nat
      BY <1>2, PieceAt
    <2>2. QED
      BY <1>1, <2>1 DEF DataLoop
  <1>4. /\ res.errors => ~ReadOk(i - 1) /\ Len(res.data) < request.max_count
        /\ ~res.errors => \A n \in (FirstIndex + 1)..(i - 1) :
               InRange(reader.times[n]) =>
                   \/ \E j \in DOMAIN res.data : res.data[j].i = n
                   \/ /\ Len(res.data) = request.max_count
                      /\ \A j \in DOMAIN res.data : res.data[j].i < n
    BY <1>1 DEF DataLoop
  <1>5. ReadOk(i) => ReadOk(i - 1)
    BY <1>1 DEF ReadOk, ReaderTypes
  <1> HIDE DEF i
  <1>6. ASSUME NEW r, r \in Responses, r.data = res.data,
               r.errors => ~ReadOk(i) /\ Len(res.data) < request.max_count,
               ~r.errors => /\ ~res.errors
                            /\ InRange(reader.times[i]) => Len(res.data) = request.max_count
        PROVE  DataLoop(k, r)
    <2>1. \A j \in DOMAIN res.data : res.data[j].i <= i /\ res.data[j].i < i
      BY <1>1, <1>3
    <2>2. ~r.errors => \A n \in (FirstIndex + 1)..i :
               InRange(reader.times[n]) =>
                   \/ \E j \in DOMAIN res.data : res.data[j].i = n
                   \/ /\ Len(res.data) = request.max_count
                      /\ \A j \in DOMAIN res.data : res.data[j].i < n
      <3>1. \A n \in (FirstIndex + 1)..i : n = i \/ n \in (FirstIndex + 1)..(i - 1)
        BY <1>1
      <3>2. QED
        BY <1>4, <1>6, <2>1, <3>1
    <2>3. QED
      BY <1>3, <1>6, <2>1, <2>2 DEF DataLoop, i
  <1>7. CASE Len(res.data) >= request.max_count
    <2>1. new = res /\ Len(res.data) = request.max_count
      BY <1>1, <1>2, <1>3, <1>7 DEF getDataTurn
    <2>2. ~res.errors
      BY <1>1, <1>2, <1>4, <1>7
    <2>3. QED
      BY <1>2, <1>6, <2>1, <2>2 DEF i
  <1>8. CASE ~(Len(res.data) >= request.max_count) /\ ~ReadOk(i)
    <2>1. new = [res EXCEPT !.errors = TRUE]
      BY <1>8 DEF getDataTurn
    <2>2. new \in Responses /\ new.data = res.data /\ new.errors = TRUE
      BY <1>2, <2>1 DEF Responses
    <2>3. Len(res.data) < request.max_count
      BY <1>1, <1>2, <1>8
    <2>4. QED
      BY <1>6, <1>8, <2>2, <2>3 DEF i
  <1>9. CASE ~(Len(res.data) >= request.max_count) /\ ReadOk(i) /\ ~InRange(reader.times[i])
    <2>1. new = res
      BY <1>9 DEF getDataTurn
    <2>2. ~res.errors
      BY <1>4, <1>5, <1>9
    <2>3. QED
      BY <1>2, <1>6, <1>9, <2>1, <2>2 DEF i
  <1>10. CASE ~(Len(res.data) >= request.max_count) /\ ReadOk(i) /\ InRange(reader.times[i])
    <2>1. new = [res EXCEPT !.data = Append(res.data, piece)]
      BY <1>10 DEF getDataTurn, i
    <2>2. piece \in Piece /\ piece.file = reader.file /\ piece.i = i
          /\ piece.time_ns = reader.times[i]
      BY <1>1 DEF Piece, i
    <2> HIDE DEF piece
    <2>3. /\ Append(res.data, piece) \in Seq(Piece)
          /\ Len(Append(res.data, piece)) = Len(res.data) + 1
          /\ DOMAIN Append(res.data, piece) = 1..(Len(res.data) + 1)
          /\ \A j \in 1..Len(res.data) : Append(res.data, piece)[j] = res.data[j]
          /\ Append(res.data, piece)[Len(res.data) + 1] = piece
          /\ DOMAIN res.data = 1..Len(res.data)
      BY <1>2, <2>2
    <2>4. new \in Responses /\ new.data = Append(res.data, piece) /\ new.errors = res.errors
      BY <1>2, <2>1, <2>3 DEF Responses
    <2>5. ~new.errors
      BY <1>4, <1>5, <1>10, <2>4
    <2> HIDE DEF new
    <2>6. /\ DOMAIN new.data = 1..(Len(res.data) + 1) /\ Len(new.data) = Len(res.data) + 1
          /\ \A j \in DOMAIN res.data : j \in DOMAIN new.data /\ new.data[j] = res.data[j]
          /\ \A j \in DOMAIN new.data : j \in DOMAIN res.data \/ j = Len(res.data) + 1
          /\ new.data[Len(res.data) + 1] = piece
          /\ Len(res.data) + 1 \in DOMAIN new.data
      BY <1>2, <2>3, <2>4
    <2>7. ASSUME NEW j \in DOMAIN new.data
          PROVE  /\ new.data[j].file = reader.file
                 /\ FirstIndex < new.data[j].i /\ new.data[j].i <= i
                 /\ new.data[j].time_ns = reader.times[new.data[j].i]
                 /\ InRange(reader.times[new.data[j].i])
      <3>1. CASE j \in DOMAIN res.data
        <4>1. new.data[j] = res.data[j]
          BY <2>6, <3>1
        <4>2. /\ res.data[j].file = reader.file
              /\ FirstIndex < res.data[j].i /\ res.data[j].i <= i
              /\ res.data[j].time_ns = reader.times[res.data[j].i]
              /\ InRange(reader.times[res.data[j].i])
          BY <1>1, <1>3, <3>1
        <4>3. QED
          BY <4>1, <4>2
      <3>2. CASE j = Len(res.data) + 1
        <4>1. FirstIndex < i
          BY <1>1 DEF i
        <4>2. QED
          BY <1>1, <1>10, <2>2, <2>6, <3>2, <4>1
      <3>3. QED
        BY <2>6, <3>1, <3>2
    <2>8. ASSUME NEW j \in DOMAIN new.data, NEW l \in DOMAIN new.data, j < l
          PROVE  new.data[j].i < new.data[l].i
      <3>1. j \in DOMAIN res.data
        BY <1>2, <2>3, <2>6, <2>8
      <3>2. CASE l \in DOMAIN res.data
        BY <1>3, <2>6, <2>8, <3>1, <3>2
      <3>3. CASE l = Len(res.data) + 1
        <4>1. new.data[l].i = i
          BY <2>2, <2>6, <3>3
        <4>2. new.data[j].i \in Nat /\ new.data[j].i <= i - 1
          BY <1>3, <2>6, <3>1
        <4>3. QED
          BY <1>1, <4>1, <4>2
      <3>4. QED
        BY <2>6, <3>2, <3>3
    <2>9. Len(new.data) <= request.max_count
      BY <1>1, <1>2, <1>10, <2>6
    <2>10. ASSUME NEW n \in (FirstIndex + 1)..i, InRange(reader.times[n])
           PROVE  \E j \in DOMAIN new.data : new.data[j].i = n
      <3>1. CASE n = i
        BY <2>2, <2>6, <3>1
      <3>2. CASE n # i
        <4>1. n \in (FirstIndex + 1)..(i - 1)
          BY <1>1, <3>2
        <4>2. Len(res.data) # request.max_count
          BY <1>1, <1>2, <1>10
        <4>3. PICK j \in DOMAIN res.data : res.data[j].i = n
          BY <1>4, <2>4, <2>5, <2>10, <4>1, <4>2
        <4>4. QED
          BY <2>6, <4>3
      <3>3. QED
        BY <3>1, <3>2
    <2>11. QED
      BY <2>4, <2>5, <2>7, <2>8, <2>9, <2>10 DEF DataLoop, i, new
  <1>11. QED
    BY <1>7, <1>8, <1>9, <1>10

\* What getData() puts into a fresh response.
LEMMA GetDataCorrect ==
    ASSUME ReaderTypes, response = NoResponse, request.max_count > 0
    PROVE  DataLoop(Len(Indices), getData)
  <1>1. DataLoop(0, response)
    <2>1. response \in Responses /\ response.data = <<>> /\ response.errors = FALSE
      BY DEF NoResponse, Responses
    <2>2. (FirstIndex + 1)..(FirstIndex + 0) = {}
      BY DEF ReaderTypes, FirstIndex
    <2>3. QED
      BY <2>1, <2>2 DEF DataLoop, ReaderTypes
  <1>2. ASSUME NEW k \in 1..Len(Indices), NEW res, DataLoop(k - 1, res)
        PROVE  DataLoop(k, getDataTurn(res, Indices[k]))
    <2>1. k \in Nat /\ k >= 1 /\ Indices[k] = FirstIndex + k /\ FirstIndex + k \in 1..records_cnt
      BY <1>2, IndicesAre
    <2>2. QED
      BY <1>2, <2>1, DataTurn
  <1>3. Len(Indices) \in Nat
    BY IndicesAre
  <1>4. DataLoop(Len(Indices), Getting!Folded)
    BY <1>1, <1>2, <1>3, Getting!FoldInduction
  <1>5. QED
    BY <1>4, GetDataFolds

-----------------------------------------------------------------------------
(* Files only grow *)

LEMMA PiecesGrow ==
    ASSUME NEW f, NEW old \in Seq(Times), NEW new \in Seq(Times), Len(old) <= Len(new),
           \A i \in 1..Len(old) : new[i] = old[i],
           NEW data, Pieces(f, old, data)
    PROVE  Pieces(f, new, data)
  <1>1. \A k \in DOMAIN data : data[k].i \in 1..Len(old)
    BY DEF Pieces
  <1>2. 1..Len(old) \subseteq 1..Len(new)
    OBVIOUS
  <1>3. \A k \in DOMAIN data : data[k].i \in 1..Len(new) /\ new[data[k].i] = old[data[k].i]
    BY <1>1, <1>2
  <1>4. QED
    BY <1>3 DEF Pieces

LEMMA CoversGrow ==
    ASSUME NEW f, NEW range, NEW old \in Seq(Times), NEW new \in Seq(Times),
           Len(old) <= Len(new), \A i \in 1..Len(old) : new[i] = old[i],
           NEW data, Pieces(f, old, data),
           NEW a \in Nat, NEW n \in Nat, n <= Len(old), Covers(range, old, data, a, n)
    PROVE  Covers(range, new, data, a, n)
  <1>1. \A k \in DOMAIN data : data[k].i \in 1..Len(old)
    BY DEF Pieces
  <1>2. (a + 1)..n \subseteq 1..Len(old)
    OBVIOUS
  <1>3. \A k \in DOMAIN data : new[data[k].i] = old[data[k].i]
    BY <1>1
  <1>4. \A i \in (a + 1)..n : new[i] = old[i]
    BY <1>2
  <1>5. QED
    BY <1>3, <1>4 DEF Covers

LEMMA OrderedBefore ==
    ASSUME NEW old \in Seq(Times), NEW new \in Seq(Times), Len(old) <= Len(new),
           \A i \in 1..Len(old) : new[i] = old[i], Ordered(new)
    PROVE  Ordered(old)
  <1>1. DOMAIN old = 1..Len(old) /\ DOMAIN new = 1..Len(new)
    OBVIOUS
  <1>2. 1..Len(old) \subseteq 1..Len(new)
    OBVIOUS
  <1>3. ASSUME NEW i \in 1..Len(old), NEW j \in 1..Len(old), i <= j
        PROVE  old[i] <= old[j]
    <2>1. new[i] <= new[j]
      BY <1>1, <1>2, <1>3 DEF Ordered
    <2>2. QED
      BY <1>3, <2>1
  <1>4. QED
    BY <1>1, <1>3 DEF Ordered

\* What a step of the writer does to the files, as far as a reader can tell.
FilesGrow ==
    \A g \in Files : /\ Len(index[g]) <= Len(index'[g])
                     /\ \A i \in 1..Len(index[g]) : index'[g][i] = index[g][i]
                     /\ records[g] <= records'[g]
                     /\ index[g] # <<>> /\ Whole(g)' => Whole(g)

LEMMA SameFiles ==
    ASSUME IInv, UNCHANGED storage
    PROVE  FilesGrow
  <1>1. UNCHANGED <<there, index, records>>
    BY DEF storage
  <1>2. \A g \in Files : index[g] \in Seq(Times) /\ records[g] \in Nat
    BY DEF IInv, Types
  <1>3. \A g \in Files : Whole(g)' <=> Whole(g)
    BY <1>1 DEF Whole, Parts
  <1>4. QED
    BY <1>1, <1>2, <1>3 DEF FilesGrow

LEMMA WriterGrows ==
    ASSUME IInv, WriterStep, UNCHANGED plan
    PROVE  FilesGrow
  <1>1. PICK f \in Files : \/ CreateIndex(f) \/ CreateData(f) \/ AppendData(f)
                           \/ \E t \in Times : AppendEntry(f, t)
                           \/ \E part \in {"idx", "data"} : Unlink(f, part)
    BY DEF WriterStep
  <1>2. UNCHANGED <<plan, readerVars>>
    BY DEF WriterStep
  <1>3. \A g \in Files : /\ Len(index[g]) <= Len(index'[g])
                         /\ \A i \in 1..Len(index[g]) : index'[g][i] = index[g][i]
                         /\ index[g] # <<>> /\ Whole(g)' => Whole(g)
    BY <1>1, <1>2, WriterPair DEF IInv
  <1>4. \A g \in Files : records[g] <= records'[g]
    <2>1. /\ records \in [Files -> Nat]
          /\ \A g \in Files : records[g] <= Len(index[g]) /\ Len(index[g]) \in Nat
      BY DEF IInv, Types, PairInv
    <2>2. \/ UNCHANGED records
          \/ records' = [records EXCEPT ![f] = Len(index[f])]
          \/ records' = [records EXCEPT ![f] = Len(index[f]) + 1]
      BY <1>1 DEF CreateIndex, CreateData, AppendData, AppendEntry, Unlink
    <2>3. QED
      BY <2>1, <2>2
  <1>5. QED
    BY <1>3, <1>4 DEF FilesGrow

\* A file that is complete was complete, unless nothing was promised of it.
LEMMA CompleteBefore ==
    ASSUME IInv, IInv', FetchInv, MoreTypes, FilesGrow, UNCHANGED plan,
           NEW f \in Files
    PROVE  /\ Whole(f)' => Whole(f) \/ promised[f] = 0
           /\ Complete(f)' => Complete(f) \/ promised[f] = 0
  <1>1. /\ index[f] \in Seq(Times) /\ index'[f] \in Seq(Times)
        /\ Len(index[f]) <= Len(index'[f])
        /\ \A i \in 1..Len(index[f]) : index'[f][i] = index[f][i]
    BY DEF IInv, Types, FilesGrow
  <1>2. index[f] = <<>> => promised[f] = 0
    <2>1. /\ promised[f] <= records[f] /\ records[f] <= Len(index[f])
          /\ records[f] \in Nat /\ promised[f] \in 0..MaxRecords
      BY DEF FetchInv, IInv, PairInv, Types, MoreTypes
    <2>2. QED
      BY <2>1
  <1>3. Whole(f)' => Whole(f) \/ promised[f] = 0
    BY <1>2 DEF FilesGrow
  <1>4. Ordered(index'[f]) => Ordered(index[f])
    BY <1>1, OrderedBefore
  <1>5. QED
    BY <1>3, <1>4 DEF Complete

\* What the client has stays what it is while files grow.
LEMMA FetchKept ==
    ASSUME IInv, IInv', FetchInv, MoreTypes, FilesGrow,
           UNCHANGED <<plan, fetched, finished, failed, promised>>,
           \A f \in Files : /\ UpTo(f)' = UpTo(f) /\ UpTo(f) \in Nat
                            /\ UpTo(f) <= Len(index[f])
    PROVE  FetchInv'
  <1> SUFFICES ASSUME NEW f \in Files
               PROVE  /\ promised[f] <= records'[f]
                      /\ Pieces(f, index'[f], fetched[f])
                      /\ f \notin finished =>
                            \A k \in DOMAIN fetched[f] : fetched[f][k].i <= UpTo(f)
                      /\ f \notin finished \cup failed =>
                            Covers(DataRange, index'[f], fetched[f], 0, UpTo(f))
                      /\ f \in finished \ failed =>
                            \E n \in 0..Len(index'[f]) :
                               /\ Covers(DataRange, index'[f], fetched[f], 0, n)
                               /\ Complete(f)' => promised[f] <= n
    BY DEF FetchInv, DataRange
  <1>1. /\ index[f] \in Seq(Times) /\ index'[f] \in Seq(Times)
        /\ Len(index[f]) <= Len(index'[f])
        /\ \A i \in 1..Len(index[f]) : index'[f][i] = index[f][i]
        /\ records[f] \in Nat /\ records'[f] \in Nat /\ records[f] <= records'[f]
        /\ promised[f] \in 0..MaxRecords
    BY DEF IInv, Types, FilesGrow, MoreTypes
  <1>2. /\ promised[f] <= records[f] /\ Pieces(f, index[f], fetched[f])
        /\ f \notin finished =>
              \A k \in DOMAIN fetched[f] : fetched[f][k].i <= UpTo(f)
        /\ f \notin finished \cup failed =>
              Covers(DataRange, index[f], fetched[f], 0, UpTo(f))
    BY DEF FetchInv
  <1>3. promised[f] <= records'[f]
    BY <1>1, <1>2
  <1>4. Pieces(f, index'[f], fetched[f])
    BY <1>1, <1>2, PiecesGrow
  <1>5. f \notin finished \cup failed =>
            Covers(DataRange, index'[f], fetched[f], 0, UpTo(f))
    BY <1>1, <1>2, CoversGrow
  <1>6. ASSUME f \in finished \ failed
        PROVE  \E n \in 0..Len(index'[f]) :
                   /\ Covers(DataRange, index'[f], fetched[f], 0, n)
                   /\ Complete(f)' => promised[f] <= n
    <2>1. PICK n \in 0..Len(index[f]) :
              /\ Covers(DataRange, index[f], fetched[f], 0, n)
              /\ Complete(f) => promised[f] <= n
      BY <1>6 DEF FetchInv
    <2>2. n \in Nat /\ n <= Len(index[f]) /\ n \in 0..Len(index'[f])
      BY <1>1
    <2>3. Covers(DataRange, index'[f], fetched[f], 0, n)
      BY <1>1, <1>2, <2>1, <2>2, CoversGrow
    <2>4. promised[f] = 0 => promised[f] <= n
      BY <2>2
    <2>5. Complete(f)' => promised[f] <= n
      BY <2>1, <2>4, CompleteBefore
    <2>6. QED
      BY <2>2, <2>3, <2>5
  <1>7. QED
    BY <1>2, <1>3, <1>4, <1>5, <1>6

\* The pages stay within the file.
LEMMA UpToType ==
    ASSUME IInv, MoreTypes, PhaseInv, NEW f \in Files
    PROVE  UpTo(f) \in Nat /\ UpTo(f) <= Len(index[f])
  <1>1. position \in Nat /\ Len(index[f]) \in Nat
    BY ScannerAssumption DEF MoreTypes, IInv, Types
  <1>2. position > 0 => position <= Len(index[request.file])
    BY DEF PhaseInv
  <1>3. QED
    BY <1>1, <1>2 DEF UpTo

-----------------------------------------------------------------------------
(* The steps of the writer and fetching *)

LEMMA AnswerKept ==
    ASSUME IInv, IInv', FInv, FilesGrow,
           UNCHANGED <<plan, client, service, request, response, position, promised>>
    PROVE  AnswerInv'
  <1> USE DEF FInv
  <1> SUFFICES ASSUME client = "reading", service = "respond"
               PROVE  AnswerInv'
    BY DEF AnswerInv
  <1> DEFINE f == request.file
             data == response.data
  <1>1. /\ f \in Files /\ position \in Nat /\ promised[f] \in 0..MaxRecords
        /\ index[f] \in Seq(Times) /\ index'[f] \in Seq(Times)
        /\ Len(index[f]) <= Len(index'[f])
        /\ \A i \in 1..Len(index[f]) : index'[f][i] = index[f][i]
    <2>1. f \in Files
      BY DEF PhaseInv, MoreTypes
    <2>2. /\ index[f] \in Seq(Times) /\ index'[f] \in Seq(Times)
          /\ Len(index[f]) <= Len(index'[f])
          /\ \A i \in 1..Len(index[f]) : index'[f][i] = index[f][i]
      BY <2>1 DEF IInv, Types, FilesGrow
    <2>3. position \in Nat /\ promised[f] \in 0..MaxRecords
      BY <2>1, ScannerAssumption DEF MoreTypes
    <2>4. QED
      BY <2>1, <2>2, <2>3
  <1>2. /\ Pieces(f, index[f], data) /\ Len(data) <= Page
        /\ \A k \in DOMAIN data : position < data[k].i
        /\ response.errors => Len(data) < Page
    BY DEF AnswerInv
  <1>3. Pieces(f, index'[f], data)
    BY <1>1, <1>2, PiecesGrow
  <1>4. ASSUME ~response.errors
        PROVE  \E n \in position..Len(index'[f]) :
                   /\ Covers(DataRange, index'[f], data, position, n)
                   /\ Complete(f)' /\ Len(data) < Page => promised[f] <= n
    <2>1. PICK n \in position..Len(index[f]) :
              /\ Covers(DataRange, index[f], data, position, n)
              /\ Complete(f) /\ Len(data) < Page => promised[f] <= n
      BY <1>4 DEF AnswerInv
    <2>2. n \in Nat /\ n <= Len(index[f]) /\ n \in position..Len(index'[f])
      BY <1>1
    <2>3. Covers(DataRange, index'[f], data, position, n)
      BY <1>1, <1>2, <2>1, <2>2, CoversGrow
    <2>4. promised[f] = 0 => promised[f] <= n
      BY <2>2
    <2>5. Complete(f)' /\ Len(data) < Page => promised[f] <= n
      BY <1>1, <2>1, <2>4, CompleteBefore
    <2>6. QED
      BY <2>2, <2>3, <2>5
  <1>5. Page' = Page /\ DataRange' = DataRange /\ f' = f /\ data' = data
    BY DEF Page, DataRange
  <1> HIDE DEF f, data
  <1>6. QED
    BY <1>2, <1>3, <1>4, <1>5 DEF AnswerInv, f, data

LEMMA ReadingKept ==
    ASSUME IInv, IInv', FInv, FilesGrow,
           UNCHANGED <<plan, client, service, request, reader, response, promised>>
    PROVE  ReadingInv'
  <1> USE DEF FInv
  <1> SUFFICES ASSUME client = "reading"
               PROVE  ReadingInv'
    BY DEF ReadingInv
  <1> DEFINE f == request.file
  <1>1. f \in Files
    BY DEF PhaseInv, MoreTypes
  <1>2. /\ Looking => /\ reader.file = f /\ response = NoResponse
                      /\ Len(reader.times) <= Len(index[f])
                      /\ \A i \in 1..Len(reader.times) : reader.times[i] = index[f][i]
        /\ service = "data" => f \notin FixedFiles /\ reader.status = "kHealthy"
        /\ service \in {"data", "match"} /\ Whole(f) /\ f \notin LongNamed =>
               /\ promised[f] <= Len(reader.times)
               /\ reader.status = "kHealthy" \/ promised[f] = 0
        /\ service # "scan"
    BY DEF ReadingInv
  <1>3. /\ index[f] \in Seq(Times) /\ index'[f] \in Seq(Times)
        /\ Len(index[f]) <= Len(index'[f])
        /\ \A i \in 1..Len(index[f]) : index'[f][i] = index[f][i]
        /\ reader.times \in Seq(Times)
    BY <1>1 DEF IInv, Types, FilesGrow
  <1>4. Looking => /\ Len(reader.times) <= Len(index'[f])
                   /\ \A i \in 1..Len(reader.times) : reader.times[i] = index'[f][i]
    BY <1>2, <1>3
  <1>5. service \in {"data", "match"} /\ Whole(f)' /\ f \notin LongNamed =>
            /\ promised[f] <= Len(reader.times)
            /\ reader.status = "kHealthy" \/ promised[f] = 0
    BY <1>1, <1>2, <1>3, CompleteBefore
  <1>6. f' = f /\ (Looking' <=> Looking)
    BY DEF Looking
  <1>7. QED
    BY <1>2, <1>4, <1>5, <1>6 DEF ReadingInv

LEMMA PhaseKept ==
    ASSUME IInv, IInv', FInv, FilesGrow,
           UNCHANGED <<request, clientVars>>, service = "idle" <=> service' = "idle"
    PROVE  PhaseInv' /\ \A f \in Files : UpTo(f)' = UpTo(f)
  <1>1. UNCHANGED <<plan, client, listed, position, finished>>
    BY DEF clientVars
  <1>2. position > 0 => position <= Len(index'[request.file])
    <2> SUFFICES ASSUME position > 0
                 PROVE  position <= Len(index'[request.file])
      OBVIOUS
    <2>1. /\ position <= Len(index[request.file]) /\ request.file \in Files
          /\ position \in 0..MaxRecords
      BY DEF FInv, PhaseInv, MoreTypes
    <2>2. /\ Len(index[request.file]) <= Len(index'[request.file])
          /\ index[request.file] \in Seq(Times) /\ index'[request.file] \in Seq(Times)
      BY <2>1 DEF FilesGrow, IInv, Types
    <2>3. QED
      BY <2>1, <2>2, ScannerAssumption
  <1>3. PhaseInv'
    BY <1>1, <1>2 DEF FInv, PhaseInv, Listing, DataRange, Page
  <1>4. QED
    BY <1>1, <1>3 DEF UpTo

LEMMA WriterFetch ==
    ASSUME IInv, IInv', FInv, WriterStep, UNCHANGED clientVars
    PROVE  FInv'
  <1>1. UNCHANGED <<service, request, due, visited, reader, response, seen>>
    BY DEF WriterStep, readerVars, scan
  <1>2. UNCHANGED <<plan, client, listed, position, fetched, finished, failed, promised>>
    BY DEF clientVars
  <1>3. FilesGrow
    BY <1>2, WriterGrows
  <1>4. PhaseInv' /\ \A f \in Files : UpTo(f)' = UpTo(f)
    BY <1>1, <1>3, PhaseKept
  <1>5. MoreTypes'
    <2>1. changes' \in 0..MaxChanges
      BY ScannerAssumption DEF FInv, MoreTypes, WriterStep
    <2>2. QED
      BY <1>1, <1>2, <2>1 DEF FInv, MoreTypes
  <1>6. ReadingInv' /\ AnswerInv'
    BY <1>1, <1>2, <1>3, ReadingKept, AnswerKept
  <1>7. FetchInv'
    BY <1>2, <1>3, <1>4, FetchKept, UpToType DEF FInv
  <1>8. QED
    BY <1>4, <1>5, <1>6, <1>7 DEF FInv

-----------------------------------------------------------------------------
(* The service thread and fetching *)

\* What every step of the service thread leaves alone.
LEMMA ServiceKeeps ==
    ASSUME IInv, IInv', FInv, UNCHANGED <<storage, request, clientVars>>,
           service # "idle", service' # "idle"
    PROVE  /\ FilesGrow /\ PhaseInv' /\ FetchInv'
           /\ UNCHANGED <<plan, client, listed, position, fetched, finished, failed,
                          promised>>
           /\ client # "reading" => Listing
  <1>1. UNCHANGED <<plan, client, listed, position, fetched, finished, failed, promised>>
    BY DEF clientVars
  <1>2. FilesGrow
    BY SameFiles
  <1>3. PhaseInv' /\ \A f \in Files : UpTo(f)' = UpTo(f)
    BY <1>2, PhaseKept
  <1>4. FetchInv'
    BY <1>1, <1>2, <1>3, FetchKept, UpToType DEF FInv
  <1>5. client # "reading" => Listing
    BY DEF FInv, PhaseInv
  <1>6. QED
    BY <1>1, <1>2, <1>3, <1>4, <1>5

LEMMA ServiceTypes ==
    ASSUME FInv, UNCHANGED <<storage, request, clientVars>>,
           reader'.data \in 0..MaxRecords, response' \in Responses
    PROVE  MoreTypes'
  <1>1. UNCHANGED <<plan, client, listed, position, fetched, finished, failed, promised>>
    BY DEF clientVars
  <1>2. UNCHANGED changes
    BY DEF storage
  <1>3. QED
    BY <1>1, <1>2 DEF FInv, MoreTypes, Responses

\* While the streams are listed, nothing is read.
LEMMA ServiceListing ==
    ASSUME IInv, IInv', FInv, UNCHANGED <<storage, request, clientVars>>,
           service # "idle", service' # "idle", client # "reading",
           reader'.data \in 0..MaxRecords
    PROVE  FInv'
  <1>1. /\ PhaseInv' /\ FetchInv' /\ UNCHANGED client /\ Listing
    BY ServiceKeeps
  <1>2. response' \in Responses
    <2>1. Listing'
      BY <1>1 DEF Listing
    <2>2. response' \in [streams : SUBSET Stream, data : {<<>>}, errors : {FALSE}]
      BY <2>1 DEF IInv, ResponseInv
    <2>3. <<>> \in Seq(Piece)
      OBVIOUS
    <2>4. QED
      BY <2>2, <2>3, Zenon DEF Responses
  <1>3. MoreTypes'
    BY <1>2, ServiceTypes
  <1>4. ReadingInv' /\ AnswerInv'
    BY <1>1 DEF ReadingInv, AnswerInv
  <1>5. QED
    BY <1>1, <1>3, <1>4 DEF FInv

\* The file whose records are read.
LEMMA ReadingFile ==
    ASSUME IInv, FInv, client = "reading"
    PROVE  /\ request.file \in Files /\ ~Listing
           /\ index[request.file] \in Seq(Times)
           /\ Len(index[request.file]) <= MaxRecords
           /\ promised[request.file] \in Nat
           /\ promised[request.file] <= records[request.file]
           /\ records[request.file] \in Nat
           /\ records[request.file] <= Len(index[request.file])
           /\ there[request.file] \subseteq Parts(request.file)
           /\ position \in Nat /\ position <= Len(index[request.file])
           /\ Page \in Nat /\ Page > 0
           /\ response \in Responses
  <1>1. request.file \in Files /\ ~Listing
    BY ScannerAssumption DEF FInv, PhaseInv, MoreTypes, Listing
  <1>2. /\ index[request.file] \in Seq(Times)
        /\ Len(index[request.file]) <= MaxRecords
        /\ records[request.file] \in Nat
        /\ records[request.file] <= Len(index[request.file])
        /\ there[request.file] \subseteq Parts(request.file)
    BY <1>1 DEF IInv, Types, PairInv
  <1>3. /\ promised[request.file] \in Nat
        /\ promised[request.file] <= records[request.file]
    BY <1>1, ScannerAssumption DEF FInv, MoreTypes, FetchInv
  <1>4. position \in Nat /\ position <= Len(index[request.file])
    <2>1. UpTo(request.file) = position
      BY DEF UpTo
    <2>2. QED
      BY <1>1, <2>1, UpToType DEF FInv
  <1>5. Page \in Nat /\ Page > 0
    BY ScannerAssumption DEF Page
  <1>6. response \in Responses
    BY DEF FInv, MoreTypes, Responses
  <1>7. QED
    BY <1>1, <1>2, <1>3, <1>4, <1>5, <1>6

LEMMA ReadingResolve ==
    ASSUME IInv, IInv', FInv, Resolve, UNCHANGED clientVars, client = "reading"
    PROVE  FInv'
  <1> DEFINE f == request.file
  <1>1. UNCHANGED <<storage, request, due, reader, seen>> /\ service = "resolve"
    BY DEF Resolve
  <1>2. /\ f \in Files /\ ~Listing /\ Page \in Nat /\ Page > 0 /\ response \in Responses
    BY ReadingFile
  <1>3. \/ service' = "index" /\ UNCHANGED response
        \/ service' = "respond" /\ response' = [response EXCEPT !.errors = TRUE]
    BY <1>2 DEF Resolve
  <1>4. /\ reader.file = f /\ response = NoResponse
        /\ Len(reader.times) <= Len(index[f])
        /\ \A i \in 1..Len(reader.times) : reader.times[i] = index[f][i]
    BY <1>1 DEF FInv, ReadingInv, Looking
  <1>5. /\ PhaseInv' /\ FetchInv'
        /\ UNCHANGED <<plan, client, listed, position, fetched, finished, failed, promised>>
    BY <1>1, <1>3, ServiceKeeps
  <1>6. response' \in Responses
    BY <1>2, <1>3 DEF Responses
  <1>7. MoreTypes'
    BY <1>1, <1>6, ServiceTypes DEF FInv, MoreTypes
  <1>8. ReadingInv'
    BY <1>1, <1>3, <1>4 DEF ReadingInv, Looking, storage
  <1>9. AnswerInv'
    <2> SUFFICES ASSUME service' = "respond"
                 PROVE  AnswerInv'
      BY DEF AnswerInv
    <2>1. response'.data = <<>> /\ response'.errors = TRUE
      BY <1>3, <1>4 DEF NoResponse
    <2>2. Page' = Page
      BY <1>5 DEF Page
    <2>3. Pieces(f, index'[f], response'.data)
      BY <2>1 DEF Pieces
    <2>4. /\ Len(response'.data) <= Page /\ Len(response'.data) < Page
          /\ DOMAIN response'.data = {}
      BY <1>2, <2>1
    <2>5. QED
      BY <1>1, <2>1, <2>2, <2>3, <2>4 DEF AnswerInv
  <1>10. QED
    BY <1>5, <1>7, <1>8, <1>9 DEF FInv

\* The index is at least as long as when the first page was asked for.
LEMMA ReadingOpenIndex ==
    ASSUME IInv, IInv', FInv, OpenIndex, UNCHANGED clientVars, client = "reading"
    PROVE  FInv'
  <1> DEFINE f == request.file
  <1>1. UNCHANGED <<storage, request, due, visited, response, seen>> /\ service = "index"
    BY DEF OpenIndex, scan
  <1>2. /\ f \in Files /\ index[f] \in Seq(Times) /\ promised[f] \in Nat
        /\ promised[f] <= Len(index[f]) /\ there[f] \subseteq Parts(f)
        /\ response \in Responses
    <2>1. /\ f \in Files /\ index[f] \in Seq(Times) /\ promised[f] \in Nat
          /\ promised[f] <= records[f] /\ records[f] \in Nat /\ records[f] <= Len(index[f])
          /\ there[f] \subseteq Parts(f) /\ response \in Responses
      BY ReadingFile
    <2>2. QED
      BY <2>1
  <1>3. /\ reader.file = f /\ response = NoResponse
        /\ Len(reader.times) <= Len(index[f])
        /\ \A i \in 1..Len(reader.times) : reader.times[i] = index[f][i]
    BY <1>1 DEF FInv, ReadingInv, Looking
  <1>4. reader \in [file : Files \cup {"none"}, times : Seq(Times), data : Nat,
                    status : Status]
    BY DEF IInv, Types
  <1>5. \/ /\ Vanished(f) /\ service' = "match" /\ UNCHANGED reader
        \/ /\ index[f] = <<>> /\ service' = "match"
           /\ reader' = [reader EXCEPT !.status = "kEmpty"]
        \/ /\ service' = IF f \in FixedFiles THEN "match" ELSE "data"
           /\ reader' = [reader EXCEPT !.status = "kHealthy", !.times = index[f]]
    BY <1>3 DEF OpenIndex
  <1>6. /\ service' \in {"match", "data"} /\ service' # "idle"
        /\ reader'.file = f /\ reader'.data = reader.data
        /\ Len(reader'.times) <= Len(index[f])
        /\ \A i \in 1..Len(reader'.times) : reader'.times[i] = index[f][i]
    <2>1. /\ service' \in {"match", "data"} /\ service' # "idle"
          /\ reader'.file = f /\ reader'.data = reader.data
          /\ reader'.times \in {reader.times, index[f]}
      BY <1>3, <1>4, <1>5
    <2>2. QED
      BY <1>2, <1>3, <2>1
  <1>7. /\ PhaseInv' /\ FetchInv'
        /\ UNCHANGED <<plan, client, listed, position, fetched, finished, failed, promised>>
    BY <1>1, <1>6, ServiceKeeps
  <1>8. MoreTypes'
    BY <1>1, <1>2, <1>6, ServiceTypes DEF FInv, MoreTypes
  <1>9. Whole(f) => /\ promised[f] <= Len(reader'.times)
                    /\ reader'.status = "kHealthy" \/ promised[f] = 0
    <2> SUFFICES ASSUME Whole(f)
                 PROVE  /\ promised[f] <= Len(reader'.times)
                        /\ reader'.status = "kHealthy" \/ promised[f] = 0
      OBVIOUS
    <2>1. ~Vanished(f)
      BY DEF Whole, Vanished, Parts
    <2>2. CASE /\ index[f] = <<>> /\ reader' = [reader EXCEPT !.status = "kEmpty"]
      <3>1. promised[f] = 0 /\ reader'.times \in Seq(Times)
        BY <1>2, <1>4, <2>2
      <3>2. QED
        BY <3>1
    <2>3. CASE reader' = [reader EXCEPT !.status = "kHealthy", !.times = index[f]]
      BY <1>2, <1>4, <2>3
    <2>4. QED
      BY <1>5, <2>1, <2>2, <2>3
  <1>10. service' = "data" => f \notin FixedFiles /\ reader'.status = "kHealthy"
    BY <1>4, <1>5
  <1>11. Whole(f)' <=> Whole(f)
    BY <1>1 DEF Whole, Parts, storage
  <1>12. ReadingInv'
    BY <1>1, <1>3, <1>6, <1>7, <1>9, <1>10, <1>11 DEF ReadingInv, storage
  <1>13. AnswerInv'
    BY <1>6 DEF AnswerInv
  <1>14. QED
    BY <1>7, <1>8, <1>12, <1>13 DEF FInv

\* The data file is there as long as the pair is whole; a missing header means
\* that nothing was promised.
LEMMA ReadingOpenData ==
    ASSUME IInv, IInv', FInv, OpenData, UNCHANGED clientVars, client = "reading"
    PROVE  FInv'
  <1> DEFINE f == request.file
  <1>1. /\ UNCHANGED <<storage, request, due, visited, response, seen>>
        /\ service = "data" /\ service' = "match"
    BY DEF OpenData, scan
  <1>2. /\ f \in Files /\ promised[f] \in Nat /\ promised[f] <= records[f]
        /\ records[f] \in 0..MaxRecords /\ response \in Responses
    <2>1. /\ f \in Files /\ promised[f] \in Nat /\ promised[f] <= records[f]
          /\ records[f] \in Nat /\ records[f] <= Len(index[f])
          /\ index[f] \in Seq(Times) /\ Len(index[f]) <= MaxRecords
          /\ response \in Responses
      BY ReadingFile
    <2>2. QED
      BY <2>1, ScannerAssumption
  <1>3. /\ reader.file = f /\ response = NoResponse
        /\ Len(reader.times) <= Len(index[f])
        /\ \A i \in 1..Len(reader.times) : reader.times[i] = index[f][i]
        /\ f \notin FixedFiles
        /\ Whole(f) /\ f \notin LongNamed => promised[f] <= Len(reader.times)
    BY <1>1 DEF FInv, ReadingInv, Looking
  <1>4. reader \in [file : Files \cup {"none"}, times : Seq(Times), data : Nat,
                    status : Status]
    BY DEF IInv, Types
  <1>5. PICK s \in StatusOfPair(f) :
            reader' = [reader EXCEPT !.status = s, !.data = records[f]]
    BY <1>3 DEF OpenData
  <1>6. /\ reader'.file = f /\ reader'.data = records[f]
        /\ reader'.times = reader.times /\ reader'.status = s
    BY <1>3, <1>4, <1>5
  <1>7. /\ PhaseInv' /\ FetchInv'
        /\ UNCHANGED <<plan, client, listed, position, fetched, finished, failed, promised>>
    BY <1>1, ServiceKeeps
  <1>8. MoreTypes'
    BY <1>1, <1>2, <1>6, ServiceTypes
  <1>9. Whole(f) /\ f \notin LongNamed => s = "kHealthy" \/ promised[f] = 0
    <2>1. Whole(f) => "data" \in there[f]
      BY <1>3 DEF Whole, Parts
    <2>2. records[f] = 0 => promised[f] = 0
      BY <1>2
    <2>3. QED
      BY <1>5, <2>1, <2>2 DEF StatusOfPair
  <1>10. Whole(f)' <=> Whole(f)
    BY <1>1 DEF Whole, Parts, storage
  <1>11. ReadingInv'
    BY <1>1, <1>3, <1>6, <1>7, <1>9, <1>10 DEF ReadingInv, storage
  <1>12. AnswerInv'
    BY <1>1 DEF AnswerInv
  <1>13. QED
    BY <1>7, <1>8, <1>11, <1>12 DEF FInv

\* The reader when the loop of getData() may begin.
LEMMA AtMatch ==
    ASSUME IInv, FInv, client = "reading", service = "match"
    PROVE  /\ ReaderTypes /\ reader.file = request.file /\ response = NoResponse
           /\ records_cnt \in Nat /\ records_cnt <= Len(index[request.file])
           /\ \A i \in 1..records_cnt : /\ reader.times[i] = index[request.file][i]
                                        /\ reader.times[i] \in Times
           /\ reader.status = "kHealthy" => records_cnt >= 1
           /\ FirstIndex = position /\ request.max_count = Page
           /\ \A t : InRange(t) <=> DataRange[1] <= t /\ t <= DataRange[2]
           /\ Whole(request.file) /\ request.file \notin LongNamed =>
                  /\ promised[request.file] <= records_cnt
                  /\ reader.status = "kHealthy" \/ promised[request.file] = 0
  <1>1. /\ request.file \in Files /\ index[request.file] \in Seq(Times)
        /\ Len(index[request.file]) <= MaxRecords /\ position \in Nat
        /\ Page \in Nat
    BY ReadingFile
  <1>2. /\ reader.file = request.file /\ response = NoResponse
        /\ Len(reader.times) <= Len(index[request.file])
        /\ \A i \in 1..Len(reader.times) : reader.times[i] = index[request.file][i]
        /\ Whole(request.file) /\ request.file \notin LongNamed =>
               /\ promised[request.file] <= Len(reader.times)
               /\ reader.status = "kHealthy" \/ promised[request.file] = 0
    BY DEF FInv, ReadingInv, Looking
  <1>3. reader.times \in Seq(Times) /\ (reader.status = "kHealthy" => reader.times # <<>>)
    BY DEF IInv, Types, ReaderInv
  <1>4. /\ records_cnt \in 0..MaxRecords /\ records_cnt \in Nat
        /\ records_cnt = Len(reader.times)
        /\ reader.status = "kHealthy" => records_cnt >= 1
        /\ \A i \in 1..records_cnt : reader.times[i] \in Times
    BY <1>1, <1>2, <1>3, ScannerAssumption DEF records_cnt
  <1>5. /\ request.start_ns = DataRange[1] /\ request.end_ns = DataRange[2]
        /\ request.start_idx = position /\ request.max_count = Page
    BY DEF FInv, PhaseInv
  <1>6. reader.data \in Nat
    BY ScannerAssumption DEF FInv, MoreTypes
  <1>7. ReaderTypes
    BY <1>1, <1>2, <1>3, <1>4, <1>5, <1>6 DEF ReaderTypes
  <1>8. QED
    BY <1>2, <1>4, <1>5, <1>7 DEF FirstIndex, InRange

\* What is read when the range matches.
LEMMA MatchAnswers ==
    ASSUME IInv, FInv, client = "reading", service = "match"
    PROVE  LET f == request.file
               data == getData.data
           IN  /\ getData \in Responses
               /\ Pieces(f, index[f], data)
               /\ Len(data) <= Page
               /\ \A k \in DOMAIN data : position < data[k].i
               /\ getData.errors => Len(data) < Page
               /\ ~getData.errors =>
                      \E n \in position..Len(index[f]) :
                          /\ Covers(DataRange, index[f], data, position, n)
                          /\ Complete(f) /\ Len(data) < Page => promised[f] <= n
  <1> DEFINE f == request.file
             data == getData.data
             N == Len(Indices)
             last == position + N
  <1>1. /\ ReaderTypes /\ reader.file = f /\ response = NoResponse
        /\ records_cnt \in Nat /\ records_cnt <= Len(index[f])
        /\ \A i \in 1..records_cnt : reader.times[i] = index[f][i]
        /\ FirstIndex = position /\ request.max_count = Page
        /\ \A t : InRange(t) <=> DataRange[1] <= t /\ t <= DataRange[2]
        /\ Whole(f) /\ f \notin LongNamed => promised[f] <= records_cnt
    BY AtMatch
  <1>2. /\ f \in Files /\ position \in Nat /\ position <= Len(index[f])
        /\ Page \in Nat /\ Page > 0 /\ index[f] \in Seq(Times) /\ promised[f] \in Nat
    BY ReadingFile
  <1>3. DataLoop(N, getData)
    BY <1>1, <1>2, GetDataCorrect
  <1>4. /\ N \in Nat /\ records_cnt - position <= N
        /\ N > 0 => position + N = records_cnt
    BY <1>1, IndicesAre
  <1>5. /\ last \in Nat /\ records_cnt <= last /\ position <= last
        /\ last <= Len(index[f])
        /\ \A i \in Nat : position < i /\ i <= last => i \in 1..records_cnt
    BY <1>1, <1>2, <1>4
  <1>6. getData \in Responses /\ data \in Seq(Piece) /\ Len(data) \in Nat
        /\ DOMAIN data = 1..Len(data) /\ getData.errors \in BOOLEAN
    BY <1>3 DEF DataLoop, Responses
  <1> HIDE DEF N, last
  <1>7. /\ \A k \in DOMAIN data : 
               /\ data[k].file = f /\ data[k].i \in Nat
               /\ position < data[k].i /\ data[k].i <= last
               /\ data[k].time_ns = reader.times[data[k].i]
               /\ InRange(reader.times[data[k].i])
        /\ \A j, k \in DOMAIN data : j < k => data[j].i < data[k].i
        /\ Len(data) <= Page
        /\ getData.errors => Len(data) < Page
        /\ ~getData.errors => \A i \in (position + 1)..last :
               InRange(reader.times[i]) =>
                   \/ \E j \in DOMAIN data : data[j].i = i
                   \/ Len(data) = Page /\ \A j \in DOMAIN data : data[j].i < i
    <2>1. \A k \in DOMAIN data : data[k].i \in Nat
      BY <1>6, PieceAt
    <2>2. QED
      BY <1>1, <1>3, <2>1 DEF DataLoop, last
  <1> HIDE DEF data, f
  <1>8. \A k \in DOMAIN data : /\ data[k].i \in 1..records_cnt
                               /\ data[k].i \in 1..Len(index[f])
                               /\ reader.times[data[k].i] = index[f][data[k].i]
    <2>1. \A k \in DOMAIN data : data[k].i \in 1..records_cnt
      BY <1>5, <1>7
    <2>2. 1..records_cnt \subseteq 1..Len(index[f])
      BY <1>1, <1>2
    <2>3. QED
      BY <1>1, <2>1, <2>2
  <1>9. Pieces(f, index[f], data)
    BY <1>7, <1>8 DEF Pieces
  <1>10. ASSUME NEW n \in Nat, position <= n, n <= last, ~getData.errors,
                \A k \in DOMAIN data : data[k].i <= n,
                \A i \in (position + 1)..n : ~(Len(data) = Page /\ \A j \in DOMAIN data : data[j].i < i)
         PROVE  Covers(DataRange, index[f], data, position, n)
    <2>1. \A k \in DOMAIN data : /\ position < data[k].i /\ data[k].i <= n
                                 /\ DataRange[1] <= index[f][data[k].i]
                                 /\ index[f][data[k].i] <= DataRange[2]
      BY <1>1, <1>7, <1>8, <1>10
    <2>2. ASSUME NEW i \in (position + 1)..n, DataRange[1] <= index[f][i],
                 index[f][i] <= DataRange[2]
          PROVE  \E k \in DOMAIN data : data[k].i = i
      <3>1. i \in (position + 1)..last /\ i \in 1..records_cnt
        BY <1>2, <1>5, <1>10
      <3>2. InRange(reader.times[i])
        BY <1>1, <2>2, <3>1
      <3>3. QED
        BY <1>7, <1>10, <3>1, <3>2
    <2>3. QED
      BY <2>1, <2>2 DEF Covers
  <1>11. ASSUME ~getData.errors, Len(data) # Page
         PROVE  \E n \in position..Len(index[f]) :
                    /\ Covers(DataRange, index[f], data, position, n)
                    /\ Complete(f) /\ Len(data) < Page => promised[f] <= n
    <2>1. Covers(DataRange, index[f], data, position, last)
      BY <1>5, <1>7, <1>10, <1>11
    <2>2. Complete(f) => promised[f] <= last
      BY <1>1, <1>2, <1>5 DEF Complete
    <2>3. last \in position..Len(index[f])
      BY <1>2, <1>5
    <2>4. QED
      BY <2>1, <2>2, <2>3
  <1>12. ASSUME ~getData.errors, Len(data) = Page
         PROVE  \E n \in position..Len(index[f]) :
                    /\ Covers(DataRange, index[f], data, position, n)
                    /\ Complete(f) /\ Len(data) < Page => promised[f] <= n
    <2> DEFINE e == Len(data)
               n == data[e].i
    <2>1. e \in DOMAIN data /\ \A k \in DOMAIN data : k <= e
      BY <1>2, <1>6, <1>12 DEF data
    <2>2. n \in Nat /\ position < n /\ n <= last
      BY <1>7, <2>1
    <2>3. \A k \in DOMAIN data : data[k].i <= n
      <3>1. \A k \in DOMAIN data : k = e \/ k < e
        BY <1>6, <2>1 DEF data
      <3>2. QED
        BY <1>7, <2>1, <3>1
    <2> HIDE DEF n
    <2>4. \A i \in (position + 1)..n : ~(\A j \in DOMAIN data : data[j].i < i)
      <3>1. \A i \in (position + 1)..n : ~(n < i)
        BY <1>2, <2>2
      <3>2. QED
        BY <2>1, <3>1 DEF n
    <2>5. Covers(DataRange, index[f], data, position, n)
      BY <1>2, <1>10, <1>12, <2>2, <2>3, <2>4
    <2>6. n \in position..Len(index[f])
      BY <1>2, <1>5, <2>2
    <2>7. ~(Len(data) < Page)
      BY <1>2, <1>12
    <2>8. QED
      BY <2>5, <2>6, <2>7
  <1>13. QED
    BY <1>6, <1>7, <1>9, <1>11, <1>12 DEF data, f

\* A file that does not match has nothing to read in the range.
LEMMA NoMatchAnswers ==
    ASSUME IInv, FInv, client = "reading", service = "match",
           ~matchTime(request.start_ns, request.end_ns)
    PROVE  \E n \in position..Len(index[request.file]) :
               /\ Covers(DataRange, index[request.file], <<>>, position, n)
               /\ Complete(request.file) => promised[request.file] <= n
  <1> DEFINE f == request.file
  <1>1. /\ records_cnt \in Nat /\ records_cnt <= Len(index[f])
        /\ \A i \in 1..records_cnt : /\ reader.times[i] = index[f][i]
                                     /\ reader.times[i] \in Times
        /\ reader.status = "kHealthy" => records_cnt >= 1
        /\ Whole(f) /\ f \notin LongNamed =>
                  /\ promised[f] <= records_cnt
                  /\ reader.status = "kHealthy" \/ promised[f] = 0
    BY AtMatch
  <1>2. /\ f \in Files /\ position \in Nat /\ position <= Len(index[f])
        /\ index[f] \in Seq(Times) /\ promised[f] \in Nat
    BY ReadingFile
  <1>3. Covers(DataRange, index[f], <<>>, position, position)
    <2>1. (position + 1)..position = {} /\ DOMAIN <<>> = {}
      BY <1>2
    <2>2. QED
      BY <2>1 DEF Covers
  <1>4. position \in position..Len(index[f])
    BY <1>2
  <1>5. CASE ~Complete(f) \/ promised[f] = 0
    <2>1. promised[f] = 0 => promised[f] <= position
      BY <1>2
    <2>2. QED
      BY <1>3, <1>4, <1>5, <2>1
  <1>6. CASE Complete(f) /\ promised[f] # 0
    <2>1. reader.status = "kHealthy" /\ promised[f] <= records_cnt /\ records_cnt >= 1
      BY <1>1, <1>6 DEF Complete
    <2>2. /\ request.start_ns = DataRange[1] /\ request.end_ns = DataRange[2]
      BY DEF FInv, PhaseInv
    <2>3. ~(DataRange[1] <= DataRange[2] /\ start_ns <= DataRange[2] /\ end_ns >= DataRange[1])
      BY <2>1, <2>2 DEF matchTime
    <2>4. /\ start_ns \in Times /\ end_ns \in Times
          /\ start_ns = index[f][1] /\ end_ns = index[f][records_cnt]
      <3>1. 1 \in 1..records_cnt /\ records_cnt \in 1..records_cnt
        BY <1>1, <2>1
      <3>2. QED
        BY <1>1, <3>1 DEF start_ns, end_ns
    <2>5. start_ns \in 1..MaxTime /\ end_ns \in 1..MaxTime /\ MaxTime \in Nat
      BY <2>4, ScannerAssumption
    <2>6. plan.app = "range"
      <3>1. SUFFICES ASSUME plan.app # "range" PROVE FALSE
        OBVIOUS
      <3>2. DataRange = <<0, MaxTime>>
        BY <3>1 DEF DataRange
      <3>3. QED
        BY <2>3, <2>5, <3>2
    <2>7. Ordered(index[f]) /\ position = 0
      BY <1>2, <1>6, <2>6 DEF Complete, FInv, PhaseInv
    <2>8. DataRange[1] \in Nat /\ DataRange[2] \in Nat
      BY <2>6, ExportAssumption, ScannerAssumption DEF IInv, Types, DataRange
    <2>9. ASSUME NEW i \in 1..records_cnt
          PROVE  ~(DataRange[1] <= index[f][i] /\ index[f][i] <= DataRange[2])
      <3>1. /\ i \in DOMAIN index[f] /\ 1 \in DOMAIN index[f]
            /\ records_cnt \in DOMAIN index[f] /\ 1 <= i /\ i <= records_cnt
        BY <1>1, <1>2, <2>1
      <3>2. start_ns <= index[f][i] /\ index[f][i] <= end_ns
        BY <2>4, <2>7, <3>1 DEF Ordered
      <3>3. index[f][i] \in Nat
        <4>1. index[f][i] \in Times
          BY <1>1
        <4>2. Times \subseteq Nat
          BY ScannerAssumption
        <4>3. QED
          BY <4>1, <4>2
      <3>4. QED
        BY <2>3, <2>5, <2>8, <3>2, <3>3
    <2>10. Covers(DataRange, index[f], <<>>, position, records_cnt)
      <3>1. (position + 1)..records_cnt = 1..records_cnt /\ DOMAIN <<>> = {}
        BY <2>7
      <3>2. QED
        BY <2>9, <3>1 DEF Covers
    <2>11. records_cnt \in position..Len(index[f])
      BY <1>1, <2>7
    <2>12. QED
      BY <2>1, <2>10, <2>11
  <1>7. QED
    BY <1>5, <1>6

LEMMA ReadingMatch ==
    ASSUME IInv, IInv', FInv, Match, UNCHANGED clientVars, client = "reading"
    PROVE  FInv'
  <1> DEFINE f == request.file
  <1>1. /\ UNCHANGED <<storage, request, due, visited, reader, seen>>
        /\ service = "match"
    BY DEF Match, scan
  <1>2. /\ f \in Files /\ ~Listing /\ Page \in Nat /\ Page > 0 /\ response \in Responses
    BY ReadingFile
  <1>3. /\ service' = "respond"
        /\ response' = IF ~matchTime(request.start_ns, request.end_ns) THEN response
                       ELSE getData
    BY <1>2 DEF Match
  <1>4. response = NoResponse
    BY <1>1 DEF FInv, ReadingInv, Looking
  <1>5. /\ response' \in Responses
        /\ Pieces(f, index[f], response'.data)
        /\ Len(response'.data) <= Page
        /\ \A k \in DOMAIN response'.data : position < response'.data[k].i
        /\ response'.errors => Len(response'.data) < Page
        /\ ~response'.errors =>
               \E n \in position..Len(index[f]) :
                   /\ Covers(DataRange, index[f], response'.data, position, n)
                   /\ Complete(f) /\ Len(response'.data) < Page => promised[f] <= n
    <2>1. CASE matchTime(request.start_ns, request.end_ns)
      <3>1. response' = getData
        BY <1>3, <2>1
      <3>2. QED
        BY <1>1, <3>1, MatchAnswers
    <2>2. CASE ~matchTime(request.start_ns, request.end_ns)
      <3>1. response' \in Responses /\ response'.data = <<>> /\ response'.errors = FALSE
        BY <1>2, <1>3, <1>4, <2>2 DEF NoResponse
      <3>2. DOMAIN response'.data = {} /\ Len(response'.data) <= Page
        BY <1>2, <3>1
      <3>3. Pieces(f, index[f], response'.data)
        BY <3>2 DEF Pieces
      <3>4. \E n \in position..Len(index[f]) :
                /\ Covers(DataRange, index[f], response'.data, position, n)
                /\ Complete(f) => promised[f] <= n
        BY <1>1, <2>2, <3>1, NoMatchAnswers
      <3>5. QED
        BY <3>1, <3>2, <3>3, <3>4
    <2>3. QED
      BY <2>1, <2>2
  <1>6. /\ PhaseInv' /\ FetchInv'
        /\ UNCHANGED <<plan, client, listed, position, fetched, finished, failed, promised>>
    BY <1>1, <1>3, ServiceKeeps
  <1>7. MoreTypes'
    BY <1>1, <1>5, ServiceTypes DEF FInv, MoreTypes
  <1>8. ReadingInv'
    BY <1>3 DEF ReadingInv, Looking
  <1>9. AnswerInv'
    <2>1. /\ Page' = Page /\ DataRange' = DataRange /\ UNCHANGED <<index, there>>
      BY <1>1, <1>6 DEF Page, DataRange, storage
    <2>2. Complete(f)' <=> Complete(f)
      BY <1>1, <1>6, <2>1 DEF Complete, Whole, Parts
    <2>3. f' = f /\ position' = position /\ promised' = promised
      BY <1>1, <1>6
    <2> HIDE DEF f
    <2>4. QED
      BY <1>5, <2>1, <2>2, <2>3 DEF AnswerInv, f
  <1>10. QED
    BY <1>6, <1>7, <1>8, <1>9 DEF FInv

-----------------------------------------------------------------------------
(* The steps of the client and fetching *)

\* Where the client asks for a list or stores its records, nothing changes in
\* what it has fetched.
LEMMA SamePieces ==
    ASSUME IInv, IInv', FInv, UNCHANGED storage,
           UNCHANGED <<plan, fetched, finished, failed, promised>>,
           \A f \in Files : UpTo(f)' = UpTo(f)
    PROVE  FetchInv'
  <1>1. FilesGrow
    BY SameFiles
  <1>2. QED
    BY <1>1, FetchKept, UpToType DEF FInv

LEMMA FetchGetStreams ==
    ASSUME IInv, IInv', FInv, getStreams
    PROVE  FInv'
  <1>1. /\ UNCHANGED <<plan, listed, position, fetched, finished, failed, promised>>
        /\ client = "start" /\ client' = "listing"
    BY DEF getStreams
  <1>2. /\ UNCHANGED storage /\ service' = "scan" /\ UNCHANGED reader
        /\ response' = NoResponse
        /\ request' = [file |-> "none", start_ns |-> plan.start_ns, end_ns |-> plan.end_ns,
                       start_idx |-> 0, max_count |-> Unlimited]
    BY DEF getStreams, handleReadingRequest
  <1>3. listed = {} /\ finished = {} /\ position = 0
    <2>1. listed = {} /\ finished = {}
      BY <1>1 DEF FInv, PhaseInv
    <2>2. position \in Nat /\ ~(position > 0)
      BY <2>1, ScannerAssumption DEF FInv, PhaseInv, MoreTypes
    <2>3. QED
      BY <2>1, <2>2
  <1>4. MoreTypes'
    <2>1. NoResponse \in [streams : SUBSET Stream, data : Seq(Piece), errors : BOOLEAN]
      BY DEF NoResponse
    <2>2. UNCHANGED changes
      BY <1>2 DEF storage
    <2>3. /\ request'.start_idx \in Nat /\ request'.max_count \in 0..Unlimited
          /\ DOMAIN request' = {"file", "start_ns", "end_ns", "start_idx", "max_count"}
      BY <1>2, ScannerAssumption
    <2>4. QED
      BY <1>1, <1>2, <2>1, <2>2, <2>3 DEF FInv, MoreTypes
  <1>5. PhaseInv'
    BY <1>1, <1>2, <1>3 DEF PhaseInv, Listing
  <1>6. ReadingInv' /\ AnswerInv'
    BY <1>1 DEF ReadingInv, AnswerInv
  <1>7. \A f \in Files : UpTo(f)' = UpTo(f)
    BY <1>1, <1>3 DEF UpTo
  <1>8. FetchInv'
    BY <1>1, <1>2, <1>7, SamePieces
  <1>9. QED
    BY <1>4, <1>5, <1>6, <1>8 DEF FInv

LEMMA FetchListStep ==
    ASSUME IInv, IInv', FInv, ListStep
    PROVE  FInv'
  <1>1. /\ UNCHANGED <<plan, position, fetched, finished, failed, promised>>
        /\ client = "listing" /\ Respond
    BY DEF ListStep, NoRecords, TakeList, ListReceived
  <1>2. /\ UNCHANGED <<storage, request>> /\ service' = "idle" /\ response' = NoResponse
        /\ reader' = NoReader
    BY <1>1 DEF Respond
  <1>3. \/ client' = "stopped" /\ UNCHANGED listed
        \/ client' = "next" /\ listed' = {s.file : s \in response.streams}
    BY DEF ListStep, NoRecords, TakeList
  <1>4. listed = {} /\ finished = {} /\ position = 0
    <2>1. listed = {} /\ finished = {}
      BY <1>1 DEF FInv, PhaseInv
    <2>2. position \in Nat /\ ~(position > 0)
      BY <2>1, ScannerAssumption DEF FInv, PhaseInv, MoreTypes
    <2>3. QED
      BY <2>1, <2>2
  <1>5. listed' \subseteq Files
    <2>1. \A s \in Stream : s.file \in Files
      BY DEF Stream
    <2>2. response.streams \subseteq Stream
      BY DEF FInv, MoreTypes
    <2>3. QED
      BY <1>3, <1>4, <2>1, <2>2
  <1>6. MoreTypes'
    <2>1. NoResponse \in [streams : SUBSET Stream, data : Seq(Piece), errors : BOOLEAN]
      BY DEF NoResponse
    <2>2. reader'.data \in 0..MaxRecords
      BY <1>2, ScannerAssumption DEF NoReader
    <2>3. UNCHANGED changes
      BY <1>2 DEF storage
    <2>4. QED
      BY <1>1, <1>2, <1>3, <1>5, <2>1, <2>2, <2>3 DEF FInv, MoreTypes
  <1>7. PhaseInv'
    BY <1>1, <1>2, <1>3, <1>4 DEF PhaseInv
  <1>8. ReadingInv' /\ AnswerInv'
    BY <1>3 DEF ReadingInv, AnswerInv
  <1>9. \A f \in Files : UpTo(f)' = UpTo(f)
    BY <1>1, <1>2 DEF UpTo
  <1>10. FetchInv'
    BY <1>1, <1>2, <1>9, SamePieces
  <1>11. QED
    BY <1>6, <1>7, <1>8, <1>10 DEF FInv

\* What can be read when the first page is asked for is promised.
LEMMA FetchReadStream ==
    ASSUME IInv, IInv', FInv, NEW f \in Files, ReadStream(f)
    PROVE  FInv'
  <1>1. /\ UNCHANGED <<plan, listed, position, fetched, finished, failed>>
        /\ client = "next" /\ client' = "reading" /\ f \in listed
        /\ position > 0 => f = request.file
        /\ promised' = IF position = 0 THEN [promised EXCEPT ![f] = Readable(f)]
                                       ELSE promised
    BY DEF ReadStream
  <1>2. f # "none"
    BY ScannerAssumption
  <1>3. /\ UNCHANGED storage /\ service' = "resolve" /\ response' = NoResponse
        /\ reader' = [NoReader EXCEPT !.file = f]
        /\ request' = [file |-> f, start_ns |-> DataRange[1], end_ns |-> DataRange[2],
                       start_idx |-> position, max_count |-> Page]
    BY <1>2 DEF ReadStream, handleReadingRequest
  <1>4. /\ position \in 0..MaxRecords /\ Page \in 0..Unlimited
        /\ MaxRecords \in Nat
    BY ScannerAssumption DEF FInv, MoreTypes, Page
  <1>5. /\ records[f] \in Nat /\ records[f] <= Len(index[f]) /\ Len(index[f]) <= MaxRecords
        /\ index[f] \in Seq(Times)
    BY DEF IInv, Types, PairInv
  <1>6. Readable(f) \in 0..MaxRecords /\ Readable(f) <= records[f]
    BY <1>4, <1>5 DEF Readable
  <1>7. /\ promised' \in [Files -> 0..MaxRecords]
        /\ \A g \in Files : promised'[g] = promised[g] \/ (g = f /\ promised'[g] <= records[g])
    <2>1. promised \in [Files -> 0..MaxRecords]
      BY DEF FInv, MoreTypes
    <2>2. QED
      BY <1>1, <1>6, <2>1
  <1>8. MoreTypes'
    <2>1. NoResponse \in [streams : SUBSET Stream, data : Seq(Piece), errors : BOOLEAN]
      BY DEF NoResponse
    <2>2. UNCHANGED changes
      BY <1>3 DEF storage
    <2>3. /\ request'.start_idx \in Nat /\ request'.max_count \in 0..Unlimited
          /\ DOMAIN request' = {"file", "start_ns", "end_ns", "start_idx", "max_count"}
      BY <1>3, <1>4
    <2>4. reader'.data \in 0..MaxRecords
      BY <1>3, <1>4 DEF NoReader
    <2>5. QED
      BY <1>1, <1>3, <1>7, <2>1, <2>2, <2>3, <2>4 DEF FInv, MoreTypes
  <1>9. PhaseInv'
    <2>1. DataRange' = DataRange /\ Page' = Page /\ UNCHANGED index
      BY <1>1, <1>3 DEF DataRange, Page, storage
    <2>2. request'.file = f
      BY <1>3
    <2>3. /\ listed \cap finished = {}
          /\ position > 0 => plan.app = "pages" /\ position <= Len(index[f])
      BY <1>1 DEF FInv, PhaseInv
    <2>4. QED
      BY <1>1, <1>3, <2>1, <2>2, <2>3 DEF PhaseInv
  <1>10. ReadingInv'
    <2>1. reader' = [file |-> f, times |-> <<>>, data |-> 0, status |-> "kUnknown"]
      BY <1>3 DEF NoReader
    <2>2. UNCHANGED index /\ Len(<<>>) <= Len(index[f]) /\ 1..Len(<<>>) = {}
      BY <1>3, <1>5 DEF storage
    <2>3. QED
      BY <1>3, <2>1, <2>2 DEF ReadingInv, Looking
  <1>11. AnswerInv'
    BY <1>3 DEF AnswerInv
  <1>12. FetchInv'
    <2>1. UNCHANGED <<index, records, there>> /\ f \notin finished
      BY <1>1, <1>3 DEF storage, FInv, PhaseInv
    <2>2. DataRange' = DataRange
      BY <1>1 DEF DataRange
    <2>3. \A g \in Files : UpTo(g)' = UpTo(g)
      <3>1. position \in Nat /\ request'.file = f
        BY <1>3, <1>4
      <3>2. QED
        BY <1>1, <3>1 DEF UpTo
    <2>4. \A g \in Files : Complete(g)' <=> Complete(g)
      BY <1>1, <2>1 DEF Complete, Whole, Parts
    <2>5. ASSUME NEW g \in Files
          PROVE  /\ promised'[g] <= records[g]
                 /\ Pieces(g, index[g], fetched[g])
                 /\ g \notin finished =>
                        \A k \in DOMAIN fetched[g] : fetched[g][k].i <= UpTo(g)
                 /\ g \notin finished \cup failed =>
                        Covers(DataRange, index[g], fetched[g], 0, UpTo(g))
                 /\ g \in finished \ failed =>
                        \E n \in 0..Len(index[g]) :
                            /\ Covers(DataRange, index[g], fetched[g], 0, n)
                            /\ Complete(g) => promised'[g] <= n
      <3>1. g \in finished => promised'[g] = promised[g]
        BY <1>7, <2>1
      <3>2. QED
        BY <1>7, <3>1 DEF FInv, FetchInv
    <2>6. QED
      BY <1>1, <2>1, <2>2, <2>3, <2>4, <2>5 DEF FetchInv
  <1>13. QED
    BY <1>8, <1>9, <1>10, <1>11, <1>12 DEF FInv

LEMMA FetchSave ==
    ASSUME IInv, IInv', FInv, Save
    PROVE  FInv'
  <1>1. /\ UNCHANGED <<plan, listed, position, fetched, finished, failed, promised>>
        /\ client = "next" /\ client' = "done" /\ listed = {}
    BY DEF Save
  <1>2. UNCHANGED <<storage, service, request, reader, response>>
    BY DEF Save, scannerVars
  <1>3. MoreTypes'
    BY <1>1, <1>2 DEF FInv, MoreTypes, storage
  <1>4. PhaseInv'
    BY <1>1, <1>2 DEF FInv, PhaseInv, storage
  <1>5. ReadingInv' /\ AnswerInv'
    BY <1>1 DEF ReadingInv, AnswerInv
  <1>6. \A f \in Files : UpTo(f)' = UpTo(f)
    BY <1>1, <1>2 DEF UpTo
  <1>7. FetchInv'
    BY <1>1, <1>2, <1>6, SamePieces
  <1>8. QED
    BY <1>3, <1>4, <1>5, <1>7 DEF FInv

LEMMA FetchStutter ==
    ASSUME IInv, IInv', FInv, UNCHANGED vars
    PROVE  FInv'
  <1>1. /\ UNCHANGED <<storage, service, request, reader, response, clientVars>>
        /\ UNCHANGED <<plan, client, listed, position, fetched, finished, failed, promised>>
    BY DEF vars, scannerVars, clientVars
  <1>2. FilesGrow
    BY <1>1, SameFiles
  <1>3. PhaseInv' /\ \A f \in Files : UpTo(f)' = UpTo(f)
    BY <1>1, <1>2, PhaseKept
  <1>4. ReadingInv' /\ AnswerInv'
    BY <1>1, <1>2, ReadingKept, AnswerKept
  <1>5. FetchInv'
    BY <1>1, <1>3, SamePieces
  <1>6. MoreTypes'
    BY <1>1 DEF FInv, MoreTypes, storage
  <1>7. QED
    BY <1>3, <1>4, <1>5, <1>6 DEF FInv

\* Where the elements of s \o t are.
LEMMA Concatenated ==
    ASSUME NEW S, NEW s \in Seq(S), NEW t \in Seq(S)
    PROVE  /\ s \o t \in Seq(S) /\ Len(s \o t) = Len(s) + Len(t)
           /\ Len(s) \in Nat /\ Len(t) \in Nat
           /\ DOMAIN s = 1..Len(s) /\ DOMAIN t = 1..Len(t)
           /\ DOMAIN (s \o t) = 1..(Len(s) + Len(t))
           /\ \A k \in DOMAIN s : k \in DOMAIN (s \o t) /\ (s \o t)[k] = s[k]
           /\ \A k \in DOMAIN t : /\ Len(s) + k \in DOMAIN (s \o t)
                                  /\ (s \o t)[Len(s) + k] = t[k]
           /\ \A k \in DOMAIN (s \o t) :
                  k \in DOMAIN s \/ (k - Len(s) \in DOMAIN t /\ k = Len(s) + (k - Len(s)))
  OBVIOUS

\* The next page begins behind the last one.
LEMMA PiecesConcat ==
    ASSUME NEW f, NEW times, NEW s \in Seq(Piece), NEW t \in Seq(Piece),
           Pieces(f, times, s), Pieces(f, times, t), NEW m \in Nat,
           \A k \in DOMAIN s : s[k].i <= m, \A k \in DOMAIN t : m < t[k].i
    PROVE  Pieces(f, times, s \o t)
  <1> DEFINE u == s \o t
  <1>1. /\ Len(s) \in Nat /\ DOMAIN s = 1..Len(s) /\ DOMAIN t = 1..Len(t)
        /\ \A k \in DOMAIN s : u[k] = s[k]
        /\ \A k \in DOMAIN t : u[Len(s) + k] = t[k]
        /\ \A k \in DOMAIN u :
               k \in DOMAIN s \/ (k - Len(s) \in DOMAIN t /\ k = Len(s) + (k - Len(s)))
        /\ DOMAIN u = 1..(Len(s) + Len(t)) /\ Len(t) \in Nat
    BY Concatenated
  <1> HIDE DEF u
  <1>2. ASSUME NEW k \in DOMAIN u
        PROVE  /\ u[k].file = f /\ u[k].i \in 1..Len(times)
               /\ u[k].time_ns = times[u[k].i]
    <2>1. CASE k \in DOMAIN s
      BY <1>1, <2>1 DEF Pieces
    <2>2. CASE k - Len(s) \in DOMAIN t /\ k = Len(s) + (k - Len(s))
      <3>1. u[k] = t[k - Len(s)]
        BY <1>1, <2>2
      <3>2. QED
        BY <2>2, <3>1 DEF Pieces
    <2>3. QED
      BY <1>1, <2>1, <2>2
  <1>3. ASSUME NEW j \in DOMAIN u, NEW k \in DOMAIN u, j < k
        PROVE  u[j].i < u[k].i
    <2>1. CASE k \in DOMAIN s
      <3>1. j \in DOMAIN s
        BY <1>1, <1>3, <2>1
      <3>2. QED
        BY <1>1, <1>3, <2>1, <3>1 DEF Pieces
    <2>2. CASE j \notin DOMAIN s
      <3>1. /\ j - Len(s) \in DOMAIN t /\ k - Len(s) \in DOMAIN t
            /\ j - Len(s) < k - Len(s)
            /\ j = Len(s) + (j - Len(s)) /\ k = Len(s) + (k - Len(s))
        BY <1>1, <1>3, <2>2
      <3>2. u[j] = t[j - Len(s)] /\ u[k] = t[k - Len(s)]
        BY <1>1, <3>1
      <3>3. QED
        BY <3>1, <3>2 DEF Pieces
    <2>3. CASE j \in DOMAIN s /\ k \notin DOMAIN s
      <3>1. u[j] = s[j] /\ k - Len(s) \in DOMAIN t /\ u[k] = t[k - Len(s)]
        BY <1>1, <2>3
      <3>2. /\ s[j].i \in Nat /\ s[j].i <= m
            /\ t[k - Len(s)].i \in Nat /\ m < t[k - Len(s)].i
        BY <2>3, <3>1, PieceAt
      <3>3. QED
        BY <3>1, <3>2
    <2>4. QED
      BY <2>1, <2>2, <2>3
  <1>4. QED
    BY <1>2, <1>3 DEF Pieces, u

LEMMA CoversConcat ==
    ASSUME NEW range, NEW times, NEW s \in Seq(Piece), NEW t \in Seq(Piece),
           NEW m \in Nat, NEW n \in Nat, m <= n,
           Covers(range, times, s, 0, m), Covers(range, times, t, m, n)
    PROVE  Covers(range, times, s \o t, 0, n)
  <1> DEFINE u == s \o t
  <1>1. /\ \A k \in DOMAIN s : k \in DOMAIN u /\ u[k] = s[k]
        /\ \A k \in DOMAIN t : Len(s) + k \in DOMAIN u /\ u[Len(s) + k] = t[k]
        /\ \A k \in DOMAIN u :
               k \in DOMAIN s \/ (k - Len(s) \in DOMAIN t /\ k = Len(s) + (k - Len(s)))
    BY Concatenated
  <1> HIDE DEF u
  <1>2. ASSUME NEW k \in DOMAIN u
        PROVE  /\ 0 < u[k].i /\ u[k].i <= n
               /\ range[1] <= times[u[k].i] /\ times[u[k].i] <= range[2]
    <2>1. CASE k \in DOMAIN s
      <3>1. /\ s[k].i \in Nat /\ 0 < s[k].i /\ s[k].i <= m
            /\ range[1] <= times[s[k].i] /\ times[s[k].i] <= range[2]
        BY <2>1, PieceAt DEF Covers
      <3>2. u[k] = s[k] /\ s[k].i <= n
        BY <1>1, <2>1, <3>1
      <3>3. QED
        BY <3>1, <3>2
    <2>2. CASE k - Len(s) \in DOMAIN t /\ k = Len(s) + (k - Len(s))
      <3>1. u[k] = t[k - Len(s)]
        BY <1>1, <2>2
      <3>2. /\ t[k - Len(s)].i \in Nat /\ m < t[k - Len(s)].i /\ t[k - Len(s)].i <= n
            /\ range[1] <= times[t[k - Len(s)].i] /\ times[t[k - Len(s)].i] <= range[2]
        BY <2>2, PieceAt DEF Covers
      <3>3. 0 < t[k - Len(s)].i
        BY <3>2
      <3>4. QED
        BY <3>1, <3>2, <3>3
    <2>3. QED
      BY <1>1, <2>1, <2>2
  <1>3. ASSUME NEW i \in (0 + 1)..n, range[1] <= times[i], times[i] <= range[2]
        PROVE  \E k \in DOMAIN u : u[k].i = i
    <2>1. i \in (0 + 1)..m \/ i \in (m + 1)..n
      OBVIOUS
    <2>2. (\E k \in DOMAIN s : s[k].i = i) \/ (\E k \in DOMAIN t : t[k].i = i)
      BY <1>3, <2>1 DEF Covers
    <2>3. QED
      BY <1>1, <2>2
  <1>4. QED
    BY <1>2, <1>3 DEF Covers, u

\* There are no more records than the file has.
LEMMA PiecesFit ==
    ASSUME NEW f, NEW times \in Seq(Times), NEW data \in Seq(Piece), Pieces(f, times, data)
    PROVE  Len(data) <= Len(times)
  <1> DEFINE N == Len(data)
             g == [k \in 1..N |-> data[k].i]
  <1>1. N \in Nat /\ DOMAIN data = 1..N /\ Len(times) \in Nat
    OBVIOUS
  <1>2. IsFiniteSet(1..N) /\ Cardinality(1..N) = N
        /\ IsFiniteSet(1..Len(times)) /\ Cardinality(1..Len(times)) = Len(times)
    <2>1. \A n \in Nat : IsFiniteSet(1..n) /\ Cardinality(1..n) = n
      <3> TAKE n \in Nat
      <3>1. /\ IsFiniteSet(1..n)
            /\ Cardinality(1..n) = IF 1 > n THEN 0 ELSE n - 1 + 1
        BY FS_Interval
      <3>2. QED
        BY <3>1
    <2>2. QED
      BY <1>1, <2>1
  <1>3. g \in [1..N -> 1..Len(times)]
    BY <1>1 DEF Pieces
  <1>4. ASSUME NEW j \in 1..N, NEW k \in 1..N, j # k
        PROVE  g[j] # g[k]
    <2>1. g[j] \in Nat /\ g[k] \in Nat
      BY <1>3
    <2>2. j < k => g[j] < g[k]
      BY <1>1 DEF Pieces
    <2>3. k < j => g[k] < g[j]
      BY <1>1 DEF Pieces
    <2>4. j < k \/ k < j
      BY <1>4
    <2>5. QED
      BY <2>1, <2>2, <2>3, <2>4
  <1> HIDE DEF g, N
  <1>5. g \in Injection(1..N, 1..Len(times))
    BY <1>3, <1>4 DEF Injection, IsInjective
  <1>6. Cardinality(1..N) <= Cardinality(1..Len(times))
    BY <1>2, <1>5, FS_Injection
  <1>7. QED
    BY <1>2, <1>6 DEF N

\* What a received response adds to the records of its file.
LEMMA Received ==
    ASSUME IInv, FInv, client = "reading", service = "respond"
    PROVE  LET f == request.file
               data == response.data
               all == fetched[f] \o data
           IN  /\ f \in Files /\ f \in listed /\ f \notin finished
               /\ data \in Seq(Piece) /\ fetched[f] \in Seq(Piece)
               /\ all \in Seq(Piece) /\ Pieces(f, index[f], all)
               /\ \A k \in DOMAIN fetched[f] : fetched[f][k].i <= position
               /\ \A k \in DOMAIN data : position < data[k].i
               /\ Len(data) = Page =>
                      /\ plan.app = "pages" /\ Page = 1 /\ ~response.errors
                      /\ position + 1 <= Len(index[f])
                      /\ \A k \in DOMAIN all : all[k].i <= position + 1
                      /\ f \notin failed =>
                             Covers(DataRange, index[f], all, 0, position + 1)
               /\ Len(data) # Page /\ f \notin failed /\ ~response.errors =>
                      \E n \in 0..Len(index[f]) : /\ Covers(DataRange, index[f], all, 0, n)
                                                  /\ Complete(f) => promised[f] <= n
  <1> DEFINE f == request.file
             data == response.data
             all == fetched[f] \o data
  <1>1. /\ f \in Files /\ f \in listed /\ f \notin finished
    BY DEF FInv, PhaseInv, MoreTypes
  <1>2. data \in Seq(Piece) /\ fetched[f] \in Seq(Piece) /\ Len(data) \in Nat
    BY <1>1 DEF FInv, MoreTypes
  <1>3. /\ index[f] \in Seq(Times) /\ Len(index[f]) <= MaxRecords
        /\ position \in Nat /\ position <= Len(index[f])
        /\ Page \in Nat /\ Page > 0
    BY ReadingFile
  <1>4. /\ Pieces(f, index[f], data) /\ Len(data) <= Page
        /\ \A k \in DOMAIN data : position < data[k].i
        /\ response.errors => Len(data) < Page
        /\ ~response.errors =>
               \E n \in position..Len(index[f]) :
                   /\ Covers(DataRange, index[f], data, position, n)
                   /\ Complete(f) /\ Len(data) < Page => promised[f] <= n
    BY DEF FInv, AnswerInv
  <1>5. /\ Pieces(f, index[f], fetched[f])
        /\ \A k \in DOMAIN fetched[f] : fetched[f][k].i <= position
        /\ f \notin failed => Covers(DataRange, index[f], fetched[f], 0, position)
    BY <1>1 DEF FInv, FetchInv, UpTo
  <1>6. all \in Seq(Piece)
    BY <1>2, Concatenated
  <1>7. Pieces(f, index[f], all)
    BY <1>2, <1>3, <1>4, <1>5, PiecesConcat
  <1> HIDE DEF f, data, all
  <1>8. ASSUME Len(data) = Page
        PROVE  /\ plan.app = "pages" /\ Page = 1 /\ ~response.errors
               /\ position + 1 <= Len(index[f])
               /\ \A k \in DOMAIN all : all[k].i <= position + 1
               /\ f \notin failed => Covers(DataRange, index[f], all, 0, position + 1)
    <2>1. ~response.errors
      BY <1>2, <1>3, <1>4, <1>8
    <2>2. Len(data) <= MaxRecords
      <3>1. Len(data) <= Len(index[f])
        BY <1>2, <1>3, <1>4, PiecesFit
      <3>2. QED
        BY <1>2, <1>3, <3>1, ScannerAssumption
    <2>3. plan.app = "pages" /\ Page = 1
      <3>1. plan.app # "pages" => Page = Unlimited
        BY DEF Page
      <3>2. Page # Unlimited
        BY <1>2, <1>8, <2>2, ScannerAssumption
      <3>3. QED
        BY <3>1, <3>2 DEF Page
    <2>4. PICK n \in position..Len(index[f]) :
              Covers(DataRange, index[f], data, position, n)
      BY <1>4, <2>1
    <2>5. DataRange = <<0, MaxTime>>
      BY <2>3 DEF DataRange
    <2>6. n \in Nat /\ position <= n /\ n <= Len(index[f])
      BY <1>3
    <2>7. \A i \in (position + 1)..n : \E k \in DOMAIN data : data[k].i = i
      <3>1. \A i \in (position + 1)..n : index[f][i] \in Times
        BY <1>3, <2>6
      <3>2. \A t \in Times : 0 <= t /\ t <= MaxTime
        BY ScannerAssumption
      <3>3. \A i \in (position + 1)..n : DataRange[1] <= index[f][i] /\ index[f][i] <= DataRange[2]
        BY <2>5, <3>1, <3>2
      <3>4. QED
        BY <2>4, <3>3 DEF Covers
    <2>8. DOMAIN data = {1}
      BY <1>2, <1>8, <2>3
    <2>9. data[1].i \in Nat /\ position < data[1].i /\ data[1].i <= n
      BY <1>2, <2>4, <2>8, PieceAt DEF Covers
    <2>10. n = position + 1
      <3>1. \A i \in (position + 1)..n : data[1].i = i
        BY <2>7, <2>8
      <3>2. position + 1 \in (position + 1)..n /\ n \in (position + 1)..n
        BY <1>3, <2>6, <2>9
      <3>3. QED
        BY <3>1, <3>2
    <2>11. f \notin failed => Covers(DataRange, index[f], all, 0, position + 1)
      BY <1>2, <1>3, <1>5, <2>4, <2>6, <2>10, CoversConcat DEF all
    <2>12. \A k \in DOMAIN all : all[k].i <= position + 1
      <3>1. \A k \in DOMAIN fetched[f] : fetched[f][k].i <= position + 1
        <4>1. \A k \in DOMAIN fetched[f] : fetched[f][k].i \in Nat
          BY <1>2, PieceAt
        <4>2. QED
          BY <1>3, <1>5, <4>1
      <3>2. \A k \in DOMAIN data : data[k].i <= position + 1
        BY <2>8, <2>9, <2>10
      <3>3. \A k \in DOMAIN all : \/ k \in DOMAIN fetched[f] /\ all[k] = fetched[f][k]
                                  \/ \E l \in DOMAIN data : all[k] = data[l]
        BY <1>2, Concatenated DEF all
      <3>4. QED
        BY <3>1, <3>2, <3>3
    <2>13. QED
      BY <2>1, <2>3, <2>6, <2>10, <2>11, <2>12
  <1>9. ASSUME Len(data) # Page, f \notin failed, ~response.errors
        PROVE  \E n \in 0..Len(index[f]) : /\ Covers(DataRange, index[f], all, 0, n)
                                           /\ Complete(f) => promised[f] <= n
    <2>1. PICK n \in position..Len(index[f]) :
              /\ Covers(DataRange, index[f], data, position, n)
              /\ Complete(f) /\ Len(data) < Page => promised[f] <= n
      BY <1>4, <1>9
    <2>2. n \in Nat /\ position <= n /\ n \in 0..Len(index[f]) /\ Len(data) < Page
      BY <1>2, <1>3, <1>4, <1>9
    <2>3. Covers(DataRange, index[f], all, 0, n)
      BY <1>2, <1>3, <1>5, <1>9, <2>1, <2>2, CoversConcat DEF all
    <2>4. QED
      BY <2>1, <2>2, <2>3
  <1>10. QED
    BY <1>1, <1>2, <1>4, <1>5, <1>6, <1>7, <1>8, <1>9 DEF f, data, all

LEMMA FetchTakeData ==
    ASSUME IInv, IInv', FInv, TakeData
    PROVE  FInv'
  <1> DEFINE f == request.file
             data == response.data
             all == fetched[f] \o data
             full == Len(data) = Page
  <1>1. /\ client = "reading" /\ client' = "next" /\ UNCHANGED <<plan, promised>>
        /\ fetched' = [fetched EXCEPT ![f] = all]
        /\ failed' = IF response.errors THEN failed \cup {f} ELSE failed
        /\ position' = IF full THEN position + Page ELSE 0
        /\ listed' = IF full THEN listed ELSE listed \ {f}
        /\ finished' = IF full THEN finished ELSE finished \cup {f}
    BY DEF TakeData
  <1>2. /\ service = "respond" /\ service' = "idle" /\ UNCHANGED <<storage, request>>
        /\ response' = NoResponse /\ reader' = NoReader
    BY DEF TakeData, Respond
  <1>3. /\ f \in Files /\ f \in listed /\ f \notin finished
        /\ all \in Seq(Piece) /\ Pieces(f, index[f], all)
        /\ full => /\ plan.app = "pages" /\ Page = 1 /\ ~response.errors
                   /\ position + 1 <= Len(index[f])
                   /\ \A k \in DOMAIN all : all[k].i <= position + 1
                   /\ f \notin failed => Covers(DataRange, index[f], all, 0, position + 1)
        /\ ~full /\ f \notin failed /\ ~response.errors =>
               \E n \in 0..Len(index[f]) : /\ Covers(DataRange, index[f], all, 0, n)
                                           /\ Complete(f) => promised[f] <= n
    BY <1>1, <1>2, Received
  <1>4. /\ index[f] \in Seq(Times) /\ Len(index[f]) <= MaxRecords
        /\ position \in Nat /\ MaxRecords \in Nat
    BY <1>1, ReadingFile, ScannerAssumption
  <1>5. position' \in 0..MaxRecords
    <2>1. CASE full
      <3>1. position' = position + 1 /\ position + 1 <= Len(index[f]) /\ Len(index[f]) \in Nat
        BY <1>1, <1>3, <1>4, <2>1
      <3>2. QED
        BY <1>4, <3>1
    <2>2. CASE ~full
      BY <1>1, <1>4, <2>2
    <2>3. QED
      BY <2>1, <2>2
  <1>6. UNCHANGED <<changes, index, records, there>> /\ DataRange' = DataRange /\ f' = f
    <2>1. UNCHANGED <<changes, index, records, there>> /\ f' = f
      BY <1>2 DEF storage
    <2>2. DataRange' = DataRange
      BY <1>1 DEF DataRange
    <2>3. QED
      BY <2>1, <2>2
  <1> HIDE DEF f, data, full, all
  <1>7. /\ fetched' \in [Files -> Seq(Piece)] /\ fetched'[f] = all
        /\ \A g \in Files \ {f} : fetched'[g] = fetched[g]
    <2>1. fetched \in [Files -> Seq(Piece)]
      BY DEF FInv, MoreTypes
    <2>2. QED
      BY <1>1, <1>3, <2>1
  <1>8. MoreTypes'
    <2>1. NoResponse \in [streams : SUBSET Stream, data : Seq(Piece), errors : BOOLEAN]
      BY DEF NoResponse
    <2>2. reader'.data \in 0..MaxRecords
      BY <1>2, ScannerAssumption DEF NoReader
    <2>3. listed' \subseteq Files /\ finished' \subseteq Files /\ failed' \subseteq Files
      BY <1>1, <1>3 DEF FInv, MoreTypes
    <2>4. QED
      BY <1>1, <1>2, <1>5, <1>6, <1>7, <2>1, <2>2, <2>3 DEF FInv, MoreTypes
  <1>9. PhaseInv'
    <2>1. listed' \cap finished' = {}
      BY <1>1, <1>3 DEF FInv, PhaseInv
    <2>2. position' > 0 => /\ plan'.app = "pages" /\ request'.file \in listed'
                           /\ position' <= Len(index'[request'.file])
      <3>1. ASSUME full
            PROVE  /\ plan'.app = "pages" /\ f \in listed'
                   /\ position' <= Len(index[f])
        BY <1>1, <1>3, <3>1
      <3>2. ~full => ~(position' > 0)
        BY <1>1
      <3>3. QED
        BY <1>2, <1>6, <3>1, <3>2 DEF f
    <2>3. QED
      BY <1>1, <1>2, <2>1, <2>2 DEF PhaseInv
  <1>10. ReadingInv' /\ AnswerInv'
    BY <1>1 DEF ReadingInv, AnswerInv
  <1>11. FetchInv'
    <2>1. /\ \A g \in Files : g = f => UpTo(g)' = position'
          /\ \A g \in Files \ {f} : UpTo(g)' = 0 /\ UpTo(g) = 0
      BY <1>2 DEF UpTo, f
    <2>2. \A g \in Files : Complete(g)' <=> Complete(g)
      BY <1>1, <1>6 DEF Complete, Whole, Parts
    <2>3. ASSUME NEW g \in Files \ {f}
          PROVE  /\ promised[g] <= records[g]
                 /\ Pieces(g, index[g], fetched'[g])
                 /\ g \notin finished' =>
                        \A k \in DOMAIN fetched'[g] : fetched'[g][k].i <= UpTo(g)'
                 /\ g \notin finished' \cup failed' =>
                        Covers(DataRange, index[g], fetched'[g], 0, UpTo(g)')
                 /\ g \in finished' \ failed' =>
                        \E n \in 0..Len(index[g]) :
                            /\ Covers(DataRange, index[g], fetched'[g], 0, n)
                            /\ Complete(g) => promised[g] <= n
      <3>1. (g \in finished' <=> g \in finished) /\ (g \in failed' <=> g \in failed)
        BY <1>1
      <3>2. UpTo(g)' = UpTo(g) /\ fetched'[g] = fetched[g]
        BY <1>7, <2>1
      <3>3. QED
        BY <3>1, <3>2 DEF FInv, FetchInv
    <2>4. /\ promised[f] <= records[f]
          /\ Pieces(f, index[f], fetched'[f])
          /\ f \notin finished' =>
                 \A k \in DOMAIN fetched'[f] : fetched'[f][k].i <= position'
          /\ f \notin finished' \cup failed' =>
                 Covers(DataRange, index[f], fetched'[f], 0, position')
          /\ f \in finished' \ failed' =>
                 \E n \in 0..Len(index[f]) :
                     /\ Covers(DataRange, index[f], fetched'[f], 0, n)
                     /\ Complete(f) => promised[f] <= n
      <3>1. promised[f] <= records[f]
        BY <1>3 DEF FInv, FetchInv
      <3>2. CASE full
        <4>1. /\ position' = position + 1 /\ finished' = finished /\ failed' = failed
          BY <1>1, <1>3, <3>2
        <4>2. QED
          BY <1>3, <1>7, <2>1, <3>1, <3>2, <4>1
      <3>3. CASE ~full
        <4>1. /\ f \in finished'
              /\ f \notin failed' => f \notin failed /\ ~response.errors
          BY <1>1, <3>3
        <4>2. QED
          BY <1>3, <1>7, <3>1, <3>3, <4>1
      <3>4. QED
        BY <3>2, <3>3
    <2>5. ASSUME NEW g \in Files
          PROVE  /\ promised[g] <= records[g]
                 /\ Pieces(g, index[g], fetched'[g])
                 /\ g \notin finished' =>
                        \A k \in DOMAIN fetched'[g] : fetched'[g][k].i <= UpTo(g)'
                 /\ g \notin finished' \cup failed' =>
                        Covers(DataRange, index[g], fetched'[g], 0, UpTo(g)')
                 /\ g \in finished' \ failed' =>
                        \E n \in 0..Len(index[g]) :
                            /\ Covers(DataRange, index[g], fetched'[g], 0, n)
                            /\ Complete(g) => promised[g] <= n
      <3>1. CASE g = f
        BY <2>1, <2>4, <3>1
      <3>2. CASE g # f
        BY <2>3, <3>2
      <3>3. QED
        BY <3>1, <3>2
    <2>6. QED
      BY <1>1, <1>6, <2>2, <2>5 DEF FetchInv
  <1>12. QED
    BY <1>8, <1>9, <1>10, <1>11 DEF FInv

-----------------------------------------------------------------------------
(* The theorem about fetching *)

LEMMA FetchInit ==
    ASSUME Init
    PROVE  FInv
  <1>1. IInv
    BY InitInv
  <1> USE DEF Init, ScannerInit
  <1>2. MoreTypes
    BY ScannerAssumption DEF MoreTypes, NoReader, NoResponse
  <1>3. PhaseInv /\ ReadingInv /\ AnswerInv
    BY DEF PhaseInv, ReadingInv, AnswerInv
  <1>4. FetchInv
    <2> SUFFICES ASSUME NEW f \in Files
                 PROVE  /\ promised[f] <= records[f]
                        /\ Pieces(f, index[f], fetched[f])
                        /\ \A k \in DOMAIN fetched[f] : fetched[f][k].i <= UpTo(f)
                        /\ Covers(DataRange, index[f], fetched[f], 0, UpTo(f))
                        /\ f \notin finished
      BY DEF FetchInv
    <2>1. DOMAIN fetched[f] = {} /\ UpTo(f) = 0 /\ (0 + 1)..0 = {} /\ promised[f] = 0
      BY DEF UpTo
    <2>2. records[f] \in Nat
      BY <1>1 DEF IInv, Types
    <2>3. QED
      BY <2>1, <2>2 DEF Pieces, Covers
  <1>5. QED
    BY <1>2, <1>3, <1>4 DEF FInv

LEMMA FetchService ==
    ASSUME IInv, IInv', FInv, ServiceStep, UNCHANGED clientVars
    PROVE  FInv'
  <1>1. reader.data \in 0..MaxRecords
    BY DEF FInv, MoreTypes
  <1>2. service # "idle" /\ service' # "idle" /\ UNCHANGED <<storage, request>>
    BY DEF ServiceStep, Visit, EndScan, Resolve, OpenIndex, OpenData, Match
  <1>3. CASE client # "reading"
    <2>1. reader'.data \in 0..MaxRecords
      <3>1. reader \in [file : Files \cup {"none"}, times : Seq(Times), data : Nat,
                        status : Status]
        BY DEF IInv, Types
      <3>2. ASSUME NEW f \in Files, Visit(f)
            PROVE  reader'.data \in 0..MaxRecords
        BY <3>2, ScannerAssumption DEF Visit, NoReader
      <3>3. CASE EndScan \/ Resolve \/ Match
        BY <1>1, <3>3 DEF EndScan, Resolve, Match
      <3>4. CASE OpenIndex
        BY <1>1, <3>1, <3>4 DEF OpenIndex
      <3>5. CASE OpenData
        <4>1. reader.file \in Files
          BY <3>5 DEF OpenData, IInv, ReaderInv, Looking
        <4>2. records[reader.file] \in 0..MaxRecords
          <5>1. /\ records[reader.file] \in Nat /\ index[reader.file] \in Seq(Times)
                /\ records[reader.file] <= Len(index[reader.file])
                /\ Len(index[reader.file]) <= MaxRecords
            BY <4>1 DEF IInv, Types, PairInv
          <5>2. QED
            BY <5>1, ScannerAssumption
        <4>3. reader'.data = records[reader.file]
          BY <3>1, <3>5 DEF OpenData
        <4>4. QED
          BY <4>2, <4>3
      <3>6. QED
        BY <3>2, <3>3, <3>4, <3>5 DEF ServiceStep
    <2>2. QED
      BY <1>2, <1>3, <2>1, ServiceListing
  <1>4. CASE client = "reading"
    <2>1. service # "scan"
      BY <1>4 DEF FInv, ReadingInv
    <2>2. QED
      BY <1>4, <2>1, ReadingResolve, ReadingOpenIndex, ReadingOpenData, ReadingMatch
         DEF ServiceStep, Visit, EndScan
  <1>5. QED
    BY <1>3, <1>4

\* Every step keeps what is said of fetching.
THEOREM FetchInductive == IInv /\ FInv /\ [Next]_vars => FInv'
  <1> SUFFICES ASSUME IInv, FInv, [Next]_vars
               PROVE  FInv'
    OBVIOUS
  <1>1. IInv'
    BY Inductive
  <1>2. CASE WriterStep /\ UNCHANGED clientVars
    BY <1>1, <1>2, WriterFetch
  <1>3. CASE ServiceStep /\ UNCHANGED clientVars
    BY <1>1, <1>3, FetchService
  <1>4. CASE getStreams
    BY <1>1, <1>4, FetchGetStreams
  <1>5. CASE ListStep
    BY <1>1, <1>5, FetchListStep
  <1>6. CASE TakeData
    BY <1>1, <1>6, FetchTakeData
  <1>7. ASSUME NEW f \in Files, ReadStream(f)
        PROVE  FInv'
    BY <1>1, <1>7, FetchReadStream
  <1>8. CASE Save
    BY <1>1, <1>8, FetchSave
  <1>9. CASE UNCHANGED vars
    BY <1>1, <1>9, FetchStutter
  <1>10. QED
    BY <1>2, <1>3, <1>4, <1>5, <1>6, <1>7, <1>8, <1>9 DEF Next, ClientStep

\* What a client has fetched of a file without an error is everything it asked
\* for up to some record, in one response or over pages, while the file grows
\* and goes; as long as the file is there, at least what could be read when it
\* began.
THEOREM FetchCorrect == Spec => []FetchExact
  <1>1. IInv /\ FInv => FetchExact
    <2> SUFFICES ASSUME IInv, FInv, NEW f \in finished \ failed
                 PROVE  \E n \in 0..Len(index[f]) :
                            FetchedUpTo(f, n) /\ (Complete(f) => n >= promised[f])
      BY DEF FetchExact, Complete
    <2>1. f \in Files /\ fetched[f] \in Seq(Piece) /\ index[f] \in Seq(Times)
      BY DEF FInv, MoreTypes, IInv, Types
    <2>2. PICK n \in 0..Len(index[f]) : /\ Covers(DataRange, index[f], fetched[f], 0, n)
                                        /\ Complete(f) => promised[f] <= n
      BY <2>1 DEF FInv, FetchInv
    <2>3. Pieces(f, index[f], fetched[f])
      BY <2>1 DEF FInv, FetchInv
    <2>4. {fetched[f][k].i : k \in DOMAIN fetched[f]} = {i \in 1..n : Asked(index[f][i])}
      <3>1. ASSUME NEW k \in DOMAIN fetched[f]
            PROVE  fetched[f][k].i \in {i \in 1..n : Asked(index[f][i])}
        <4>1. /\ fetched[f][k].i \in Nat /\ 0 < fetched[f][k].i /\ fetched[f][k].i <= n
              /\ Asked(index[f][fetched[f][k].i])
          BY <2>1, <2>2, PieceAt DEF Covers, Asked
        <4>2. QED
          BY <4>1
      <3>2. ASSUME NEW i \in 1..n, Asked(index[f][i])
            PROVE  i \in {fetched[f][k].i : k \in DOMAIN fetched[f]}
        <4>1. i \in (0 + 1)..n
          OBVIOUS
        <4>2. \E k \in DOMAIN fetched[f] : fetched[f][k].i = i
          BY <2>2, <3>2, <4>1 DEF Covers, Asked
        <4>3. QED
          BY <4>2
      <3>3. QED
        BY <3>1, <3>2
    <2>5. FetchedUpTo(f, n)
      BY <2>3, <2>4 DEF FetchedUpTo, Pieces
    <2>6. promised[f] <= n => n >= promised[f]
      <3>1. promised[f] \in Int /\ n \in Int
        BY <2>1 DEF FInv, MoreTypes
      <3>2. QED
        BY <3>1
    <2>7. QED
      BY <2>2, <2>5, <2>6
  <1>2. Init => IInv /\ FInv
    BY InitInv, FetchInit
  <1>3. IInv /\ FInv /\ [Next]_vars => IInv' /\ FInv'
    BY Inductive, FetchInductive
  <1>4. QED
    BY <1>1, <1>2, <1>3, PTL DEF Spec

-----------------------------------------------------------------------------
(* The loop of addRecords() *)

\* A later time is not in an earlier second.
LEMMA SecondMonotone ==
    ASSUME NEW a \in Nat, NEW b \in Nat
    PROVE  Second(a) \in Nat /\ Second(b) \in Nat /\ (a <= b => Second(a) <= Second(b))
  BY CombinerAssumption DEF Second

LEMMA SecondOfRecord ==
    ASSUME NEW t \in Times
    PROVE  t \in Nat /\ Second(t) \in 0..LastSecond
  <1>1. t \in Nat
    BY ScannerAssumption
  <1>2. Second(t) \in Nat /\ Second(t) <= LastSecond /\ LastSecond \in Nat
    BY <1>1, SecondMonotone, ExportAssumption, CombinerAssumption
  <1>3. QED
    BY <1>1, <1>2

Runs == [seconds : Seconds, tmp : Seq(OutputPiece), last : 0..LastSecond,
         broken : BOOLEAN]

\* storeData() appends to one second, unless it is second 0.
LEMMA StoreAt ==
    ASSUME NEW all \in Seconds, NEW s \in 0..LastSecond, NEW data \in Seq(OutputPiece)
    PROVE  /\ storeData(all, s, data) \in Seconds
           /\ s # 0 => storeData(all, s, data)[s] = all[s] \o data
           /\ \A r \in 0..LastSecond : r # s \/ s = 0 => storeData(all, s, data)[r] = all[r]
  <1>1. all[s] \in Seq(OutputPiece) /\ all[s] \o data \in Seq(OutputPiece)
    BY DEF Seconds
  <1>2. CASE s = 0
    BY <1>2 DEF storeData
  <1>3. CASE data = <<>>
    <2>1. all[s] \o data = all[s]
      BY <1>1, <1>3
    <2>2. storeData(all, s, data) = all
      BY <1>3 DEF storeData
    <2>3. QED
      BY <2>1, <2>2
  <1>4. CASE s # 0 /\ data # <<>>
    <2>1. storeData(all, s, data) = [all EXCEPT ![s] = all[s] \o data]
      BY <1>4 DEF storeData
    <2>2. all \in [0..LastSecond -> Seq(OutputPiece)]
      BY DEF Seconds
    <2>3. storeData(all, s, data) \in Seconds
      BY <1>1, <2>1, <2>2 DEF Seconds
    <2>4. /\ storeData(all, s, data)[s] = all[s] \o data
          /\ \A r \in 0..LastSecond : r # s => storeData(all, s, data)[r] = all[r]
      BY <2>1, <2>2
    <2>5. QED
      BY <1>4, <2>3, <2>4
  <1>5. QED
    BY <1>2, <1>3, <1>4

LEMMA AppendBehind ==
    ASSUME NEW S, NEW a \in Seq(S), NEW b \in Seq(S), NEW x \in S
    PROVE  a \o Append(b, x) = Append(a \o b, x) /\ a \o <<x>> = Append(a, x)
  OBVIOUS

\* What the combiner would hold if the loop ended here.
Stored(run) == storeData(run.seconds, run.last, run.tmp)

LEMMA StoredType ==
    ASSUME NEW run \in Runs
    PROVE  Stored(run) \in Seconds
  BY StoreAt DEF Runs, Stored

\* One more record in what is stored is one more record of its second.
LEMMA StoreAppend ==
    ASSUME NEW all \in Seconds, NEW s \in 0..LastSecond, NEW data \in Seq(OutputPiece),
           NEW x \in OutputPiece
    PROVE  LET before == storeData(all, s, data)
               after == storeData(all, s, Append(data, x))
           IN  /\ s # 0 => after[s] = Append(before[s], x)
               /\ \A r \in 0..LastSecond : r # s \/ s = 0 => after[r] = before[r]
  <1>1. Append(data, x) \in Seq(OutputPiece) /\ all[s] \in Seq(OutputPiece)
    BY DEF Seconds
  <1>2. all[s] \o Append(data, x) = Append(all[s] \o data, x)
    <2>1. \A a \in Seq(OutputPiece) : a \o Append(data, x) = Append(a \o data, x)
      BY AppendBehind
    <2>2. QED
      BY <1>1, <2>1, Zenon
  <1> DEFINE before == storeData(all, s, data)
             after == storeData(all, s, Append(data, x))
  <1>3. /\ s # 0 => before[s] = all[s] \o data
        /\ \A r \in 0..LastSecond : r # s \/ s = 0 => before[r] = all[r]
    BY StoreAt
  <1>4. /\ s # 0 => after[s] = all[s] \o Append(data, x)
        /\ \A r \in 0..LastSecond : r # s \/ s = 0 => after[r] = all[r]
    BY <1>1, StoreAt
  <1> HIDE DEF before, after
  <1>5. /\ s # 0 => after[s] = Append(before[s], x)
        /\ \A r \in 0..LastSecond : r # s \/ s = 0 => after[r] = before[r]
    BY <1>2, <1>3, <1>4
  <1>6. QED
    BY <1>5 DEF before, after

LEMMA StoreOne ==
    ASSUME NEW all \in Seconds, NEW s \in 0..LastSecond, NEW x \in OutputPiece
    PROVE  LET after == storeData(all, s, <<x>>)
           IN  /\ s # 0 => after[s] = Append(all[s], x)
               /\ \A r \in 0..LastSecond : r # s \/ s = 0 => after[r] = all[r]
  <1>1. <<x>> \in Seq(OutputPiece) /\ all[s] \in Seq(OutputPiece)
    BY DEF Seconds
  <1>2. all[s] \o <<x>> = Append(all[s], x)
    BY <1>1, AppendBehind
  <1> DEFINE after == storeData(all, s, <<x>>)
  <1>3. /\ s # 0 => after[s] = all[s] \o <<x>>
        /\ \A r \in 0..LastSecond : r # s \/ s = 0 => after[r] = all[r]
    BY <1>1, StoreAt
  <1> HIDE DEF after
  <1>4. /\ s # 0 => after[s] = Append(all[s], x)
        /\ \A r \in 0..LastSecond : r # s \/ s = 0 => after[r] = all[r]
    BY <1>2, <1>3
  <1>5. QED
    BY <1>4 DEF after

\* A turn appends the record x to its second s, or does nothing.
Turned(c, run, new, s, x) ==
    LET taken == /\ ~run.broken /\ s # 0
                 /\ c.first_second_ <= s /\ s <= c.last_second_
    IN  /\ new \in Runs
        /\ run.broken => new.broken
        /\ new.broken => run.broken \/ s > c.last_second_
        /\ taken => Stored(new)[s] = Append(Stored(run)[s], x)
        /\ \A r \in 0..LastSecond : r # s \/ ~taken => Stored(new)[r] = Stored(run)[r]

LEMMA SameSecond ==
    ASSUME NEW c, NEW run \in Runs, NEW s \in 0..LastSecond, NEW x \in OutputPiece,
           ~run.broken, s = run.last, c.first_second_ <= s, s <= c.last_second_
    PROVE  Turned(c, run, [run EXCEPT !.tmp = Append(run.tmp, x)], s, x)
  <1> DEFINE all == run.seconds
             data == run.tmp
             new == [run EXCEPT !.tmp = Append(run.tmp, x)]
  <1>1. all \in Seconds /\ data \in Seq(OutputPiece)
    BY DEF Runs
  <1>2. Append(data, x) \in Seq(OutputPiece)
    BY <1>1
  <1>3. /\ new \in Runs /\ new.seconds = all /\ new.tmp = Append(data, x)
        /\ new.last = s /\ new.broken = run.broken
    BY <1>2 DEF Runs
  <1>4. Stored(new) = storeData(all, s, Append(data, x)) /\ Stored(run) = storeData(all, s, data)
    BY <1>3 DEF Stored
  <1> HIDE DEF all, data
  <1>5. /\ s # 0 => storeData(all, s, Append(data, x))[s] = Append(storeData(all, s, data)[s], x)
        /\ \A r \in 0..LastSecond : r # s \/ s = 0 =>
               storeData(all, s, Append(data, x))[r] = storeData(all, s, data)[r]
    BY <1>1, StoreAppend
  <1> HIDE DEF new
  <1>6. /\ s # 0 => Stored(new)[s] = Append(Stored(run)[s], x)
        /\ \A r \in 0..LastSecond : r # s \/ s = 0 => Stored(new)[r] = Stored(run)[r]
    BY <1>4, <1>5
  <1>7. Turned(c, run, new, s, x)
    BY <1>3, <1>6 DEF Turned
  <1>8. QED
    BY <1>7 DEF new

LEMMA NewSecond ==
    ASSUME NEW c, NEW run \in Runs, NEW s \in 0..LastSecond, NEW x \in OutputPiece,
           ~run.broken, c.first_second_ <= s, s <= c.last_second_
    PROVE  Turned(c, run, [run EXCEPT !.seconds = Stored(run), !.tmp = <<x>>, !.last = s], s, x)
  <1> DEFINE all == Stored(run)
             new == [run EXCEPT !.seconds = Stored(run), !.tmp = <<x>>, !.last = s]
  <1>1. all \in Seconds
    BY StoredType
  <1> HIDE DEF all
  <1>2. <<x>> \in Seq(OutputPiece)
    OBVIOUS
  <1>3. /\ new \in Runs /\ new.seconds = all /\ new.tmp = <<x>>
        /\ new.last = s /\ new.broken = run.broken
    BY <1>1, <1>2 DEF Runs, all
  <1>4. Stored(new) = storeData(all, s, <<x>>)
    BY <1>3 DEF Stored
  <1>5. /\ s # 0 => storeData(all, s, <<x>>)[s] = Append(all[s], x)
        /\ \A r \in 0..LastSecond : r # s \/ s = 0 => storeData(all, s, <<x>>)[r] = all[r]
    BY <1>1, StoreOne
  <1> HIDE DEF new
  <1>6. /\ s # 0 => Stored(new)[s] = Append(Stored(run)[s], x)
        /\ \A r \in 0..LastSecond : r # s \/ s = 0 => Stored(new)[r] = Stored(run)[r]
    BY <1>4, <1>5 DEF all
  <1>7. Turned(c, run, new, s, x)
    BY <1>3, <1>6 DEF Turned
  <1>8. QED
    BY <1>7 DEF new

LEMMA RecordTurn ==
    ASSUME NEW c, c.first_second_ \in Nat, c.last_second_ \in Nat, NEW stream_idx,
           NEW run \in Runs, NEW it, Second(it.time_ns) \in 0..LastSecond,
           Tagged(it, stream_idx) \in OutputPiece
    PROVE  Turned(c, run, addRecordsTurn(c, stream_idx, run, it),
                  Second(it.time_ns), Tagged(it, stream_idx))
  <1> DEFINE s == Second(it.time_ns)
             x == Tagged(it, stream_idx)
             new == addRecordsTurn(c, stream_idx, run, it)
  <1>1. s \in 0..LastSecond /\ x \in OutputPiece /\ LastSecond \in Nat
    BY CombinerAssumption
  <1>2. /\ run.broken \/ s < c.first_second_ => new = run
        /\ ~run.broken /\ ~(s < c.first_second_) /\ s > c.last_second_
               => new = [run EXCEPT !.broken = TRUE]
        /\ ~run.broken /\ ~(s < c.first_second_) /\ ~(s > c.last_second_) /\ s = run.last
               => new = [run EXCEPT !.tmp = Append(run.tmp, x)]
        /\ ~run.broken /\ ~(s < c.first_second_) /\ ~(s > c.last_second_) /\ s # run.last
               => new = [run EXCEPT !.seconds = Stored(run), !.tmp = <<x>>, !.last = s]
    BY DEF addRecordsTurn, Stored
  <1> HIDE DEF s, x, new
  <1>3. CASE run.broken \/ s < c.first_second_
    <2>1. new = run
      BY <1>2, <1>3
    <2>2. QED
      BY <1>1, <1>3, <2>1 DEF Turned, s, x, new
  <1>4. CASE ~run.broken /\ ~(s < c.first_second_) /\ s > c.last_second_
    <2>1. new = [run EXCEPT !.broken = TRUE]
      BY <1>2, <1>4
    <2>2. /\ new \in Runs /\ new.seconds = run.seconds /\ new.tmp = run.tmp
          /\ new.last = run.last
      BY <2>1 DEF Runs
    <2>3. Stored(new) = Stored(run)
      BY <2>2 DEF Stored
    <2>4. ~(s <= c.last_second_)
      BY <1>1, <1>4
    <2>5. Turned(c, run, new, s, x)
      BY <1>4, <2>2, <2>3, <2>4 DEF Turned
    <2>6. QED
      BY <2>5 DEF s, x, new
  <1>5. CASE ~run.broken /\ ~(s < c.first_second_) /\ ~(s > c.last_second_)
    <2>1. c.first_second_ <= s /\ s <= c.last_second_
      BY <1>1, <1>5
    <2>2. CASE s = run.last
      <3>1. Turned(c, run, [run EXCEPT !.tmp = Append(run.tmp, x)], s, x)
        BY <1>1, <1>5, <2>1, <2>2, SameSecond
      <3>2. QED
        BY <1>2, <1>5, <2>2, <3>1 DEF s, x, new
    <2>3. CASE s # run.last
      <3>1. Turned(c, run, [run EXCEPT !.seconds = Stored(run), !.tmp = <<x>>, !.last = s], s, x)
        BY <1>1, <1>5, <2>1, NewSecond
      <3>2. QED
        BY <1>2, <1>5, <2>3, <3>1 DEF s, x, new
    <2>4. QED
      BY <2>2, <2>3
  <1>6. QED
    BY <1>3, <1>4, <1>5

\* The combiner c takes records of second s.
Takes(c, s) == s # 0 /\ c.first_second_ <= s /\ s <= c.last_second_

\* After n records of data, new is what c had of second s and some of these.
Grown(c, idx, data, n, s, new) ==
    LET old == c.seconds_[s]
    IN  /\ Len(old) <= Len(new) /\ \A k \in 1..Len(old) : new[k] = old[k]
        /\ \A k \in (Len(old) + 1)..Len(new) :
               /\ Takes(c, s)
               /\ \E j \in 1..n : /\ new[k] = Tagged(data[j], idx)
                                  /\ Second(data[j].time_ns) = s
        /\ \A k, l \in (Len(old) + 1)..Len(new) : k < l => new[k].i < new[l].i

\* Record j is in new, or some record up to it is past the range.
Kept(c, idx, data, j, s, new) ==
    \/ \E k \in (Len(c.seconds_[s]) + 1)..Len(new) : new[k] = Tagged(data[j], idx)
    \/ \E b \in 1..j : Second(data[b].time_ns) > c.last_second_

RecordsDone(c, idx, data, n, run) ==
    /\ run \in Runs
    /\ \A s \in 0..LastSecond : Grown(c, idx, data, n, s, Stored(run)[s])
    /\ \A j \in 1..n : LET s == Second(data[j].time_ns)
                       IN  Takes(c, s) => Kept(c, idx, data, j, s, Stored(run)[s])
    /\ run.broken => \E b \in 1..n : Second(data[b].time_ns) > c.last_second_

LEMMA GrownOn ==
    ASSUME NEW c, NEW idx, NEW data, NEW n \in Nat, NEW s, NEW new,
           Grown(c, idx, data, n, s, new)
    PROVE  Grown(c, idx, data, n + 1, s, new)
  <1>1. 1..n \subseteq 1..(n + 1)
    OBVIOUS
  <1>2. QED
    BY <1>1 DEF Grown

LEMMA GrownByOne ==
    ASSUME NEW c, NEW idx, NEW data \in Seq(Piece), NEW n \in Nat, n + 1 \in 1..Len(data),
           \A j, k \in 1..Len(data) : j < k => data[j].i < data[k].i,
           NEW s, c.seconds_[s] \in Seq(OutputPiece), NEW new \in Seq(OutputPiece),
           Second(data[n + 1].time_ns) = s, Takes(c, s),
           Tagged(data[n + 1], idx) \in OutputPiece,
           Grown(c, idx, data, n, s, new)
    PROVE  Grown(c, idx, data, n + 1, s, Append(new, Tagged(data[n + 1], idx)))
  <1> DEFINE old == c.seconds_[s]
             x == Tagged(data[n + 1], idx)
             all == Append(new, x)
  <1>1. Grown(c, idx, data, n + 1, s, new)
    BY GrownOn
  <1>2. x.i = data[n + 1].i
    BY DEF Tagged
  <1>3. x \in OutputPiece /\ old \in Seq(OutputPiece)
    OBVIOUS
  <1>4. \A k \in (Len(old) + 1)..Len(new) : new[k].i < x.i
    <2> SUFFICES ASSUME NEW k \in (Len(old) + 1)..Len(new)
                 PROVE  new[k].i < x.i
      OBVIOUS
    <2>1. PICK j \in 1..n : new[k] = Tagged(data[j], idx)
      BY DEF Grown
    <2>2. new[k].i = data[j].i
      BY <2>1 DEF Tagged
    <2>3. j \in 1..Len(data) /\ j < n + 1
      OBVIOUS
    <2>4. QED
      BY <1>2, <2>2, <2>3
  <1> HIDE DEF x
  <1>5. /\ Len(all) = Len(new) + 1 /\ all[Len(new) + 1] = x /\ Len(new) \in Nat /\ Len(old) \in Nat
        /\ \A k \in 1..Len(new) : all[k] = new[k]
    BY <1>3
  <1> HIDE DEF all, old
  <1>6. /\ Len(old) <= Len(new) /\ \A k \in 1..Len(old) : new[k] = old[k]
        /\ \A k \in (Len(old) + 1)..Len(new) :
               \E j \in 1..(n + 1) : /\ new[k] = Tagged(data[j], idx)
                                     /\ Second(data[j].time_ns) = s
        /\ \A k, l \in (Len(old) + 1)..Len(new) : k < l => new[k].i < new[l].i
    BY <1>1 DEF Grown, old
  <1>7. \A k \in (Len(old) + 1)..Len(all) : k = Len(new) + 1 \/ k \in (Len(old) + 1)..Len(new)
    BY <1>5
  <1>8. \A k \in (Len(old) + 1)..Len(new) : all[k] = new[k] /\ k < Len(new) + 1
    BY <1>5
  <1>9. ASSUME NEW k \in (Len(old) + 1)..Len(all)
        PROVE  \E j \in 1..(n + 1) : /\ all[k] = Tagged(data[j], idx)
                                     /\ Second(data[j].time_ns) = s
    <2>1. CASE k \in (Len(old) + 1)..Len(new)
      BY <1>6, <1>8, <2>1
    <2>2. CASE k = Len(new) + 1
      <3>1. n + 1 \in 1..(n + 1)
        OBVIOUS
      <3>2. QED
        BY <1>5, <2>2, <3>1 DEF x
    <2>3. QED
      BY <1>7, <2>1, <2>2
  <1>10. ASSUME NEW k \in (Len(old) + 1)..Len(all), NEW l \in (Len(old) + 1)..Len(all), k < l
         PROVE  all[k].i < all[l].i
    <2>1. k \in (Len(old) + 1)..Len(new)
      BY <1>5, <1>10
    <2>2. QED
      BY <1>4, <1>5, <1>6, <1>7, <1>8, <1>10, <2>1
  <1>11. Len(old) <= Len(all) /\ \A k \in 1..Len(old) : all[k] = old[k]
    BY <1>5, <1>6
  <1>12. Grown(c, idx, data, n + 1, s, all)
    BY <1>9, <1>10, <1>11 DEF Grown, old
  <1>13. QED
    BY <1>12 DEF all, x

\* What was kept of an earlier record stays.
LEMMA KeptOn ==
    ASSUME NEW c, NEW idx, NEW data, NEW j, NEW s, NEW new \in Seq(OutputPiece),
           NEW x \in OutputPiece, c.seconds_[s] \in Seq(OutputPiece),
           Kept(c, idx, data, j, s, new)
    PROVE  Kept(c, idx, data, j, s, Append(new, x))
  <1>1. /\ Len(Append(new, x)) = Len(new) + 1 /\ Len(new) \in Nat
        /\ Len(c.seconds_[s]) \in Nat
        /\ \A k \in 1..Len(new) : Append(new, x)[k] = new[k]
    OBVIOUS
  <1>2. \A k \in (Len(c.seconds_[s]) + 1)..Len(new) :
            /\ k \in (Len(c.seconds_[s]) + 1)..Len(Append(new, x))
            /\ Append(new, x)[k] = new[k]
    BY <1>1
  <1>3. QED
    BY <1>2 DEF Kept

\* The last one is kept.
LEMMA KeptLast ==
    ASSUME NEW c, NEW idx, NEW data, NEW j, NEW s, NEW new \in Seq(OutputPiece),
           Tagged(data[j], idx) \in OutputPiece, c.seconds_[s] \in Seq(OutputPiece),
           Len(c.seconds_[s]) <= Len(new)
    PROVE  Kept(c, idx, data, j, s, Append(new, Tagged(data[j], idx)))
  <1> DEFINE x == Tagged(data[j], idx)
  <1>1. x \in OutputPiece
    OBVIOUS
  <1> HIDE DEF x
  <1>2. /\ Len(Append(new, x)) = Len(new) + 1 /\ Len(new) \in Nat
        /\ Len(c.seconds_[s]) \in Nat /\ Append(new, x)[Len(new) + 1] = x
    BY <1>1
  <1>3. Len(new) + 1 \in (Len(c.seconds_[s]) + 1)..Len(Append(new, x))
    BY <1>2
  <1>4. QED
    BY <1>2, <1>3 DEF Kept, x

\* What addRecords() is called with.
Addable(c, idx, data) ==
    /\ c.seconds_ \in Seconds /\ c.first_second_ \in Nat /\ c.last_second_ \in Nat
    /\ data \in Seq(Piece)
    /\ \A j, k \in 1..Len(data) : j < k => data[j].i < data[k].i
    /\ \A j \in 1..Len(data) : Tagged(data[j], idx) \in OutputPiece

LEMMA RecordsTurn ==
    ASSUME NEW c, NEW idx, NEW data, Addable(c, idx, data),
           NEW n \in Nat, n + 1 \in 1..Len(data), NEW run, RecordsDone(c, idx, data, n, run)
    PROVE  RecordsDone(c, idx, data, n + 1, addRecordsTurn(c, idx, run, data[n + 1]))
  <1> DEFINE s == Second(data[n + 1].time_ns)
             x == Tagged(data[n + 1], idx)
             new == addRecordsTurn(c, idx, run, data[n + 1])
             taken == ~run.broken /\ Takes(c, s)
  <1>1. /\ data \in Seq(Piece) /\ c.seconds_ \in Seconds
        /\ c.first_second_ \in Nat /\ c.last_second_ \in Nat
        /\ x \in OutputPiece
    BY DEF Addable
  <1>2. s \in 0..LastSecond
    <2>1. n + 1 \in DOMAIN data
      BY <1>1
    <2>2. data[n + 1].time_ns \in Times
      BY <1>1, <2>1, PieceAt
    <2>3. QED
      BY <2>2, SecondOfRecord
  <1>3. run \in Runs
    BY DEF RecordsDone
  <1>4. Turned(c, run, new, s, x)
    BY <1>1, <1>2, <1>3, RecordTurn
  <1>5. /\ new \in Runs
        /\ run.broken => new.broken
        /\ new.broken => run.broken \/ s > c.last_second_
        /\ taken => Stored(new)[s] = Append(Stored(run)[s], x)
        /\ \A r \in 0..LastSecond : r # s \/ ~taken => Stored(new)[r] = Stored(run)[r]
    BY <1>4 DEF Turned, Takes
  <1>6. /\ \A r \in 0..LastSecond : Stored(run)[r] \in Seq(OutputPiece)
        /\ \A r \in 0..LastSecond : c.seconds_[r] \in Seq(OutputPiece)
    <2>1. Stored(run) \in Seconds
      BY <1>3, StoredType
    <2>2. QED
      BY <1>1, <2>1 DEF Seconds
  <1> HIDE DEF new
  <1>7. ASSUME NEW r \in 0..LastSecond
        PROVE  Grown(c, idx, data, n + 1, r, Stored(new)[r])
    <2>1. Grown(c, idx, data, n, r, Stored(run)[r])
      BY DEF RecordsDone
    <2>2. CASE r # s \/ ~taken
      <3>1. Stored(new)[r] = Stored(run)[r]
        BY <1>5, <2>2
      <3>2. QED
        BY <2>1, <3>1, GrownOn
    <2>3. CASE r = s /\ taken
      <3>1. \A j, k \in 1..Len(data) : j < k => data[j].i < data[k].i
        BY DEF Addable
      <3>2. Stored(run)[s] \in Seq(OutputPiece) /\ c.seconds_[s] \in Seq(OutputPiece)
        BY <1>2, <1>6
      <3>3. Grown(c, idx, data, n, s, Stored(run)[s])
        BY <2>1, <2>3
      <3>4. Grown(c, idx, data, n + 1, s, Append(Stored(run)[s], x))
        BY <1>1, <2>3, <3>1, <3>2, <3>3, GrownByOne
      <3>5. QED
        BY <1>5, <2>3, <3>4
    <2>4. QED
      BY <2>2, <2>3
  <1>8. ASSUME NEW j \in 1..(n + 1), Takes(c, Second(data[j].time_ns))
        PROVE  LET r == Second(data[j].time_ns)
               IN  Kept(c, idx, data, j, r, Stored(new)[r])
    <2> DEFINE r == Second(data[j].time_ns)
    <2>1. r \in 0..LastSecond
      <3>1. j \in DOMAIN data
        BY <1>1
      <3>2. data[j].time_ns \in Times
        BY <1>1, <3>1, PieceAt
      <3>3. QED
        BY <3>2, SecondOfRecord
    <2>2. Stored(run)[r] \in Seq(OutputPiece) /\ c.seconds_[r] \in Seq(OutputPiece)
      BY <1>6, <2>1
    <2>3. CASE j \in 1..n
      <3>1. Kept(c, idx, data, j, r, Stored(run)[r])
        BY <1>8, <2>3 DEF RecordsDone
      <3> HIDE DEF r, x, s, taken
      <3>2. CASE r # s \/ ~taken
        <4>1. Stored(new)[r] = Stored(run)[r]
          BY <1>5, <2>1, <3>2
        <4>2. QED
          BY <3>1, <4>1 DEF r
      <3>3. CASE r = s /\ taken
        <4>1. Kept(c, idx, data, j, r, Append(Stored(run)[r], x))
          BY <1>1, <2>2, <3>1, KeptOn
        <4>2. QED
          BY <1>5, <3>3, <4>1 DEF r
      <3>4. QED
        BY <3>2, <3>3
    <2>4. CASE j = n + 1
      <3>1. r = s
        BY <2>4
      <3>2. CASE taken
        <4>1. Grown(c, idx, data, n, s, Stored(run)[s])
          BY <1>2 DEF RecordsDone
        <4>2. Len(c.seconds_[s]) <= Len(Stored(run)[s])
          BY <4>1 DEF Grown
        <4>3. Kept(c, idx, data, n + 1, s, Append(Stored(run)[s], x))
          BY <1>1, <2>2, <3>1, <4>2, KeptLast
        <4>4. QED
          BY <1>5, <2>4, <3>2, <4>3
      <3>3. CASE ~taken
        <4>1. run.broken
          BY <1>8, <3>1, <3>3
        <4>2. PICK b \in 1..n : Second(data[b].time_ns) > c.last_second_
          BY <4>1 DEF RecordsDone
        <4>3. b \in 1..j
          BY <2>4
        <4>4. QED
          BY <4>2, <4>3 DEF Kept
      <3>4. QED
        BY <3>2, <3>3
    <2>5. QED
      BY <2>3, <2>4
  <1>9. new.broken => \E b \in 1..(n + 1) : Second(data[b].time_ns) > c.last_second_
    <2>1. 1..n \subseteq 1..(n + 1) /\ n + 1 \in 1..(n + 1)
      OBVIOUS
    <2>2. QED
      BY <1>5, <2>1 DEF RecordsDone
  <1>10. QED
    BY <1>5, <1>7, <1>8, <1>9 DEF RecordsDone, new

NoRun(c) == [seconds |-> c.seconds_, tmp |-> <<>>, last |-> 0, broken |-> FALSE]

LEMMA RecordsBegin ==
    ASSUME NEW c, NEW idx, NEW data, Addable(c, idx, data)
    PROVE  RecordsDone(c, idx, data, 0, NoRun(c))
  <1> DEFINE run == NoRun(c)
  <1>1. c.seconds_ \in Seconds /\ LastSecond \in Nat /\ <<>> \in Seq(OutputPiece)
    BY CombinerAssumption DEF Addable
  <1>2. /\ run \in Runs /\ run.seconds = c.seconds_ /\ run.last = 0 /\ run.broken = FALSE
    BY <1>1 DEF Runs, NoRun
  <1>3. Stored(run) = c.seconds_
    BY <1>2 DEF Stored, storeData
  <1> HIDE DEF run
  <1>4. ASSUME NEW s \in 0..LastSecond
        PROVE  Grown(c, idx, data, 0, s, Stored(run)[s])
    <2>1. c.seconds_[s] \in Seq(OutputPiece)
      BY <1>1 DEF Seconds
    <2>2. Len(c.seconds_[s]) \in Nat
      BY <2>1
    <2>3. (Len(c.seconds_[s]) + 1)..Len(c.seconds_[s]) = {} /\ Len(c.seconds_[s]) <= Len(c.seconds_[s])
      BY <2>2
    <2>4. QED
      BY <1>3, <2>3 DEF Grown
  <1>5. 1..0 = {}
    OBVIOUS
  <1>6. QED
    BY <1>2, <1>4, <1>5 DEF RecordsDone, run

\* The loop over the records of a response.
TheIndex == IndexOf(Registered(combiner.indices_, ChannelOf[request.file]), ChannelOf[request.file])

OneRecord(run, it) == addRecordsTurn(combiner, TheIndex, run, it)

RecordLoop(n, run) == RecordsDone(combiner, TheIndex, response.data, n, run)

Adding == INSTANCE Folding WITH op <- OneRecord, base <- NoRun(combiner), seq <- response.data,
                           After <- RecordLoop

LEMMA AddRecordsFolds ==
    ASSUME response.data \in Seq(Piece)
    PROVE  addRecords(combiner, ChannelOf[request.file], response.data)
               = [combiner EXCEPT !.indices_ = Registered(combiner.indices_, ChannelOf[request.file]),
                                  !.seconds_ = Stored(Adding!Folded)]
  <1>1. DOMAIN response.data = 1..Len(response.data)
    OBVIOUS
  <1>2. FoldLeft(OneRecord, NoRun(combiner), response.data) = Adding!Folded
    BY <1>1 DEF FoldLeft, MapThenFoldSet, Adding!Folded, Adding!Iter, Adding!Largest, Adding!Others, Max
  <1>3. addRecords(combiner, ChannelOf[request.file], response.data)
            = LET end == FoldLeft(OneRecord, NoRun(combiner), response.data)
              IN  [combiner EXCEPT !.indices_ = Registered(combiner.indices_, ChannelOf[request.file]),
                                   !.seconds_ = LastRun(end.seconds, end)]
    BY DEF addRecords, OneRecord, TheIndex, NoRun
  <1>4. QED
    BY <1>2, <1>3 DEF LastRun, Stored

LEMMA AddRecordsCorrect ==
    ASSUME Addable(combiner, TheIndex, response.data)
    PROVE  RecordsDone(combiner, TheIndex, response.data, Len(response.data), Adding!Folded)
  <1>1. response.data \in Seq(Piece)
    BY DEF Addable
  <1>2. Len(response.data) \in Nat
    BY <1>1
  <1>3. RecordLoop(0, NoRun(combiner))
    BY RecordsBegin DEF RecordLoop
  <1>4. ASSUME NEW n \in 1..Len(response.data), NEW run, RecordLoop(n - 1, run)
        PROVE  RecordLoop(n, OneRecord(run, response.data[n]))
    <2>1. n - 1 \in Nat /\ (n - 1) + 1 = n
      BY <1>2
    <2>2. RecordsDone(combiner, TheIndex, response.data, (n - 1) + 1,
                      addRecordsTurn(combiner, TheIndex, run, response.data[(n - 1) + 1]))
      BY <1>4, <2>1, RecordsTurn DEF RecordLoop
    <2>3. QED
      BY <2>1, <2>2 DEF RecordLoop, OneRecord
  <1>5. RecordLoop(Len(response.data), Adding!Folded)
    BY <1>2, <1>3, <1>4, Adding!FoldInduction
  <1>6. QED
    BY <1>5 DEF RecordLoop

-----------------------------------------------------------------------------
(* The indices of the streams *)

LEMMA ChannelsFinite == IsFiniteSet(Channels) /\ Cardinality(Channels) \in Nat
  <1> DEFINE g == [f \in Files |-> ChannelOf[f]]
  <1>1. g \in Surjection(Files, Channels)
    BY DEF Surjection, Channels
  <1>2. IsFiniteSet(Files)
    BY ExportAssumption
  <1> HIDE DEF g
  <1>3. IsFiniteSet(Channels)
    BY <1>1, <1>2, FS_Surjection
  <1>4. QED
    BY <1>3, FS_CardinalityType

LEMMA DistinctLen ==
    ASSUME NEW inds, Distinct(inds)
    PROVE  Len(inds) \in Nat /\ Len(inds) <= Cardinality(Channels)
  <1>1. Len(inds) \in Nat /\ inds \in [1..Len(inds) -> Channels] /\ DOMAIN inds = 1..Len(inds)
    BY DEF Distinct
  <1>2. inds \in Injection(1..Len(inds), Channels)
    BY <1>1 DEF Distinct, Injection, IsInjective
  <1>3. Cardinality(1..Len(inds)) <= Cardinality(Channels)
    BY <1>2, ChannelsFinite, FS_Injection
  <1>4. Cardinality(1..Len(inds)) = Len(inds)
    BY <1>1, FS_Interval
  <1>5. QED
    BY <1>1, <1>3, <1>4

LEMMA RegisteredIndex ==
    ASSUME NEW inds, Distinct(inds), NEW ch \in Channels
    PROVE  LET new == Registered(inds, ch)
               idx == IndexOf(new, ch)
           IN  /\ Distinct(new)
               /\ \A i \in DOMAIN inds : i \in DOMAIN new /\ new[i] = inds[i]
               /\ idx \in 0..(Cardinality(Channels) - 1)
               /\ idx + 1 \in DOMAIN new /\ new[idx + 1] = ch
  <1> DEFINE new == Registered(inds, ch)
             at == CHOOSE i \in DOMAIN new : new[i] = ch
  <1>1. inds \in Seq(Channels) /\ \A i, j \in DOMAIN inds : inds[i] = inds[j] => i = j
    BY DEF Distinct
  <1>2. /\ Distinct(new)
        /\ \A i \in DOMAIN inds : i \in DOMAIN new /\ new[i] = inds[i]
        /\ \E i \in DOMAIN new : new[i] = ch
    <2>1. CASE ch \in ToSet(inds)
      BY <2>1 DEF Registered, ToSet
    <2>2. CASE ch \notin ToSet(inds)
      <3>1. new = Append(inds, ch) /\ \A i \in DOMAIN inds : inds[i] # ch
        BY <2>2 DEF Registered, ToSet
      <3>2. /\ Append(inds, ch) \in Seq(Channels)
            /\ DOMAIN Append(inds, ch) = 1..(Len(inds) + 1) /\ Len(inds) \in Nat
            /\ DOMAIN inds = 1..Len(inds)
            /\ \A i \in 1..Len(inds) : Append(inds, ch)[i] = inds[i]
            /\ Append(inds, ch)[Len(inds) + 1] = ch
        BY <1>1
      <3> HIDE DEF new
      <3>3. \A i \in DOMAIN new : i \in DOMAIN inds \/ i = Len(inds) + 1
        BY <3>1, <3>2
      <3>4. \A i \in DOMAIN inds : i \in DOMAIN new /\ new[i] = inds[i]
        BY <3>1, <3>2
      <3>5. Len(inds) + 1 \in DOMAIN new /\ new[Len(inds) + 1] = ch
        BY <3>1, <3>2
      <3>6. \A i, j \in DOMAIN new : new[i] = new[j] => i = j
        BY <1>1, <3>1, <3>3, <3>4, <3>5
      <3>7. QED
        BY <3>1, <3>2, <3>4, <3>5, <3>6 DEF Distinct
    <2>3. QED
      BY <2>1, <2>2
  <1> HIDE DEF new
  <1>3. at \in DOMAIN new /\ new[at] = ch
    BY <1>2
  <1>4. Len(new) \in Nat /\ Len(new) <= Cardinality(Channels) /\ DOMAIN new = 1..Len(new)
    BY <1>2, DistinctLen DEF Distinct
  <1>5. IndexOf(new, ch) = at - 1
    BY DEF IndexOf
  <1> HIDE DEF at
  <1>6. Cardinality(Channels) \in Nat
    BY ChannelsFinite
  <1>7. at - 1 \in 0..(Cardinality(Channels) - 1) /\ (at - 1) + 1 = at
    BY <1>3, <1>4, <1>6
  <1>8. QED
    BY <1>2, <1>3, <1>5, <1>7 DEF new

LEMMA TaggedPiece ==
    ASSUME NEW it \in Piece, NEW idx \in 0..(Cardinality(Channels) - 1)
    PROVE  /\ Tagged(it, idx) \in OutputPiece
           /\ Tagged(it, idx).file = it.file /\ Tagged(it, idx).i = it.i
           /\ Tagged(it, idx).time_ns = it.time_ns /\ Tagged(it, idx).stream_idx = idx
  BY DEF Piece, OutputPiece, Tagged

LEMMA OutputPieceAt ==
    ASSUME NEW data \in Seq(OutputPiece), NEW k \in DOMAIN data
    PROVE  /\ data[k].i \in Nat /\ data[k].i \in 1..MaxRecords
           /\ data[k].file \in Files /\ data[k].time_ns \in Times
  <1>1. data[k] \in OutputPiece
    OBVIOUS
  <1>2. /\ data[k].i \in 1..MaxRecords
        /\ data[k].file \in Files /\ data[k].time_ns \in Times
    BY <1>1 DEF OutputPiece
  <1>3. QED
    BY <1>2, ScannerAssumption

-----------------------------------------------------------------------------
(* What a response does to the combiner *)

LEMMA DueTakes ==
    ASSUME IInv, NEW c, CombinerTypes(c)
    PROVE  /\ c.first_second_ \in Nat /\ c.last_second_ \in Nat
           /\ \A s \in 0..LastSecond : Due(s) <=> Takes(c, s)
  <1>1. plan.start_ns \in Nat /\ plan.end_ns \in Nat
    BY ExportAssumption, ScannerAssumption DEF IInv, Types
  <1>2. Second(plan.start_ns) \in Nat /\ Second(plan.end_ns) \in Nat
    BY <1>1, SecondMonotone
  <1>3. /\ c.first_second_ = Second(plan.start_ns)
        /\ c.last_second_ = Second(plan.end_ns)
    BY DEF CombinerTypes
  <1>4. LastSecond \in Nat
    BY CombinerAssumption
  <1>5. QED
    BY <1>2, <1>3, <1>4 DEF Due, Takes

\* What addRecords() is given and what it does.
LEMMA Added ==
    ASSUME IInv, FInv, CombinerTypes(combiner), client = "reading", service = "respond"
    PROVE  LET c == addRecords(combiner, ChannelOf[request.file], response.data)
               old == combiner.seconds_
               data == response.data
               idx == TheIndex
           IN  /\ CombinerTypes(c)
               /\ \A i \in DOMAIN combiner.indices_ :
                      i \in DOMAIN c.indices_ /\ c.indices_[i] = combiner.indices_[i]
               /\ idx + 1 \in DOMAIN c.indices_
               /\ c.indices_[idx + 1] = ChannelOf[request.file]
               /\ idx \in 0..(Cardinality(Channels) - 1)
               /\ \A s \in 0..LastSecond :
                      Grown(combiner, idx, data, Len(data), s, c.seconds_[s])
               /\ \A j \in 1..Len(data) :
                      LET s == Second(data[j].time_ns)
                      IN  Takes(combiner, s) => Kept(combiner, idx, data, j, s, c.seconds_[s])
  <1> DEFINE ch == ChannelOf[request.file]
             data == response.data
             inds == combiner.indices_
             c == addRecords(combiner, ch, data)
             end == Adding!Folded
  <1>1. request.file \in Files /\ data \in Seq(Piece) /\ Pieces(request.file, index[request.file], data)
    BY Received DEF FInv, AnswerInv
  <1>2. ch \in Channels /\ Distinct(inds)
    BY <1>1 DEF Channels, CombinerTypes
  <1>3. /\ Distinct(Registered(inds, ch))
        /\ \A i \in DOMAIN inds :
               i \in DOMAIN Registered(inds, ch) /\ Registered(inds, ch)[i] = inds[i]
        /\ TheIndex \in 0..(Cardinality(Channels) - 1)
        /\ TheIndex + 1 \in DOMAIN Registered(inds, ch)
        /\ Registered(inds, ch)[TheIndex + 1] = ch
    BY <1>2, RegisteredIndex DEF TheIndex
  <1>4. Addable(combiner, TheIndex, data)
    <2>1. /\ combiner.seconds_ \in Seconds
          /\ combiner.first_second_ \in Nat /\ combiner.last_second_ \in Nat
      BY DueTakes DEF CombinerTypes
    <2>2. \A j, k \in 1..Len(data) : j < k => data[j].i < data[k].i
      BY <1>1 DEF Pieces
    <2>3. \A j \in 1..Len(data) : Tagged(data[j], TheIndex) \in OutputPiece
      <3>1. \A j \in 1..Len(data) : data[j] \in Piece
        BY <1>1
      <3>2. QED
        BY <1>3, <3>1, TaggedPiece
    <2>4. QED
      BY <1>1, <2>1, <2>2, <2>3 DEF Addable
  <1>5. RecordsDone(combiner, TheIndex, data, Len(data), end)
    BY <1>4, AddRecordsCorrect
  <1>6. c = [combiner EXCEPT !.indices_ = Registered(inds, ch), !.seconds_ = Stored(end)]
    BY <1>1, AddRecordsFolds
  <1>7. Stored(end) \in Seconds
    BY <1>5, StoredType DEF RecordsDone
  <1> HIDE DEF c, end, inds, ch, data
  <1>8. DOMAIN combiner = {"first_second_", "last_second_", "indices_", "seconds_"}
    BY DEF CombinerTypes
  <1>9. /\ DOMAIN c = {"first_second_", "last_second_", "indices_", "seconds_"}
        /\ c.first_second_ = combiner.first_second_ /\ c.last_second_ = combiner.last_second_
        /\ c.indices_ = Registered(inds, ch) /\ c.seconds_ = Stored(end)
    BY <1>6, <1>8
  <1>10. CombinerTypes(c)
    BY <1>3, <1>7, <1>9 DEF CombinerTypes
  <1>11. /\ \A s \in 0..LastSecond :
                Grown(combiner, TheIndex, data, Len(data), s, c.seconds_[s])
         /\ \A j \in 1..Len(data) :
                LET s == Second(data[j].time_ns)
                IN  Takes(combiner, s) => Kept(combiner, TheIndex, data, j, s, c.seconds_[s])
    BY <1>5, <1>9 DEF RecordsDone
  <1>12. QED
    BY <1>3, <1>9, <1>10, <1>11 DEF c, ch, data, inds

\* The combiner and the fetched records once the response has been taken.
NewComb == addRecords(combiner, ChannelOf[request.file], response.data)
NewGot == [fetched EXCEPT ![request.file] = fetched[request.file] \o response.data]

Taking == IInv /\ FInv /\ CombinerInv /\ client = "reading" /\ service = "respond"

LEMMA GotMore ==
    ASSUME Taking
    PROVE  LET f == request.file
           IN  /\ f \in Files /\ response.data \in Seq(Piece) /\ fetched[f] \in Seq(Piece)
               /\ NewGot \in [Files -> Seq(Piece)]
               /\ NewGot[f] = fetched[f] \o response.data
               /\ \A g \in Files \ {f} : NewGot[g] = fetched[g]
               /\ \A g \in Files : \A i \in DOMAIN fetched[g] :
                      i \in DOMAIN NewGot[g] /\ NewGot[g][i] = fetched[g][i]
               /\ \A k \in DOMAIN response.data :
                      /\ Len(fetched[f]) + k \in DOMAIN NewGot[f]
                      /\ NewGot[f][Len(fetched[f]) + k] = response.data[k]
  <1> DEFINE f == request.file
             got == fetched[f]
             data == response.data
             all == got \o data
  <1>1. f \in Files /\ response.data \in Seq(Piece) /\ fetched[f] \in Seq(Piece) /\ all \in Seq(Piece)
    BY Received DEF Taking
  <1>2. fetched \in [Files -> Seq(Piece)]
    BY DEF Taking, FInv, MoreTypes
  <1>3. NewGot = [fetched EXCEPT ![f] = all]
    BY DEF NewGot
  <1> HIDE DEF got, data
  <1>4. /\ \A k \in DOMAIN got : k \in DOMAIN all /\ all[k] = got[k]
        /\ \A k \in DOMAIN data : /\ Len(got) + k \in DOMAIN all
                                  /\ all[Len(got) + k] = data[k]
    <2>1. got \in Seq(Piece) /\ data \in Seq(Piece)
      BY <1>1 DEF got, data
    <2>2. QED
      BY <2>1, Concatenated
  <1> HIDE DEF all, f
  <1>5. /\ NewGot \in [Files -> Seq(Piece)] /\ NewGot[f] = all
        /\ \A g \in Files \ {f} : NewGot[g] = fetched[g]
    BY <1>1, <1>2, <1>3
  <1>6. ASSUME NEW g \in Files, NEW i \in DOMAIN fetched[g]
        PROVE  i \in DOMAIN NewGot[g] /\ NewGot[g][i] = fetched[g][i]
    <2>1. CASE g = f
      BY <1>4, <1>5, <2>1 DEF got
    <2>2. CASE g # f
      BY <1>5, <2>2
    <2>3. QED
      BY <2>1, <2>2
  <1>7. QED
    BY <1>1, <1>4, <1>5, <1>6 DEF all, f, got, data

\* Where a record of the new combiner comes from.
LEMMA Origin ==
    ASSUME Taking, NEW s \in 0..LastSecond, NEW k \in DOMAIN NewComb.seconds_[s]
    PROVE  LET old == combiner.seconds_[s]
               new == NewComb.seconds_[s]
           IN  /\ old \in Seq(OutputPiece) /\ new \in Seq(OutputPiece)
               /\ \/ k \in DOMAIN old /\ new[k] = old[k]
                  \/ /\ k \in (Len(old) + 1)..Len(new) /\ Due(s)
                     /\ \E j \in DOMAIN response.data :
                            /\ new[k].file = request.file
                            /\ new[k].i = response.data[j].i
                            /\ new[k].time_ns = response.data[j].time_ns
                            /\ new[k].stream_idx = TheIndex
                            /\ Second(response.data[j].time_ns) = s
                            /\ position < response.data[j].i
  <1> DEFINE old == combiner.seconds_[s]
             new == NewComb.seconds_[s]
             data == response.data
  <1>1. CombinerTypes(combiner) /\ CombinerTypes(NewComb)
    BY Added DEF Taking, CombinerInv, NewComb
  <1>2. old \in Seq(OutputPiece) /\ new \in Seq(OutputPiece)
    BY <1>1 DEF CombinerTypes, Seconds
  <1>3. /\ TheIndex \in 0..(Cardinality(Channels) - 1)
        /\ Grown(combiner, TheIndex, data, Len(data), s, new)
    BY <1>1, Added DEF Taking, NewComb
  <1>4. /\ data \in Seq(Piece)
        /\ \A j \in DOMAIN data : data[j].file = request.file /\ position < data[j].i
    BY Received DEF Taking, FInv, AnswerInv, Pieces
  <1>5. Len(old) \in Nat /\ Len(new) \in Nat /\ DOMAIN old = 1..Len(old) /\ DOMAIN new = 1..Len(new)
        /\ DOMAIN data = 1..Len(data)
    BY <1>2, <1>4
  <1>6. CASE k \in 1..Len(old)
    <2>1. new[k] = old[k]
      BY <1>3, <1>6 DEF Grown
    <2>2. QED
      BY <1>2, <1>5, <1>6, <2>1
  <1>7. CASE k \notin 1..Len(old)
    <2>1. k \in (Len(old) + 1)..Len(new)
      BY <1>5, <1>7
    <2>2. Takes(combiner, s)
      BY <1>3, <2>1 DEF Grown
    <2>3. PICK j \in 1..Len(data) : new[k] = Tagged(data[j], TheIndex) /\ Second(data[j].time_ns) = s
      BY <1>3, <2>1 DEF Grown
    <2>4. Due(s)
      BY <1>1, <2>2, DueTakes DEF Taking
    <2>5. data[j] \in Piece /\ j \in DOMAIN data
      BY <1>4, <1>5
    <2>6. /\ new[k].file = data[j].file /\ new[k].i = data[j].i
          /\ new[k].time_ns = data[j].time_ns /\ new[k].stream_idx = TheIndex
      BY <1>3, <2>3, <2>5, TaggedPiece
    <2>7. QED
      BY <1>2, <1>4, <2>1, <2>3, <2>4, <2>5, <2>6
  <1>8. QED
    BY <1>6, <1>7

LEMMA HeldMore ==
    ASSUME Taking
    PROVE  Held(NewComb, NewGot)
  <1> SUFFICES ASSUME NEW s \in 0..LastSecond, NEW k \in DOMAIN NewComb.seconds_[s]
               PROVE  LET p == NewComb.seconds_[s][k]
                      IN  /\ Second(p.time_ns) = s /\ Due(s)
                          /\ p.stream_idx + 1 \in DOMAIN NewComb.indices_
                          /\ NewComb.indices_[p.stream_idx + 1] = ChannelOf[p.file]
                          /\ \E i \in DOMAIN NewGot[p.file] :
                                 NewGot[p.file][i].i = p.i /\ NewGot[p.file][i].time_ns = p.time_ns
    BY DEF Held
  <1> DEFINE old == combiner.seconds_[s]
             new == NewComb.seconds_[s]
             data == response.data
  <1>1. /\ \A i \in DOMAIN combiner.indices_ :
               i \in DOMAIN NewComb.indices_ /\ NewComb.indices_[i] = combiner.indices_[i]
        /\ TheIndex + 1 \in DOMAIN NewComb.indices_
        /\ NewComb.indices_[TheIndex + 1] = ChannelOf[request.file]
    BY Added DEF Taking, CombinerInv, NewComb
  <1>2. CASE k \in DOMAIN old /\ new[k] = old[k]
    <2>1. /\ Second(old[k].time_ns) = s /\ Due(s)
          /\ old[k].stream_idx + 1 \in DOMAIN combiner.indices_
          /\ combiner.indices_[old[k].stream_idx + 1] = ChannelOf[old[k].file]
          /\ \E i \in DOMAIN fetched[old[k].file] :
                 /\ fetched[old[k].file][i].i = old[k].i
                 /\ fetched[old[k].file][i].time_ns = old[k].time_ns
      BY <1>2 DEF Taking, CombinerInv, Held
    <2>2. old[k].file \in Files
      BY <1>2, Origin, OutputPieceAt
    <2> HIDE DEF old, new
    <2>3. \E i \in DOMAIN NewGot[old[k].file] :
              /\ NewGot[old[k].file][i].i = old[k].i
              /\ NewGot[old[k].file][i].time_ns = old[k].time_ns
      BY <2>1, <2>2, GotMore
    <2>4. QED
      BY <1>1, <1>2, <2>1, <2>3 DEF new
  <1>3. CASE ~(k \in DOMAIN old /\ new[k] = old[k])
    <2>1. Due(s)
      BY <1>3, Origin
    <2>2. PICK j \in DOMAIN data :
              /\ new[k].file = request.file /\ new[k].i = data[j].i
              /\ new[k].time_ns = data[j].time_ns /\ new[k].stream_idx = TheIndex
              /\ Second(data[j].time_ns) = s
      BY <1>3, Origin
    <2> HIDE DEF new
    <2>3. /\ Len(fetched[request.file]) + j \in DOMAIN NewGot[request.file]
          /\ NewGot[request.file][Len(fetched[request.file]) + j] = data[j]
      BY GotMore
    <2>4. \E i \in DOMAIN NewGot[new[k].file] :
              /\ NewGot[new[k].file][i].i = new[k].i
              /\ NewGot[new[k].file][i].time_ns = new[k].time_ns
      BY <2>2, <2>3
    <2>5. QED
      BY <1>1, <2>1, <2>2, <2>4 DEF new
  <1>4. QED
    BY <1>2, <1>3

LEMMA InOrderMore ==
    ASSUME Taking
    PROVE  InOrder(NewComb.seconds_)
  <1> SUFFICES ASSUME NEW s \in 0..LastSecond, NEW j \in DOMAIN NewComb.seconds_[s],
                      NEW k \in DOMAIN NewComb.seconds_[s], j < k,
                      NewComb.seconds_[s][j].file = NewComb.seconds_[s][k].file
               PROVE  NewComb.seconds_[s][j].i < NewComb.seconds_[s][k].i
    BY DEF InOrder
  <1> DEFINE old == combiner.seconds_[s]
             new == NewComb.seconds_[s]
             data == response.data
  <1>1. /\ old \in Seq(OutputPiece) /\ new \in Seq(OutputPiece)
        /\ Len(old) \in Nat /\ Len(new) \in Nat
        /\ DOMAIN old = 1..Len(old) /\ DOMAIN new = 1..Len(new)
    <2>1. old \in Seq(OutputPiece) /\ new \in Seq(OutputPiece)
      BY Origin
    <2>2. QED
      BY <2>1
  <1>2. /\ \A a, b \in (Len(old) + 1)..Len(new) : a < b => new[a].i < new[b].i
        /\ \A a \in 1..Len(old) : new[a] = old[a]
    BY Added DEF Taking, CombinerInv, NewComb, Grown
  <1>3. j \in 1..Len(old) \/ j \in (Len(old) + 1)..Len(new)
    BY <1>1
  <1>4. k \in 1..Len(old) \/ k \in (Len(old) + 1)..Len(new)
    BY <1>1
  <1>5. CASE k \in 1..Len(old)
    <2>1. j \in 1..Len(old)
      BY <1>1, <1>5
    <2>2. old[j].file = old[k].file => old[j].i < old[k].i
      BY <1>1, <1>5, <2>1 DEF Taking, CombinerInv, InOrder
    <2>3. QED
      BY <1>2, <1>5, <2>1, <2>2
  <1>6. CASE j \in (Len(old) + 1)..Len(new)
    <2>1. k \in (Len(old) + 1)..Len(new)
      BY <1>1, <1>6
    <2>2. QED
      BY <1>2, <1>6, <2>1
  <1>7. CASE j \in 1..Len(old) /\ k \in (Len(old) + 1)..Len(new)
    <2>1. k \notin DOMAIN old
      BY <1>1, <1>7
    <2>2. PICK l \in DOMAIN data : /\ new[k].file = request.file /\ new[k].i = data[l].i
                                   /\ position < data[l].i
      BY <2>1, Origin
    <2>3. old[j].file = request.file
      BY <1>2, <1>7, <2>2
    <2>4. PICK i \in DOMAIN fetched[old[j].file] : fetched[old[j].file][i].i = old[j].i
      BY <1>1, <1>7 DEF Taking, CombinerInv, Held
    <2>5. fetched[request.file][i].i <= position
      BY <2>3, <2>4, Received DEF Taking
    <2>6. old[j].i <= position /\ old[j].i \in Nat /\ data[l].i \in Nat /\ position \in Nat
      <3>1. old[j].i \in Nat
        BY <1>1, <1>7, OutputPieceAt
      <3>2. data[l].i \in Nat
        BY GotMore, PieceAt
      <3>3. position \in Nat
        BY ScannerAssumption DEF Taking, FInv, MoreTypes
      <3>4. QED
        BY <2>3, <2>4, <2>5, <3>1, <3>2, <3>3
    <2>7. new[j].i = old[j].i
      BY <1>2, <1>7
    <2>8. QED
      BY <2>2, <2>6, <2>7
  <1>8. QED
    BY <1>3, <1>4, <1>5, <1>6, <1>7

\* A record stays in the combiner.
LEMMA CombinedOn ==
    ASSUME Taking, NEW f, NEW x, Second(x.time_ns) \in 0..LastSecond,
           Combined(combiner.seconds_, f, x)
    PROVE  Combined(NewComb.seconds_, f, x)
  <1> DEFINE s == Second(x.time_ns)
             old == combiner.seconds_[s]
             new == NewComb.seconds_[s]
  <1>1. CombinerTypes(combiner) /\ CombinerTypes(NewComb)
    BY Added DEF Taking, CombinerInv, NewComb
  <1>2. old \in Seq(OutputPiece) /\ new \in Seq(OutputPiece)
    BY <1>1 DEF CombinerTypes, Seconds
  <1>3. Len(old) <= Len(new) /\ \A k \in 1..Len(old) : new[k] = old[k]
    BY <1>1, Added DEF Taking, NewComb, Grown
  <1> HIDE DEF old, new, s
  <1>4. \A k \in DOMAIN old : k \in DOMAIN new /\ new[k] = old[k]
    BY <1>2, <1>3
  <1>5. Due(s) => \E k \in DOMAIN old : old[k].file = f /\ old[k].i = x.i
    BY DEF Combined, old, s
  <1>6. Due(s) => \E k \in DOMAIN new : new[k].file = f /\ new[k].i = x.i
    BY <1>4, <1>5
  <1>7. QED
    BY <1>6 DEF Combined, new, s

LEMMA NoneMissingMore ==
    ASSUME Taking
    PROVE  NoneMissing(NewComb.seconds_, NewGot)
  <1> SUFFICES ASSUME NEW f \in Files, Ordered(TimesOf(NewGot[f])),
                      NEW i \in DOMAIN NewGot[f]
               PROVE  Combined(NewComb.seconds_, f, NewGot[f][i])
    BY DEF NoneMissing
  <1> DEFINE got == fetched[f]
             all == NewGot[f]
             data == response.data
  <1>1. got \in Seq(Piece) /\ all \in Seq(Piece) /\ data \in Seq(Piece)
    <2>1. fetched \in [Files -> Seq(Piece)]
      BY DEF Taking, FInv, MoreTypes
    <2>2. QED
      BY <2>1, GotMore
  <1>2. \A k \in DOMAIN got : k \in DOMAIN all /\ all[k] = got[k]
    BY GotMore
  <1>3. \A a, b \in DOMAIN all : a <= b => all[a].time_ns <= all[b].time_ns
    BY DEF Ordered, TimesOf
  <1>4. Ordered(TimesOf(got))
    BY <1>2, <1>3 DEF Ordered, TimesOf
  <1>5. \A k \in DOMAIN all : Second(all[k].time_ns) \in 0..LastSecond
    BY <1>1, PieceAt, SecondOfRecord
  <1>6. CASE i \in DOMAIN got
    <2>1. Combined(combiner.seconds_, f, got[i])
      BY <1>4, <1>6 DEF Taking, CombinerInv, NoneMissing
    <2>2. all[i] = got[i] /\ Second(got[i].time_ns) \in 0..LastSecond
      BY <1>2, <1>5, <1>6
    <2>3. Combined(NewComb.seconds_, f, got[i])
      BY <2>1, <2>2, CombinedOn
    <2>4. QED
      BY <2>2, <2>3
  <1>7. CASE i \notin DOMAIN got
    <2>1. f = request.file
      <3>1. f # request.file => all = got
        BY GotMore
      <3>2. QED
        BY <1>7, <3>1
    <2>2. all = got \o data
      BY <2>1, GotMore
    <2> DEFINE j == i - Len(got)
    <2> HIDE DEF got, data, all
    <2>3. /\ j \in DOMAIN data /\ i = Len(got) + j /\ Len(got) \in Nat /\ DOMAIN data = 1..Len(data)
          /\ \A k \in DOMAIN data : Len(got) + k \in DOMAIN all /\ all[Len(got) + k] = data[k]
          /\ DOMAIN all = 1..(Len(got) + Len(data)) /\ Len(data) \in Nat
      <3>1. i \in DOMAIN all
        BY DEF all
      <3>2. QED
        BY <1>1, <1>7, <2>2, <3>1, Concatenated
    <2> HIDE DEF j
    <2> DEFINE s == Second(data[j].time_ns)
               new == NewComb.seconds_[s]
    <2>4. all[i] = data[j] /\ s \in 0..LastSecond
      BY <1>5, <2>3
    <2>5. CombinerTypes(combiner) /\ CombinerTypes(NewComb) /\ IInv
      BY Added DEF Taking, CombinerInv, NewComb
    <2>6. ASSUME Due(s)
          PROVE  \E k \in DOMAIN new : new[k].file = f /\ new[k].i = data[j].i
      <3>1. Takes(combiner, s)
        BY <2>4, <2>5, <2>6, DueTakes
      <3>2. Kept(combiner, TheIndex, data, j, s, new)
        BY <2>3, <2>5, <3>1, Added DEF Taking, NewComb, data
      <3>3. ~\E b \in 1..j : Second(data[b].time_ns) > combiner.last_second_
        <4> SUFFICES ASSUME NEW b \in 1..j
                     PROVE  ~(Second(data[b].time_ns) > combiner.last_second_)
          OBVIOUS
        <4>1. b \in DOMAIN data /\ Len(got) + b <= Len(got) + j
          BY <2>3
        <4>2. data[b].time_ns <= data[j].time_ns
          BY <1>3, <2>3, <4>1
        <4>3. data[b].time_ns \in Nat /\ data[j].time_ns \in Nat
          <5>1. data[b].time_ns \in Times /\ data[j].time_ns \in Times
            BY <1>1, <2>3, <4>1, PieceAt
          <5>2. QED
            BY <5>1, SecondOfRecord
        <4>4. Second(data[b].time_ns) <= s /\ Second(data[b].time_ns) \in Nat /\ s \in Nat
          BY <4>2, <4>3, SecondMonotone
        <4>5. s <= combiner.last_second_ /\ combiner.last_second_ \in Nat
          BY <2>5, <3>1, DueTakes DEF Takes
        <4> HIDE DEF s
        <4>6. QED
          BY <4>4, <4>5
      <3>4. PICK k \in (Len(combiner.seconds_[s]) + 1)..Len(new) :
                new[k] = Tagged(data[j], TheIndex)
        BY <3>2, <3>3 DEF Kept
      <3>5. combiner.seconds_[s] \in Seq(OutputPiece) /\ new \in Seq(OutputPiece)
        BY <2>4, <2>5 DEF CombinerTypes, Seconds
      <3>6. k \in DOMAIN new
        BY <3>5
      <3>7. data[j].file = f
        BY <2>1, <2>3 DEF Taking, FInv, AnswerInv, Pieces, data
      <3>8. new[k].file = data[j].file /\ new[k].i = data[j].i
        BY <3>4 DEF Tagged
      <3>9. QED
        BY <3>6, <3>7, <3>8
    <2>7. QED
      BY <2>4, <2>6 DEF Combined, all
  <1>8. QED
    BY <1>6, <1>7

-----------------------------------------------------------------------------
(* The loop of save() *)

OneSecond(out, s) == out \o combiner.seconds_[s]

AllSeconds == [s \in 1..LastSecond |-> s]

SaveLoop(n, out) == Written(combiner.seconds_, n, out)

Saving == INSTANCE Folding WITH op <- OneSecond, base <- <<>>, seq <- AllSeconds,
                           After <- SaveLoop

LEMMA WrittenMore ==
    ASSUME NEW secs \in Seconds, NEW n \in Nat, n + 1 <= LastSecond,
           NEW out, Written(secs, n, out)
    PROVE  Written(secs, n + 1, out \o secs[n + 1])
  <1> DEFINE new == secs[n + 1]
             all == out \o new
  <1>1. new \in Seq(OutputPiece) /\ out \in Seq(OutputPiece)
    BY CombinerAssumption DEF Seconds, Written
  <1> HIDE DEF new
  <1>2. /\ all \in Seq(OutputPiece) /\ Len(all) = Len(out) + Len(new)
        /\ Len(out) \in Nat /\ Len(new) \in Nat
        /\ DOMAIN out = 1..Len(out) /\ DOMAIN new = 1..Len(new)
        /\ DOMAIN all = 1..(Len(out) + Len(new))
        /\ \A k \in DOMAIN out : k \in DOMAIN all /\ all[k] = out[k]
        /\ \A k \in DOMAIN new : Len(out) + k \in DOMAIN all /\ all[Len(out) + k] = new[k]
        /\ \A k \in DOMAIN all :
               k \in DOMAIN out \/ (k - Len(out) \in DOMAIN new /\ k = Len(out) + (k - Len(out)))
    BY <1>1, Concatenated, Zenon
  <1> HIDE DEF all
  <1>3. /\ 1..n \subseteq 1..(n + 1) /\ n + 1 \in 1..(n + 1)
        /\ \A s \in 1..(n + 1) : s \in 1..n \/ s = n + 1
        /\ \A s \in 1..n : s < n + 1
    OBVIOUS
  <1>4. ASSUME NEW p \in DOMAIN all, p \notin DOMAIN out
        PROVE  p - Len(out) \in DOMAIN new /\ all[p] = new[p - Len(out)]
    BY <1>2, <1>4
  <1>5. ASSUME NEW p \in DOMAIN all
        PROVE  \E s \in 1..(n + 1) : \E k \in DOMAIN secs[s] : all[p] = secs[s][k]
    <2>1. CASE p \in DOMAIN out
      <3>1. \E s \in 1..n : \E k \in DOMAIN secs[s] : out[p] = secs[s][k]
        BY <2>1 DEF Written
      <3>2. all[p] = out[p]
        BY <1>2, <2>1
      <3>3. QED
        BY <1>3, <3>1, <3>2
    <2>2. CASE p \notin DOMAIN out
      BY <1>3, <1>4, <2>2 DEF new
    <2>3. QED
      BY <2>1, <2>2
  <1>6. ASSUME NEW s \in 1..(n + 1), NEW k \in DOMAIN secs[s]
        PROVE  \E p \in DOMAIN all : all[p] = secs[s][k]
    <2>1. CASE s \in 1..n
      <3>1. PICK p \in DOMAIN out : out[p] = secs[s][k]
        BY <2>1 DEF Written
      <3>2. QED
        BY <1>2, <3>1
    <2>2. CASE s = n + 1
      BY <1>2, <2>2 DEF new
    <2>3. QED
      BY <1>3, <2>1, <2>2
  <1>7. ASSUME NEW p \in DOMAIN all, NEW q \in DOMAIN all, p < q
        PROVE  \E s, t \in 1..(n + 1) : \E k \in DOMAIN secs[s], l \in DOMAIN secs[t] :
                   /\ all[p] = secs[s][k] /\ all[q] = secs[t][l]
                   /\ s < t \/ (s = t /\ k < l)
    <2>1. CASE q \in DOMAIN out
      <3>1. p \in DOMAIN out
        BY <1>2, <1>7, <2>1
      <3>2. PICK s \in 1..n, t \in 1..n : \E k \in DOMAIN secs[s], l \in DOMAIN secs[t] :
                /\ out[p] = secs[s][k] /\ out[q] = secs[t][l]
                /\ s < t \/ (s = t /\ k < l)
        BY <1>7, <2>1, <3>1 DEF Written
      <3>3. all[p] = out[p] /\ all[q] = out[q] /\ s \in 1..(n + 1) /\ t \in 1..(n + 1)
        BY <1>2, <1>3, <2>1, <3>1
      <3>4. QED
        BY <3>2, <3>3
    <2>2. CASE q \notin DOMAIN out /\ p \in DOMAIN out
      <3>1. PICK s \in 1..n : \E k \in DOMAIN secs[s] : out[p] = secs[s][k]
        BY <2>2 DEF Written
      <3>2. q - Len(out) \in DOMAIN secs[n + 1] /\ all[q] = secs[n + 1][q - Len(out)]
        BY <1>4, <2>2 DEF new
      <3>3. all[p] = out[p] /\ s \in 1..(n + 1) /\ s < n + 1
        BY <1>2, <1>3, <2>2
      <3>4. QED
        BY <1>3, <3>1, <3>2, <3>3
    <2>3. CASE q \notin DOMAIN out /\ p \notin DOMAIN out
      <3>1. q - Len(out) \in DOMAIN secs[n + 1] /\ all[q] = secs[n + 1][q - Len(out)]
        BY <1>4, <2>3 DEF new
      <3>2. p - Len(out) \in DOMAIN secs[n + 1] /\ all[p] = secs[n + 1][p - Len(out)]
        BY <1>4, <2>3 DEF new
      <3>3. p - Len(out) < q - Len(out)
        BY <1>2, <1>4, <1>7, <2>3
      <3>4. QED
        BY <1>3, <3>1, <3>2, <3>3
    <2>4. QED
      BY <2>1, <2>2, <2>3
  <1>8. Written(secs, n + 1, all)
    BY <1>2, <1>5, <1>6, <1>7 DEF Written
  <1>9. QED
    BY <1>8 DEF all, new

LEMMA SaveCorrect ==
    ASSUME combiner.seconds_ \in Seconds
    PROVE  Written(combiner.seconds_, LastSecond, save(combiner))
  <1>1. LastSecond \in Nat
    BY CombinerAssumption
  <1>2. Len(AllSeconds) = LastSecond /\ DOMAIN AllSeconds = 1..Len(AllSeconds)
        /\ \A s \in 1..LastSecond : AllSeconds[s] = s
    BY <1>1 DEF AllSeconds
  <1>3. save(combiner) = FoldLeft(OneSecond, <<>>, AllSeconds)
    BY DEF save, OneSecond, AllSeconds
  <1>4. FoldLeft(OneSecond, <<>>, AllSeconds) = Saving!Folded
    BY <1>2 DEF FoldLeft, MapThenFoldSet, Saving!Folded, Saving!Iter, Saving!Largest, Saving!Others, Max
  <1>5. SaveLoop(0, <<>>)
    <2>1. <<>> \in Seq(OutputPiece) /\ 1..0 = {} /\ DOMAIN <<>> = {}
      OBVIOUS
    <2>2. QED
      BY <2>1 DEF SaveLoop, Written
  <1>6. ASSUME NEW n \in 1..Len(AllSeconds), NEW out, SaveLoop(n - 1, out)
        PROVE  SaveLoop(n, OneSecond(out, AllSeconds[n]))
    <2>1. n - 1 \in Nat /\ (n - 1) + 1 = n /\ n <= LastSecond /\ AllSeconds[n] = n
      BY <1>1, <1>2
    <2>2. Written(combiner.seconds_, (n - 1) + 1, out \o combiner.seconds_[(n - 1) + 1])
      BY <1>6, <2>1, WrittenMore DEF SaveLoop
    <2>3. QED
      BY <2>1, <2>2 DEF SaveLoop, OneSecond
  <1>7. SaveLoop(Len(AllSeconds), Saving!Folded)
    BY <1>1, <1>2, <1>5, <1>6, Saving!FoldInduction
  <1>8. QED
    BY <1>2, <1>3, <1>4, <1>7 DEF SaveLoop

-----------------------------------------------------------------------------
(* The combiner and the output, step by step *)

LEMMA CombinerInit ==
    ASSUME Init
    PROVE  CombinerInv /\ OutputInv
  <1> DEFINE none == [s \in 0..LastSecond |-> <<>>]
  <1>1. combiner = [first_second_ |-> Second(plan.start_ns), last_second_ |-> Second(plan.end_ns),
                    indices_ |-> <<>>, seconds_ |-> none]
    BY DEF Init, NewCombiner
  <1>2. <<>> \in Seq(OutputPiece) /\ <<>> \in Seq(Channels)
    OBVIOUS
  <1>3. none \in Seconds
    BY <1>2 DEF Seconds
  <1> HIDE DEF none
  <1>4. /\ DOMAIN combiner = {"first_second_", "last_second_", "indices_", "seconds_"}
        /\ combiner.first_second_ = Second(plan.start_ns)
        /\ combiner.last_second_ = Second(plan.end_ns)
        /\ combiner.indices_ = <<>> /\ combiner.seconds_ = none
    BY <1>1
  <1>5. CombinerTypes(combiner)
    BY <1>2, <1>3, <1>4 DEF CombinerTypes, Distinct
  <1>6. \A s \in 0..LastSecond : DOMAIN combiner.seconds_[s] = {}
    BY <1>4 DEF none
  <1>7. Held(combiner, fetched) /\ InOrder(combiner.seconds_)
    BY <1>6 DEF Held, InOrder
  <1>8. \A f \in Files : DOMAIN fetched[f] = {}
    BY DEF Init
  <1>9. NoneMissing(combiner.seconds_, fetched)
    BY <1>8 DEF NoneMissing
  <1>10. OutputInv
    BY DEF Init, OutputInv
  <1>11. QED
    BY <1>5, <1>7, <1>9, <1>10 DEF CombinerInv

\* What the combiner holds depends on these only.
LEMMA CombinerStays ==
    ASSUME CombinerInv, UNCHANGED <<plan, combiner, fetched>>
    PROVE  CombinerInv'
  <1>1. CombinerTypes(combiner)'
    BY DEF CombinerInv, CombinerTypes
  <1>2. Held(combiner, fetched)'
    BY DEF CombinerInv, Held, Due
  <1>3. InOrder(combiner.seconds_)'
    BY DEF CombinerInv, InOrder
  <1>4. NoneMissing(combiner.seconds_, fetched)'
    BY SMTT(30) DEF CombinerInv, NoneMissing, Combined, Due
  <1>5. QED
    BY <1>1, <1>2, <1>3, <1>4 DEF CombinerInv

\* Every step keeps what is said of the combiner and of the output.
THEOREM CombinerInductive ==
    IInv /\ FInv /\ CombinerInv /\ OutputInv /\ [Next]_vars => CombinerInv' /\ OutputInv'
  <1> SUFFICES ASSUME IInv, FInv, CombinerInv, OutputInv, [Next]_vars
               PROVE  CombinerInv' /\ OutputInv'
    OBVIOUS
  <1>1. CASE UNCHANGED clientVars
    <2>1. UNCHANGED <<plan, client, combiner, fetched, output>>
      BY <1>1 DEF clientVars
    <2>2. CombinerInv'
      BY <2>1, CombinerStays
    <2>3. OutputInv'
      BY <2>1 DEF OutputInv, Written
    <2>4. QED
      BY <2>2, <2>3
  <1>2. CASE TakeData
    <2>1. client = "reading" /\ service = "respond" /\ client' = "next" /\ UNCHANGED <<plan, output>>
      BY <1>2 DEF TakeData, Respond
    <2>2. combiner' = NewComb /\ fetched' = NewGot
      BY <1>2 DEF TakeData, NewComb, NewGot
    <2>3. Taking
      BY <2>1 DEF Taking
    <2>4. /\ CombinerTypes(NewComb) /\ Held(NewComb, NewGot)
          /\ InOrder(NewComb.seconds_) /\ NoneMissing(NewComb.seconds_, NewGot)
      BY <2>1, <2>3, Added, HeldMore, InOrderMore, NoneMissingMore DEF CombinerInv, NewComb
    <2>5. CombinerInv'
      <3>1. CombinerTypes(combiner)'
        BY <2>1, <2>2, <2>4 DEF CombinerTypes
      <3>2. Held(combiner, fetched)'
        BY <2>1, <2>2, <2>4 DEF Held, Due
      <3>3. InOrder(combiner.seconds_)'
        BY <2>2, <2>4 DEF InOrder
      <3>4. NoneMissing(combiner.seconds_, fetched)'
        BY <2>1, <2>2, <2>4, SMTT(30) DEF NoneMissing, Combined, Due
      <3>5. QED
        BY <3>1, <3>2, <3>3, <3>4 DEF CombinerInv
    <2>6. OutputInv'
      BY <2>1 DEF OutputInv
    <2>7. QED
      BY <2>5, <2>6
  <1>3. CASE getStreams \/ ListStep \/ \E f \in Files : ReadStream(f)
    <2>1. UNCHANGED <<plan, combiner, fetched, output>> /\ client # "done" /\ client' # "done"
      BY <1>3 DEF getStreams, ListStep, NoRecords, TakeList, ListReceived, ReadStream
    <2>2. QED
      BY <2>1, CombinerStays DEF OutputInv
  <1>4. CASE Save
    <2>1. UNCHANGED <<plan, combiner, fetched>> /\ client' = "done" /\ output' = save(combiner)
      BY <1>4 DEF Save
    <2>2. Written(combiner.seconds_, LastSecond, output')
      BY <2>1, SaveCorrect DEF CombinerInv, CombinerTypes
    <2>3. OutputInv'
      BY <2>1, <2>2 DEF OutputInv, Written
    <2>4. QED
      BY <2>1, <2>3, CombinerStays
  <1>5. QED
    BY <1>1, <1>2, <1>3, <1>4 DEF Next, ClientStep, vars

-----------------------------------------------------------------------------
(* The theorems about the export *)

LEMMA RequestTyped ==
    ASSUME IInv, FInv, request \in Requests, [Next]_vars
    PROVE  request' \in Requests
  <1>1. /\ plan.start_ns \in 0..MaxTime /\ plan.end_ns \in 0..MaxTime
        /\ MaxTime \in Nat /\ Unlimited \in Nat /\ MaxRecords \in Nat /\ MaxRecords < Unlimited
    BY ExportAssumption, ScannerAssumption DEF IInv, Types
  <1>2. CASE getStreams
    BY <1>1, <1>2 DEF getStreams, handleReadingRequest, Requests
  <1>3. ASSUME NEW f \in Files, ReadStream(f)
        PROVE  request' \in Requests
    <2>1. DataRange[1] \in 0..MaxTime /\ DataRange[2] \in 0..MaxTime
      BY <1>1 DEF DataRange
    <2>2. Page \in 0..Unlimited /\ position \in Nat
      BY <1>1 DEF Page, FInv, MoreTypes
    <2>3. request' = [file |-> f, start_ns |-> DataRange[1], end_ns |-> DataRange[2],
                      start_idx |-> position, max_count |-> Page]
      BY <1>3 DEF ReadStream, handleReadingRequest
    <2>4. QED
      BY <2>1, <2>2, <2>3 DEF Requests
  <1>4. CASE ListStep \/ TakeData \/ Save
    BY <1>4 DEF ListStep, NoRecords, TakeList, ListReceived, TakeData, Respond, Save, scannerVars
  <1>5. CASE ServiceStep
    BY <1>5 DEF ServiceStep, Visit, EndScan, Resolve, OpenIndex, OpenData, Match
  <1>6. CASE WriterStep
    BY <1>6 DEF WriterStep, readerVars
  <1>7. CASE UNCHANGED vars
    BY <1>7 DEF vars, scannerVars
  <1>8. QED
    BY <1>2, <1>3, <1>4, <1>5, <1>6, <1>7 DEF Next, ClientStep

\* Everything that is kept true, of discovery, fetching, merging and output.
EInv == IInv /\ FInv /\ CombinerInv /\ OutputInv /\ request \in Requests

\* It holds in every state of an export.
THEOREM ExportInductive == Spec => []EInv
  <1>1. Init => EInv
    <2> SUFFICES ASSUME Init PROVE EInv
      OBVIOUS
    <2>1. request \in Requests
      BY ScannerAssumption DEF Init, ScannerInit, Requests
    <2>2. QED
      BY <2>1, InitInv, FetchInit, CombinerInit DEF EInv
  <1>2. EInv /\ [Next]_vars => EInv'
    BY Inductive, FetchInductive, CombinerInductive, RequestTyped DEF EInv
  <1>3. QED
    BY <1>1, <1>2, PTL DEF Spec

\* Type correctness: in particular the index of a stream is below the number of
\* channels, and no record has a second the combiner has no place for.
THEOREM ExportTypeCorrect == Spec => []TypeOK
  <1>1. EInv => TypeOK
    <2> SUFFICES ASSUME EInv PROVE TypeOK
      OBVIOUS
    <2> USE DEF EInv
    <2>1. \A f \in Files :
              /\ records[f] \in 0..MaxRecords /\ seen[f] \in 0..MaxRecords
              /\ records[f] <= Len(index[f]) /\ Len(index[f]) <= MaxRecords
      <3> SUFFICES ASSUME NEW f \in Files
                   PROVE  /\ records[f] \in 0..MaxRecords /\ seen[f] \in 0..MaxRecords
                          /\ records[f] <= Len(index[f]) /\ Len(index[f]) <= MaxRecords
        OBVIOUS
      <3>1. /\ records[f] \in Nat /\ seen[f] \in Nat /\ Len(index[f]) \in Nat
            /\ seen[f] <= records[f] /\ records[f] <= Len(index[f])
            /\ Len(index[f]) <= MaxRecords /\ MaxRecords \in Nat
        <4>1. index[f] \in Seq(Times)
          BY DEF IInv, Types
        <4>2. Len(index[f]) \in Nat
          BY <4>1
        <4>3. QED
          BY <4>2, ScannerAssumption DEF IInv, Types, PairInv
      <3>2. QED
        BY <3>1
    <2>2. records \in [Files -> 0..MaxRecords] /\ seen \in [Files -> 0..MaxRecords]
      <3>1. records \in [Files -> Nat] /\ seen \in [Files -> Nat]
        BY DEF IInv, Types
      <3>2. QED
        BY <2>1, <3>1
    <2>3. reader \in [file : Files \cup {"none"}, times : Seq(Times),
                      data : 0..MaxRecords, status : Status]
      <3>1. reader \in [file : Files \cup {"none"}, times : Seq(Times),
                        data : Nat, status : Status]
        BY DEF IInv, Types
      <3>2. reader.data \in 0..MaxRecords
        BY DEF FInv, MoreTypes
      <3>3. QED
        BY <3>1, <3>2
    <2>4. ScannerTypeOK
      <3>1. /\ stage \in [Files -> {"none", "half", "open"}]
            /\ there \in [Files -> SUBSET {"idx", "data"}]
            /\ index \in [Files -> Seq(Times)]
            /\ service \in {"idle", "scan", "resolve", "index", "data", "match", "respond"}
            /\ due \subseteq Files /\ visited \subseteq Files
        BY DEF IInv, Types
      <3>2. /\ changes \in 0..MaxChanges
            /\ response \in [streams : SUBSET Stream, data : Seq(Piece), errors : BOOLEAN]
        BY DEF FInv, MoreTypes
      <3>3. QED
        BY <2>1, <2>2, <2>3, <3>1, <3>2 DEF ScannerTypeOK
    <2>5. /\ plan \in Plans
          /\ client \in {"start", "listing", "next", "reading", "done", "stopped"}
          /\ listed \subseteq Files
          /\ fetched \in [Files -> Seq(Piece)]
          /\ finished \subseteq Files /\ failed \subseteq Files
          /\ promised \in [Files -> 0..MaxRecords]
      BY DEF IInv, Types, FInv, MoreTypes
    <2>6. position \in 0..(MaxRecords + 1)
      BY ScannerAssumption DEF FInv, MoreTypes
    <2>7. /\ combiner.indices_ \in Seq(Channels)
          /\ combiner.seconds_ \in [0..LastSecond -> Seq(OutputPiece)]
      BY DEF CombinerInv, CombinerTypes, Distinct, Seconds
    <2>8. output \in Seq(OutputPiece)
      <3>1. <<>> \in Seq(OutputPiece)
        OBVIOUS
      <3>2. QED
        BY <3>1 DEF OutputInv, Written
    <2>9. QED
      BY <2>4, <2>5, <2>6, <2>7, <2>8 DEF TypeOK
  <1>2. QED
    BY <1>1, ExportInductive, PTL

\* Two records of the output and where they come from.
LEMMA TwoOutputs ==
    ASSUME EInv, NEW j \in DOMAIN output, NEW k \in DOMAIN output, j < k
    PROVE  \E s, t \in 0..LastSecond :
               \E a \in DOMAIN combiner.seconds_[s], b \in DOMAIN combiner.seconds_[t] :
                   /\ output[j] = combiner.seconds_[s][a]
                   /\ output[k] = combiner.seconds_[t][b]
                   /\ s \in Nat /\ t \in Nat
                   /\ s < t \/ (s = t /\ a < b)
                   /\ Second(output[j].time_ns) = s /\ Second(output[k].time_ns) = t
  <1>1. DOMAIN <<>> = {}
    OBVIOUS
  <1>2. client = "done"
    BY <1>1 DEF EInv, OutputInv
  <1>3. Written(combiner.seconds_, LastSecond, output)
    BY <1>2 DEF EInv, OutputInv
  <1> DEFINE secs == combiner.seconds_
  <1>4. Written(secs, LastSecond, output)
    BY <1>3
  <1> HIDE DEF secs
  <1>5. \E s, t \in 1..LastSecond : \E a \in DOMAIN secs[s], b \in DOMAIN secs[t] :
            /\ output[j] = secs[s][a] /\ output[k] = secs[t][b]
            /\ s < t \/ (s = t /\ a < b)
    BY <1>4 DEF Written
  <1>6. PICK s \in 1..LastSecond, t \in 1..LastSecond :
            \E a \in DOMAIN combiner.seconds_[s], b \in DOMAIN combiner.seconds_[t] :
                /\ output[j] = combiner.seconds_[s][a]
                /\ output[k] = combiner.seconds_[t][b]
                /\ s < t \/ (s = t /\ a < b)
    BY <1>5 DEF secs
  <1>7. s \in 0..LastSecond /\ t \in 0..LastSecond /\ s \in Nat /\ t \in Nat
    BY CombinerAssumption
  <1>8. /\ \A a \in DOMAIN combiner.seconds_[s] : Second(combiner.seconds_[s][a].time_ns) = s
        /\ \A b \in DOMAIN combiner.seconds_[t] : Second(combiner.seconds_[t][b].time_ns) = t
    BY <1>7 DEF EInv, CombinerInv, Held
  <1>9. QED
    BY <1>6, <1>7, <1>8

\* The output is ordered by second, and records of one file are out of the
\* order of their timestamps only where they were recorded so: within a second
\* every file keeps its order of recording.
THEOREM OutputOrderCorrect == Spec => []OutputBySecond
  <1>1. EInv => OutputBySecond
    <2> SUFFICES ASSUME EInv, NEW j \in DOMAIN output, NEW k \in DOMAIN output, j < k
                 PROVE  /\ Second(output[j].time_ns) <= Second(output[k].time_ns)
                        /\ output[j].file = output[k].file
                           /\ output[j].time_ns > output[k].time_ns
                               => output[j].i < output[k].i
      BY DEF OutputBySecond
    <2>1. PICK s \in 0..LastSecond, t \in 0..LastSecond :
              \E a \in DOMAIN combiner.seconds_[s], b \in DOMAIN combiner.seconds_[t] :
                  /\ output[j] = combiner.seconds_[s][a]
                  /\ output[k] = combiner.seconds_[t][b]
                  /\ s \in Nat /\ t \in Nat
                  /\ s < t \/ (s = t /\ a < b)
                  /\ Second(output[j].time_ns) = s /\ Second(output[k].time_ns) = t
      BY TwoOutputs
    <2>2. InOrder(combiner.seconds_)
      BY DEF EInv, CombinerInv
    <2>3. Second(output[j].time_ns) <= Second(output[k].time_ns)
      BY <2>1
    <2>4. ASSUME output[j].file = output[k].file,
                 Second(output[j].time_ns) = Second(output[k].time_ns)
          PROVE  output[j].i < output[k].i
      <3>1. PICK a \in DOMAIN combiner.seconds_[s], b \in DOMAIN combiner.seconds_[s] :
                /\ output[j] = combiner.seconds_[s][a]
                /\ output[k] = combiner.seconds_[s][b] /\ a < b
        BY <2>1, <2>4
      <3>2. QED
        BY <2>2, <2>4, <3>1 DEF InOrder
    <2>5. ASSUME output[j].time_ns > output[k].time_ns
          PROVE  Second(output[j].time_ns) = Second(output[k].time_ns)
      <3>0. output \in Seq(OutputPiece)
        BY DEF EInv, OutputInv, Written
      <3>1. output[j].time_ns \in Nat /\ output[k].time_ns \in Nat
        BY <3>0, OutputPieceAt, SecondOfRecord
      <3>2. Second(output[k].time_ns) <= Second(output[j].time_ns)
        BY <2>5, <3>1, SecondMonotone
      <3>3. Second(output[j].time_ns) \in Nat /\ Second(output[k].time_ns) \in Nat
        BY <3>1, SecondMonotone
      <3>4. QED
        BY <2>3, <3>2, <3>3
    <2>6. QED
      BY <2>3, <2>4, <2>5
  <1>2. QED
    BY <1>1, ExportInductive, PTL

\* A record of the output has been fetched; its number determines its time.
LEMMA OutputFetched ==
    ASSUME EInv, NEW k \in DOMAIN output
    PROVE  LET p == output[k]
           IN  /\ p.file \in Files /\ p.i \in Nat
               /\ p.time_ns = index[p.file][p.i]
               /\ Due(Second(p.time_ns))
               /\ combiner.indices_[p.stream_idx + 1] = ChannelOf[p.file]
               /\ \E i \in DOMAIN fetched[p.file] :
                      fetched[p.file][i].i = p.i /\ fetched[p.file][i].time_ns = p.time_ns
  <1> DEFINE p == output[k]
  <1>1. DOMAIN <<>> = {}
    OBVIOUS
  <1>2. Written(combiner.seconds_, LastSecond, output)
    BY <1>1 DEF EInv, OutputInv
  <1>3. PICK s \in 1..LastSecond : \E a \in DOMAIN combiner.seconds_[s] :
            p = combiner.seconds_[s][a]
    BY <1>2 DEF Written
  <1>4. s \in 0..LastSecond
    BY CombinerAssumption
  <1>5. PICK a \in DOMAIN combiner.seconds_[s] : p = combiner.seconds_[s][a]
    BY <1>3
  <1>6. /\ Second(p.time_ns) = s /\ Due(s)
        /\ combiner.indices_[p.stream_idx + 1] = ChannelOf[p.file]
        /\ \E i \in DOMAIN fetched[p.file] :
               fetched[p.file][i].i = p.i /\ fetched[p.file][i].time_ns = p.time_ns
    BY <1>4, <1>5 DEF EInv, CombinerInv, Held
  <1>7. p.file \in Files /\ p.i \in Nat
    BY <1>2, OutputPieceAt DEF Written
  <1> HIDE DEF p
  <1>8. Pieces(p.file, index[p.file], fetched[p.file])
    BY <1>7 DEF EInv, FInv, FetchInv
  <1>9. p.time_ns = index[p.file][p.i]
    BY <1>6, <1>8 DEF Pieces
  <1>10. QED
    BY <1>6, <1>7, <1>9 DEF p

\* Every fetched record of the wanted seconds is in the output exactly once,
\* with the index of its channel, and nothing else is.
THEOREM ExportCorrect == Spec => []ExportExact
  <1>1. EInv => ExportExact
    <2> SUFFICES ASSUME EInv, client = "done" PROVE ExportExact
      BY DEF ExportExact
    <2>1. Written(combiner.seconds_, LastSecond, output)
      BY DEF EInv, OutputInv
    <2>2. ASSUME NEW j \in DOMAIN output, NEW k \in DOMAIN output, j < k,
                 output[j].file = output[k].file, output[j].i = output[k].i
          PROVE  FALSE
      <3>1. PICK s \in 0..LastSecond, t \in 0..LastSecond :
                \E a \in DOMAIN combiner.seconds_[s], b \in DOMAIN combiner.seconds_[t] :
                    /\ output[j] = combiner.seconds_[s][a]
                    /\ output[k] = combiner.seconds_[t][b]
                    /\ s \in Nat /\ t \in Nat
                    /\ s < t \/ (s = t /\ a < b)
                    /\ Second(output[j].time_ns) = s /\ Second(output[k].time_ns) = t
        BY <2>2, TwoOutputs
      <3>2. output[j].time_ns = output[k].time_ns /\ output[j].i \in Nat
        BY <2>2, OutputFetched
      <3>3. s = t
        BY <3>1, <3>2
      <3>4. PICK a \in DOMAIN combiner.seconds_[s], b \in DOMAIN combiner.seconds_[s] :
                /\ output[j] = combiner.seconds_[s][a]
                /\ output[k] = combiner.seconds_[s][b] /\ a < b
        BY <3>1, <3>3
      <3>5. output[j].i < output[k].i
        BY <2>2, <3>4 DEF EInv, CombinerInv, InOrder
      <3>6. QED
        BY <2>2, <3>2, <3>5
    <2>3. ASSUME NEW j \in DOMAIN output, NEW k \in DOMAIN output, j # k
          PROVE  <<output[j].file, output[j].i>> # <<output[k].file, output[k].i>>
      <3>1. j \in Int /\ k \in Int
        BY <2>1 DEF Written
      <3>2. j < k \/ k < j
        BY <2>3, <3>1
      <3>3. QED
        BY <2>2, <3>2
    <2>4. ASSUME NEW f \in Files
          PROVE  LET times == [i \in DOMAIN fetched[f] |-> fetched[f][i].time_ns]
                     due_ == {i \in DOMAIN times :
                                 /\ Second(times[i]) # 0
                                 /\ Second(times[i]) \in Second(plan.start_ns)..Second(plan.end_ns)}
                 IN  /\ \A k \in Exported(f) :
                            /\ \E i \in due_ : fetched[f][i].i = output[k].i
                            /\ combiner.indices_[output[k].stream_idx + 1] = ChannelOf[f]
                     /\ Ordered(times) =>
                            \A i \in due_ : \E k \in Exported(f) :
                                output[k].i = fetched[f][i].i
      <3> DEFINE times == [i \in DOMAIN fetched[f] |-> fetched[f][i].time_ns]
                 due_ == {i \in DOMAIN times :
                             /\ Second(times[i]) # 0
                             /\ Second(times[i]) \in Second(plan.start_ns)..Second(plan.end_ns)}
      <3>1. due_ = {i \in DOMAIN fetched[f] : Due(Second(fetched[f][i].time_ns))}
        BY DEF Due
      <3>2. times = TimesOf(fetched[f])
        BY DEF TimesOf
      <3> HIDE DEF due_, times
      <3>3. ASSUME NEW k \in Exported(f)
            PROVE  /\ \E i \in due_ : fetched[f][i].i = output[k].i
                   /\ combiner.indices_[output[k].stream_idx + 1] = ChannelOf[f]
        <4>1. k \in DOMAIN output /\ output[k].file = f
          BY DEF Exported
        <4>2. /\ Due(Second(output[k].time_ns))
              /\ combiner.indices_[output[k].stream_idx + 1] = ChannelOf[f]
              /\ \E i \in DOMAIN fetched[f] :
                     fetched[f][i].i = output[k].i /\ fetched[f][i].time_ns = output[k].time_ns
          BY <4>1, OutputFetched
        <4>3. QED
          BY <3>1, <4>2
      <3>4. ASSUME Ordered(times), NEW i \in due_
            PROVE  \E k \in Exported(f) : output[k].i = fetched[f][i].i
        <4> DEFINE s == Second(fetched[f][i].time_ns)
        <4>1. i \in DOMAIN fetched[f] /\ Due(s)
          BY <3>1
        <4>2. s \in 1..LastSecond
          <5>1. fetched[f] \in Seq(Piece)
            BY DEF EInv, FInv, MoreTypes
          <5>2. fetched[f][i].time_ns \in Times
            BY <4>1, <5>1, PieceAt
          <5>3. s \in 0..LastSecond /\ s # 0 /\ LastSecond \in Nat
            BY <4>1, <5>2, SecondOfRecord, CombinerAssumption DEF Due
          <5> HIDE DEF s
          <5>4. QED
            BY <5>3
        <4>3. Combined(combiner.seconds_, f, fetched[f][i])
          BY <3>2, <3>4, <4>1 DEF EInv, CombinerInv, NoneMissing
        <4>4. PICK k \in DOMAIN combiner.seconds_[s] :
                  /\ combiner.seconds_[s][k].file = f
                  /\ combiner.seconds_[s][k].i = fetched[f][i].i
          BY <4>1, <4>3 DEF Combined
        <4>5. PICK p \in DOMAIN output : output[p] = combiner.seconds_[s][k]
          BY <2>1, <4>2 DEF Written
        <4>6. QED
          BY <4>4, <4>5 DEF Exported
      <3>5. QED
        BY <3>3, <3>4 DEF due_, times
    <2>5. QED
      BY <2>3, <2>4 DEF ExportExact
  <1>2. QED
    BY <1>1, ExportInductive, PTL

=============================================================================
