------------------------------- MODULE Export -------------------------------
(***************************************************************************)
(* A reading client from end to end: it asks a LogReader for the streams   *)
(* of a time range, fetches each of them and merges them, while the writer *)
(* goes on (StorageScanner, StreamsCombiner).  The client is               *)
(* apps/get_can.cpp, or a program that uses Reader or LogReadClient and    *)
(* StreamsCombiner the same way, with whole files, pages or the range.     *)
(*                                                                         *)
(* One exchange at a time over a connection that works: what becomes of a  *)
(* request when it does not is the subject of ReadSession.                 *)
(***************************************************************************)
EXTENDS StorageScanner, StreamsCombiner

CONSTANTS ChannelOf,   \* the channel of each file
          Plans        \* what clients do: an element of Apps and a time range

Apps == {"get_can", "whole", "pages", "range"}

ASSUME ExportAssumption ==
    /\ Plans \subseteq [app : Apps, start_ns : 0..MaxTime, end_ns : 0..MaxTime]
    /\ IsFiniteSet(Files)
    /\ \A t \in Times : Second(t) <= LastSecond

VARIABLES
    plan,       \* what this client does
    client,     \* where it is
    listed,     \* streams of the list that are still to be fetched
    position,   \* start_idx of the next page
    combiner,   \* the StreamsCombiner
    output,     \* what save() gave to the AscWriter
    \* History, read only by the properties
    fetched,    \* pieces received for each file
    finished,   \* files fetched to their end
    failed,     \* files for which a response had errors
    promised    \* readable records of each file when its first page was asked for

clientVars == <<plan, client, listed, position, combiner, output,
                fetched, finished, failed, promised>>
vars == <<scannerVars, clientVars>>

Channels == {ChannelOf[f] : f \in Files}
OutputPiece == [file : Files, i : 1..MaxRecords, time_ns : Times,
                stream_idx : 0..(Cardinality(Channels) - 1)]

TypeOK ==
    /\ ScannerTypeOK
    /\ plan \in Plans
    /\ client \in {"start", "listing", "next", "reading", "done", "stopped"}
    /\ listed \subseteq Files
    /\ position \in 0..(MaxRecords + 1)
    /\ combiner.indices_ \in Seq(Channels)
    /\ combiner.seconds_ \in [0..LastSecond -> Seq(OutputPiece)]
    /\ output \in Seq(OutputPiece)
    /\ fetched \in [Files -> Seq(Piece)]
    /\ finished \subseteq Files /\ failed \subseteq Files
    /\ promised \in [Files -> 0..MaxRecords]

Init ==
    /\ ScannerInit
    /\ plan \in Plans
    /\ client = "start"
    /\ listed = {} /\ position = 0
    /\ combiner = NewCombiner(plan.start_ns, plan.end_ns)
    /\ output = <<>>
    /\ fetched = [f \in Files |-> <<>>]
    /\ finished = {} /\ failed = {}
    /\ promised = [f \in Files |-> 0]

-----------------------------------------------------------------------------
(* The list of streams *)

\* LogReadClient::getStreams(); the server ignores start_idx and max_count.
getStreams ==
    /\ client = "start"
    /\ handleReadingRequest([file |-> "none", start_ns |-> plan.start_ns,
                             end_ns |-> plan.end_ns, start_idx |-> 0,
                             max_count |-> Unlimited])
    /\ client' = "listing"
    /\ UNCHANGED <<plan, listed, position, combiner, output, fetched,
                   finished, failed, promised>>

ListReceived == client = "listing" /\ Respond

\* get_can looks at data_size(), which a list of streams leaves at 0, and
\* reports that there are no records.
NoRecords ==
    /\ ListReceived
    /\ plan.app = "get_can" /\ response.data = <<>>
    /\ client' = "stopped"
    /\ UNCHANGED listed

TakeList ==
    /\ ListReceived
    /\ plan.app # "get_can"
    /\ listed' = {s.file : s \in response.streams}
    /\ client' = "next"

-----------------------------------------------------------------------------
(* The records of a stream *)

\* Only the client "range" lets the server filter.
DataRange == IF plan.app = "range" THEN <<plan.start_ns, plan.end_ns>>
                                   ELSE <<0, MaxTime>>
Page == IF plan.app = "pages" THEN 1 ELSE Unlimited

\* LogReadClient::getData(): a file is read to its end before the next one.
ReadStream(f) ==
    /\ client = "next" /\ f \in listed
    /\ position > 0 => f = request.file
    /\ handleReadingRequest([file |-> f, start_ns |-> DataRange[1],
                             end_ns |-> DataRange[2], start_idx |-> position,
                             max_count |-> Page])
    /\ promised' = IF position = 0 THEN [promised EXCEPT ![f] = Readable(f)]
                                   ELSE promised
    /\ client' = "reading"
    /\ UNCHANGED <<plan, listed, position, combiner, output, fetched,
                   finished, failed>>

\* A full page asks for another one.
TakeData ==
    LET f == request.file
        full == Len(response.data) = Page
    IN  /\ client = "reading" /\ Respond
        /\ combiner' = addRecords(combiner, ChannelOf[f], response.data)
        /\ fetched' = [fetched EXCEPT ![f] = @ \o response.data]
        /\ failed' = IF response.errors THEN failed \cup {f} ELSE failed
        /\ position' = IF full THEN position + Page ELSE 0
        /\ listed' = IF full THEN listed ELSE listed \ {f}
        /\ finished' = IF full THEN finished ELSE finished \cup {f}
        /\ client' = "next"
        /\ UNCHANGED <<plan, output, promised>>

Save ==
    /\ client = "next" /\ listed = {}
    /\ output' = save(combiner)
    /\ client' = "done"
    /\ UNCHANGED <<scannerVars, plan, listed, position, combiner, fetched,
                   finished, failed, promised>>

-----------------------------------------------------------------------------

ListStep ==
    /\ NoRecords \/ TakeList
    /\ UNCHANGED <<plan, position, combiner, output, fetched, finished,
                   failed, promised>>

ClientStep == \/ getStreams \/ ListStep \/ TakeData \/ Save
              \/ \E f \in Files : ReadStream(f)

\* Bound: the writer is followed from the first request to the end.
Running == client \notin {"start", "done", "stopped"}

Next == \/ Running /\ WriterStep /\ UNCHANGED clientVars
        \/ ServiceStep /\ UNCHANGED clientVars
        \/ ClientStep

Spec == Init /\ [][Next]_vars

-----------------------------------------------------------------------------
(* Properties *)

\* The client asked for records of this time.
Asked(time_ns) == DataRange[1] <= time_ns /\ time_ns <= DataRange[2]

\* Of the first n records of f the client has, in order, those it asked for.
FetchedUpTo(f, n) ==
    /\ \A j, k \in DOMAIN fetched[f] : j < k => fetched[f][j].i < fetched[f][k].i
    /\ \A k \in DOMAIN fetched[f] :
           fetched[f][k].file = f /\ fetched[f][k].time_ns = index[f][fetched[f][k].i]
    /\ {fetched[f][k].i : k \in DOMAIN fetched[f]} = {i \in 1..n : Asked(index[f][i])}

(* What a client has fetched of a file without an error is, without gaps   *)
(* and without repetitions, everything it asked for up to some record: in  *)
(* one response or over pages, while the file grows and goes.  As long as  *)
(* the file is there, that is at least what could be read when the client  *)
(* began.  matchTime() may hide a file with late samples from the server's *)
(* filter.                                                                 *)
FetchExact ==
    \A f \in finished \ failed :
        \E n \in 0..Len(index[f]) :
            /\ FetchedUpTo(f, n)
            /\ Whole(f) /\ f \notin LongNamed /\ (plan.app # "range" \/ Ordered(index[f]))
                   => n >= promised[f]

\* The records of f in the output.
Exported(f) == {k \in DOMAIN output : output[k].file = f}

(* Every fetched record of the wanted seconds is in the output exactly     *)
(* once, with the index of its channel, and nothing else is.  addRecords() *)
(* stops at the first record past the range, so a late sample behind it    *)
(* may be missing; second 0 stands for no second, storeData() drops it.    *)
ExportExact ==
    client = "done" =>
        /\ \A j, k \in DOMAIN output : j # k =>
               <<output[j].file, output[j].i>> # <<output[k].file, output[k].i>>
        /\ \A f \in Files :
               LET times == [i \in DOMAIN fetched[f] |-> fetched[f][i].time_ns]
                   due_ == {i \in DOMAIN times :
                               /\ Second(times[i]) # 0
                               /\ Second(times[i]) \in Second(plan.start_ns)..Second(plan.end_ns)}
               IN  /\ \A k \in Exported(f) :
                          /\ \E i \in due_ : fetched[f][i].i = output[k].i
                          /\ combiner.indices_[output[k].stream_idx + 1] = ChannelOf[f]
                   /\ Ordered(times) =>
                          \A i \in due_ : \E k \in Exported(f) :
                              output[k].i = fetched[f][i].i

(* The output is ordered by second, over all streams and pages.  Records   *)
(* of one file are out of the order of their timestamps only where they    *)
(* were recorded so.                                                       *)
OutputBySecond ==
    \A j, k \in DOMAIN output : j < k =>
        /\ Second(output[j].time_ns) <= Second(output[k].time_ns)
        /\ output[j].file = output[k].file /\ output[j].time_ns > output[k].time_ns
               => output[j].i < output[k].i

(* "This class combines several input streams into a single stream of      *)
(* DataPieces ordered by their timestamps" (streams_combiner.h), at least  *)
(* when no stream has late samples.  It fails inside a second: streams     *)
(* follow each other there, because nobody calls OneSecondData::sort().    *)
OutputByTime ==
    (\A f \in Files : Ordered(index[f])) =>
        \A j, k \in DOMAIN output : j < k => output[j].time_ns <= output[k].time_ns

=============================================================================
