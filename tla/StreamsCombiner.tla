-------------------------- MODULE StreamsCombiner ---------------------------
(***************************************************************************)
(* libs/log_client/streams_combiner.{h,cpp}: records of several streams    *)
(* merged by the second of their timestamp.                                *)
(*                                                                         *)
(* A combiner is a record of its members.  seconds_ maps every second to   *)
(* its OneSecondData, an absent one to the empty sequence; indices_ lists  *)
(* the streams in the order of their index.                                *)
(***************************************************************************)
EXTENDS Integers, Sequences, SequencesExt

CONSTANTS SecondLength,   \* nanoseconds of a second, scaled down
          LastSecond      \* bound: the last second of any record

ASSUME CombinerAssumption == SecondLength \in Nat \ {0} /\ LastSecond \in Nat

\* The code divides by 1E9 in double, which may put the last fraction of a
\* microsecond of a second into the next one; what follows uses only that a
\* later time has no earlier second.
Second(time_ns) == time_ns \div SecondLength

NewCombiner(start_time, end_time) ==
    [first_second_ |-> Second(start_time), last_second_ |-> Second(end_time),
     indices_ |-> <<>>, seconds_ |-> [s \in 0..LastSecond |-> <<>>]]

\* storeData() and OneSecondData::add()
Prepended(seconds_, second, data) ==     \* mutant: insert() at begin()
    IF second = 0 \/ data = <<>> THEN seconds_
    ELSE [seconds_ EXCEPT ![second] = data \o @]
storeData(seconds_, second, data) ==
    IF second = 0 \/ data = <<>> THEN seconds_
    ELSE [seconds_ EXCEPT ![second] = @ \o data]

\* A new stream gets the number of streams so far as its index.
Registered(indices_, stream) ==
    IF stream \in ToSet(indices_) THEN indices_ ELSE Append(indices_, stream)

IndexAfterInsert(indices_, stream) ==    \* mutant: size() after emplace()
    CHOOSE i \in DOMAIN indices_ : indices_[i] = stream
IndexOf(indices_, stream) == (CHOOSE i \in DOMAIN indices_ : indices_[i] = stream) - 1

\* addRecords(): runs of one second are collected in tmp and stored when the
\* second changes and at the end.
LastRunForgotten(seconds_, run) == seconds_      \* mutant: no storeData() at the end
LastRun(seconds_, run) == storeData(seconds_, run.last, run.tmp)

Tagged(it, stream_idx) ==
    [file |-> it.file, i |-> it.i, time_ns |-> it.time_ns, stream_idx |-> stream_idx]

addRecordsTurn(c, stream_idx, run, it) ==
    LET second == Second(it.time_ns) IN
    IF run.broken \/ second < c.first_second_ THEN run
    ELSE IF second > c.last_second_ THEN [run EXCEPT !.broken = TRUE]
    ELSE IF second = run.last
         THEN [run EXCEPT !.tmp = Append(@, Tagged(it, stream_idx))]
    ELSE [run EXCEPT !.seconds = storeData(@, run.last, run.tmp),
                     !.tmp = <<Tagged(it, stream_idx)>>, !.last = second]

addRecords(c, stream, data) ==
    LET indices == Registered(c.indices_, stream)
        Turn(run, it) == addRecordsTurn(c, IndexOf(indices, stream), run, it)
        end == FoldLeft(Turn, [seconds |-> c.seconds_, tmp |-> <<>>, last |-> 0,
                               broken |-> FALSE], data)
    IN  [c EXCEPT !.indices_ = indices, !.seconds_ = LastRun(end.seconds, end)]

\* save(): second by second; sort() is not called by anyone.
save(c) ==
    LET OneSecond(out, s) == out \o c.seconds_[s]
    IN  FoldLeft(OneSecond, <<>>, [s \in 1..LastSecond |-> s])

=============================================================================
