------------------------------ MODULE MCExport ------------------------------
(* Two channels on day 1 and one of them again on day 2; a day has two     *)
(* seconds of two time units.                                              *)
EXTENDS Export

MCDayOf == [f \in Files |-> IF f = "a2" THEN 2 ELSE 1]
MCChannelOf == [f \in Files |-> IF f = "b1" THEN "b" ELSE "a"]

\* From the second half of day 1 into day 2, or everything.
Late == [start_ns |-> 6, end_ns |-> 8]
All == [start_ns |-> 0, end_ns |-> 9]
MCPlans == {[app |-> "get_can"] @@ All, [app |-> "whole"] @@ Late,
            [app |-> "pages"] @@ All, [app |-> "range"] @@ Late}

=============================================================================
