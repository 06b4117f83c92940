----------------------------- MODULE MCStorage ------------------------------
(***************************************************************************)
(* Model-checking instance of Storage: two days in any order, a variable-  *)
(* and a fixed-size channel, and a budget of a few records.  A removal cut *)
(* short by a crash leaves nothing, an index file (61 bytes with one       *)
(* entry) or a data file (77 bytes with one record of 16).                 *)
(***************************************************************************)
EXTENDS Storage

CONSTANTS can, gps

MCDays == {1, 2}
MCChannels == {can, gps}
MCFixed == {gps}
MCSizes == {16}
MCSizesWithHuge == {16, 150}   \* the second never fits into the budget

=============================================================================
