----------------------------- MODULE LogChannel -----------------------------
(***************************************************************************)
(* What LogWriter promises to its callers (log_writer.h:40-43): requests   *)
(* accepted before admission closes reach the storage one by one, in the   *)
(* order they were accepted, none twice and none that was never accepted.  *)
(***************************************************************************)
EXTENDS Naturals, Sequences

CONSTANT Requests   \* the requests callers may submit

VARIABLES accepted,   \* requests for which add() returned true, in order
          delivered,  \* requests handed to Storage::write(), in order
          closed      \* admission has ended

absVars == <<accepted, delivered, closed>>

AbsInit == /\ accepted = <<>>
           /\ delivered = <<>>
           /\ closed = FALSE

\* add() returns true.
Accept(r) == /\ ~closed
             /\ accepted' = Append(accepted, r)
             /\ UNCHANGED <<delivered, closed>>

\* The oldest accepted request that was not delivered yet reaches the storage.
Deliver == /\ Len(delivered) < Len(accepted)
           /\ delivered' = Append(delivered, accepted[Len(delivered) + 1])
           /\ UNCHANGED <<accepted, closed>>

\* stop() ends admission.
Close == /\ closed' = TRUE
         /\ UNCHANGED <<accepted, delivered>>

AbsNext == \/ \E r \in Requests : Accept(r)
           \/ Deliver
           \/ Close

AbsSpec == AbsInit /\ [][AbsNext]_absVars

=============================================================================
