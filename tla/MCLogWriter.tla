---------------------------- MODULE MCLogWriter -----------------------------
(***************************************************************************)
(* Model-checking instance of LogWriter: racing producers, one owner that  *)
(* may call stop() at any moment and again after it returned.              *)
(***************************************************************************)
EXTENDS LogWriter

CONSTANTS p1, p2, r1, r2

MCProducers == {p1, p2}
MCRequests == {r1, r2}

=============================================================================
