--------------------------- MODULE MCStreamWriter ---------------------------
(***************************************************************************)
(* Model-checking instance of StreamWriter.  UINT32_MAX is scaled down so  *)
(* that a pair of files holds two or three records before it rolls over.   *)
(***************************************************************************)
EXTENDS StreamWriter

MCSizes == {0, 20}
MCRecordSizes == {0, 20}
MCSeconds == {1}

=============================================================================
