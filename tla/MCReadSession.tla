--------------------------- MODULE MCReadSession ----------------------------
(* Two-unit headers and payloads that are absent, short, or too long for   *)
(* the socket buffer.                                                      *)
EXTENDS ReadSession

MCResponseUnits == {0, 1, 3}

=============================================================================
