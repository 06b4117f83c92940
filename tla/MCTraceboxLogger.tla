-------------------------- MODULE MCTraceboxLogger --------------------------
(* Two clients, one of which may send what is not a LogRequest, and two    *)
(* connections: a client can have a second one while its first is unread.  *)
EXTENDS TraceboxLogger

=============================================================================
