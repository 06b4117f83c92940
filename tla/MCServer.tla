------------------------------ MODULE MCServer ------------------------------
(* Two connections, up to two unread frames on each (what is in a frame    *)
(* does not matter here), and a server that is restarted.                  *)
EXTENDS Server

CONSTANTS k1, k2, f

MCConnections == {k1, k2}
MCFrames == {f}

=============================================================================
