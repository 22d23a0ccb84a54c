---------------------------- MODULE MCStreaming ----------------------------
(* Small instances of Streaming for TLC. *)
EXTENDS Streaming

CONSTANTS v1, v2, p1, p2

\* Everybody on a connection of his own, and two viewers of one client.
Alone == [v \in Viewer |-> IF v = v1 THEN p1 ELSE p2]
Together == [v \in Viewer |-> p1]
=============================================================================
