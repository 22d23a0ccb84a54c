----------------------------- MODULE MCSession -----------------------------
(* A small instance of Session for TLC. *)
EXTENDS Session

Peers == Permutations(Peer)
=============================================================================
