----------------------------- MODULE MCSurvival -----------------------------
(* Small instances of Survival for TLC. *)
EXTENDS Survival, TLC

CONSTANTS p1, p2, m1, m2, m3, m4, m5, s1

\* Which of the players and which of the mobs makes no difference.
Pawns == Permutations(Player) \cup Permutations(Mob)
=============================================================================
