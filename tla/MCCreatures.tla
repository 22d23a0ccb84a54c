----------------------------- MODULE MCCreatures -----------------------------
(* Creatures on small instances. *)
EXTENDS Creatures
CONSTANTS c1, c2, c3, f1, f2

MoodChoices == {0, 1}
LifeChoices == {1, 4}
=============================================================================
