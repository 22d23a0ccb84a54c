------------------------------ MODULE Creatures ------------------------------
(***************************************************************************)
(* The demo creatures (system_demo.c): they grow hungry, look for food and *)
(* for each other, multiply and die.                                       *)
(*                                                                         *)
(* A frame here is one in which the tick timer has elapsed; in the others  *)
(* creatures only move.  Positions are left out: what the world query of   *)
(* a creature lists of the tracked entities, and what of it is in reach,   *)
(* is open.  Tags, newborns and deletions are deferred to the merge;       *)
(* counters, quantities and the tracker change at once.                    *)
(***************************************************************************)
EXTENDS Integers, FiniteSets, FiniteSetsExt

CONSTANTS
    Creature, Food,     \* entity ids; flecs never hands one out twice
    Serving,            \* quantity of a stack of food
    MaxQty,             \* the largest value of Item.quantity
    FoodSatisfies,      \* CREATURE_FOOD_SATISFY_FOR
    MatingSatisfies,    \* CREATURE_MATING_SATISFY_FOR
    Moods, Lives        \* mating_satisfied and life_remaining at birth

ASSUME CreaturesAssumption ==
    /\ IsFiniteSet(Creature) /\ IsFiniteSet(Food)
    /\ MaxQty \in Nat /\ Serving \in 1 .. MaxQty
    /\ FoodSatisfies \in Nat \ {0} /\ MatingSatisfies \in Nat \ {0}
    /\ Moods \subseteq Nat /\ Lives \subseteq Nat \ {0}

VARIABLES
    stage,          \* the system that runs, "net" between frames
    todo,           \* the creatures it has not reached
    here, born,     \* creatures that exist, and that have been created
    hunger, mating, life,   \* Creature.*_satisfied and life_remaining
    hungry, courting,       \* those with SeeksFood, with SeeksCompanion
    tracked,        \* creatures the tracker knows
    lying, served,  \* food the tracker lists, and that has been spawned
    qty,            \* Item.quantity
    meals,          \* how often anyone has eaten (history)
    npcs,           \* demo_npcs of the debug tools
    \* deferred to the merge:
    willEat, willCourt,     \* the tags after it
    staged, doomed          \* creatures created and deleted

body == <<here, born, hunger, mating, life, tracked, npcs>>
tags == <<hungry, courting>>
larder == <<lying, served, qty, meals>>
deferred == <<willEat, willCourt, staged, doomed>>
vars == <<stage, todo, body, tags, larder, deferred>>

Least(a, b) == IF a <= b THEN a ELSE b

\* TICK_VAR.
Ticked(n) == IF n > 0 THEN n - 1 ELSE 0

\* creature_spawn: a newborn is hungry at once, when it courts and how long
\* it lives is left to chance.
Newborns(new) ==
    /\ born' = born \cup new
    /\ tracked' = tracked \cup new
    /\ \E span \in [new -> Lives] :
         life' = [c \in Creature |-> IF c \in new THEN span[c] ELSE life[c]]

Calmed(calm, new) ==
    \E mood \in [new -> Moods] :
        mating' = [c \in Creature |-> IF c \in new THEN mood[c]
                                      ELSE IF c \in calm THEN MatingSatisfies ELSE mating[c]]
----------------------------------------------------------------------------
(* Between frames                                                          *)

ActSpawnDemoNPCs(new) ==
    /\ stage = "net" /\ new # {}
    /\ Newborns(new) /\ Calmed({}, new)
    /\ here' = here \cup new
    /\ npcs' = npcs \cup new
    /\ UNCHANGED <<stage, todo, hunger, tags, larder, deferred>>

\* The list still holds those who have died; their children are not on it.
ActDespawnDemoNPCs ==
    /\ stage = "net"
    /\ here' = here \ npcs /\ tracked' = tracked \ npcs
    /\ hungry' = hungry \ npcs /\ courting' = courting \ npcs
    /\ willEat' = willEat \ npcs /\ willCourt' = willCourt \ npcs
    /\ npcs' = {}
    /\ UNCHANGED <<stage, todo, born, hunger, mating, life, larder, staged, doomed>>

\* item_spawn by the world generator, a player or the debug tools.
Serve(f) ==
    /\ stage = "net" /\ f \notin served
    /\ served' = served \cup {f} /\ lying' = lying \cup {f}
    /\ qty' = [qty EXCEPT ![f] = Serving]
    /\ UNCHANGED <<stage, todo, body, tags, meals, deferred>>

\* PickItem hides the food a player takes, DropItem shows it again; both run
\* before the creatures do.
Take(f) ==
    /\ stage = "net" /\ f \in served /\ qty[f] > 0
    /\ lying' = IF f \in lying THEN lying \ {f} ELSE lying \cup {f}
    /\ UNCHANGED <<stage, todo, body, tags, served, qty, meals, deferred>>

----------------------------------------------------------------------------
(* Systems                                                                 *)

\* Mutant: a counter that stops at zero is tested for less.
Aged_Never == {c \in here : life[c] < 0}

Aged == {c \in here : life[c] < 1}

\* Mutant: the tracker forgets a creature with the entity only.
Untracked_Late(gone) == tracked

\* entity_despawn: the tracker forgets at once, the entity stays to the merge.
Untracked(gone) == tracked \ gone

Needing(need) == {c \in here : need[c] < 1}

CreatureCheckNeeds ==
    /\ stage = "net"
    /\ stage' = "food" /\ todo' = hungry \ courting
    /\ willEat' = hungry \cup Needing(hunger)
    /\ willCourt' = courting \cup Needing(mating)
    /\ doomed' = Aged
    /\ tracked' = Untracked(Aged)
    /\ hunger' = [c \in Creature |-> IF c \in here \ Aged THEN Ticked(hunger[c]) ELSE hunger[c]]
    /\ mating' = [c \in Creature |-> IF c \in here \ Aged THEN Ticked(mating[c]) ELSE mating[c]]
    /\ life' = [c \in Creature |-> IF c \in here \ Aged THEN Ticked(life[c]) ELSE life[c]]
    /\ UNCHANGED <<here, born, npcs, tags, larder, staged>>

\* world_chunk_query_entities finds nothing for a creature the tracker has
\* forgotten.
Seen(c, things) == IF c \in tracked THEN things \ {c} ELSE {}

\* Mutant: eaten up, but not despawned.
EatenUp_Left(bites) == {}

\* The stacks the bites use up; item_despawn takes them out of the tracker.
EatenUp(bites) == {f \in bites : qty[f] = 1}

\* A bite of everything in reach; who sees no food out of reach dies, also
\* when he has just eaten.
CreatureSeekFood(c, near, bites) ==
    /\ stage = "food" /\ c \in todo
    /\ near \subseteq Seen(c, lying)
    /\ todo' = todo \ {c}
    /\ qty' = [f \in Food |-> IF f \in bites THEN IF qty[f] = 0 THEN MaxQty ELSE qty[f] - 1
                              ELSE qty[f]]
    /\ lying' = lying \ EatenUp(bites)
    /\ meals' = meals + Cardinality(bites)
    /\ IF bites # {}
       THEN /\ hunger' = [hunger EXCEPT ![c] = FoodSatisfies]
            /\ willEat' = willEat \ {c}
       ELSE UNCHANGED <<hunger, willEat>>
    /\ IF near = bites
       THEN /\ doomed' = doomed \cup {c}
            /\ tracked' = Untracked({c})
       ELSE UNCHANGED <<doomed, tracked>>
    /\ UNCHANGED <<stage, here, born, mating, life, npcs, tags, served, willCourt, staged>>

StartCourting ==
    /\ stage = "food" /\ todo = {}
    /\ stage' = "mates" /\ todo' = courting \ hungry
    /\ UNCHANGED <<body, tags, larder, deferred>>

\* Mutant: the partner goes on seeking, and so does the one who found him.
Matched_None(c, mates) == {}

\* Those who stop seeking a companion.
Matched(c, mates) == mates \cup {c}

\* One child with each companion in reach; who has found one, or sees none
\* out of reach, is satisfied for a while.  Bound: as many children as there
\* are ids left.
CreatureSeekCompanion(c, near, mates, new) ==
    /\ stage = "mates" /\ c \in todo
    /\ near \subseteq Seen(c, tracked \cap courting)
    /\ Cardinality(new) = Least(Cardinality(mates), Cardinality(Creature \ born))
    /\ todo' = todo \ {c}
    /\ LET over == mates # {} \/ near = {}
       IN  /\ willCourt' = IF over THEN willCourt \ Matched(c, mates) ELSE willCourt
           /\ Newborns(new)
           /\ Calmed(IF over THEN {c} ELSE {}, new)
    /\ staged' = staged \cup new
    /\ UNCHANGED <<stage, here, hunger, npcs, tags, larder, willEat, doomed>>

Merge ==
    /\ stage = "mates" /\ todo = {}
    /\ stage' = "net"
    /\ here' = (here \cup staged) \ doomed
    /\ hungry' = willEat \ doomed /\ courting' = willCourt \ doomed
    /\ willEat' = willEat \ doomed /\ willCourt' = willCourt \ doomed
    /\ staged' = {} /\ doomed' = {}
    /\ UNCHANGED <<todo, born, hunger, mating, life, tracked, npcs, larder>>

----------------------------------------------------------------------------
Init ==
    /\ stage = "net" /\ todo = {}
    /\ here = {} /\ born = {} /\ tracked = {} /\ npcs = {}
    /\ hunger = [c \in Creature |-> 0]
    /\ mating = [c \in Creature |-> 0]
    /\ life = [c \in Creature |-> 0]
    /\ hungry = {} /\ courting = {}
    /\ lying = {} /\ served = {} /\ qty = [f \in Food |-> 0] /\ meals = 0
    /\ willEat = {} /\ willCourt = {} /\ staged = {} /\ doomed = {}

Systems ==
    \/ CreatureCheckNeeds
    \/ \E c \in todo, near \in SUBSET lying :
         \E bites \in SUBSET near : CreatureSeekFood(c, near, bites)
    \/ StartCourting
    \/ \E c \in todo, near \in SUBSET courting :
         \E mates \in SUBSET near, new \in SUBSET (Creature \ born) : CreatureSeekCompanion(c, near, mates, new)
    \/ Merge

Next ==
    \/ Systems
    \/ \E new \in SUBSET (Creature \ born) : ActSpawnDemoNPCs(new)
    \/ ActDespawnDemoNPCs
    \/ \E f \in Food : Serve(f) \/ Take(f)

Spec == Init /\ [][Next]_vars

\* game_run keeps calling world_update, and the tick timer keeps elapsing.
FairSpec == Spec /\ WF_vars(Systems)
----------------------------------------------------------------------------
(* Properties                                                              *)

TypeOK ==
    /\ stage \in {"net", "food", "mates"} /\ todo \subseteq here
    /\ here \subseteq born /\ born \subseteq Creature
    /\ hunger \in [Creature -> Nat] /\ mating \in [Creature -> Nat] /\ life \in [Creature -> Nat]
    /\ hungry \subseteq here /\ courting \subseteq here
    /\ willEat \subseteq here /\ willCourt \subseteq here
    /\ tracked \subseteq (here \cup staged) \ doomed
    /\ lying \subseteq served /\ served \subseteq Food
    /\ qty \in [Food -> 0 .. MaxQty] /\ meals \in Nat
    /\ npcs \subseteq born
    /\ staged \subseteq born \ here /\ doomed \subseteq here

\* Between frames the tags agree with the counters: whoever seeks food is
\* hungry, whoever seeks a companion is not satisfied, although counters
\* change at once and tags at the merge, and one creature takes the tag of
\* another away.
SeekersNeed ==
    stage = "net" => /\ \A c \in hungry : hunger[c] = 0
                     /\ \A c \in courting : mating[c] = 0

\* Food is eaten once: what has been eaten and what is left is what was
\* served, though several creatures eat of a stack in the frame in which it
\* is used up and its entity lives on to the merge.
EatenOnce ==
    meals + MapThenSumSet(LAMBDA f : qty[f], served) = Serving * Cardinality(served)

\* A child has two living parents: a creature that dies of old age or hunger
\* keeps its components to the merge, but nobody mates with it.
TwoLivingParents ==
    [][~(staged' \subseteq staged) => Cardinality(courting \ doomed) >= 2]_vars

\* Nobody lives for ever, hungry or not.
EveryoneDies == \A c \in Creature : (c \in here) ~> (c \notin here)

\* The creatures "die if no food is left" (system_demo.c:99): one that dies
\* looking for food has left none of what it has just eaten of.
DieIfNoFoodIsLeft ==
    [][stage = "food" /\ doomed' # doomed => \A f \in lying' : qty'[f] = qty[f]]_vars
=============================================================================
