--------------------------- MODULE CreaturesProofs ---------------------------
(***************************************************************************)
(* Theorems about Creatures, for every number of creatures and stacks of   *)
(* food and all their counters: tags agree with needs, a stack that is     *)
(* used up is never bitten again, all that has been served has been eaten  *)
(* once or is left, and children have two living parents.                  *)
(***************************************************************************)
EXTENDS Creatures, FiniteSetTheorems, WellFoundedInduction, TLAPS

\* At every point of a frame the tags to come agree with the counters, and
\* between frames they are the tags there are.
TagsAgree ==
    /\ \A c \in willEat : hunger[c] = 0
    /\ \A c \in willCourt : mating[c] = 0
    /\ stage = "net" => hungry = willEat /\ courting = willCourt

\* What the stage says of the commands that are still deferred.
Pending ==
    /\ stage = "net" => todo = {} /\ staged = {} /\ doomed = {}
    /\ stage = "food" => staged = {} /\ todo \subseteq hungry \ courting
    /\ stage = "mates" => todo \subseteq courting \ hungry

\* The tracker lists no stack that has been used up: a bite of one would
\* leave as much as an unsigned quantity can hold.
NoEmptyPlates == \A f \in lying : qty[f] > 0

IInv == TypeOK /\ TagsAgree /\ Pending /\ NoEmptyPlates

USE CreaturesAssumption

LEMMA InitIInv == Init => IInv
  BY DEF Init, IInv, TypeOK, TagsAgree, Pending, NoEmptyPlates

\* What creating creatures does to the state.
LEMMA Birth ==
  ASSUME TypeOK, NEW new \in SUBSET (Creature \ born), Newborns(new)
  PROVE  /\ born' \subseteq Creature /\ born' = born \cup new
         /\ tracked' = tracked \cup new
         /\ life' \in [Creature -> Nat]
  <1>1. PICK span \in [new -> Lives] :
          life' = [c \in Creature |-> IF c \in new THEN span[c] ELSE life[c]]
    BY DEF Newborns
  <1> QED BY <1>1 DEF Newborns, TypeOK

\* What happens to the urge to mate.
LEMMA Calm ==
  ASSUME TypeOK, NEW new \in SUBSET (Creature \ born), NEW calm, Calmed(calm, new)
  PROVE  /\ mating' \in [Creature -> Nat]
         /\ \A c \in Creature \ (calm \cup new) : mating'[c] = mating[c]
  <1>1. PICK mood \in [new -> Moods] :
          mating' = [c \in Creature |-> IF c \in new THEN mood[c]
                                        ELSE IF c \in calm THEN MatingSatisfies ELSE mating[c]]
    BY DEF Calmed
  <1> QED BY <1>1 DEF TypeOK

LEMMA SpawnStep ==
  ASSUME IInv, NEW new \in SUBSET (Creature \ born), ActSpawnDemoNPCs(new)
  PROVE  IInv'
  <1> USE DEF ActSpawnDemoNPCs
  <1>0. TypeOK
    BY DEF IInv
  <1>1. /\ born' \subseteq Creature /\ born' = born \cup new
        /\ tracked' = tracked \cup new /\ life' \in [Creature -> Nat]
    BY <1>0, Birth
  <1>2. /\ mating' \in [Creature -> Nat]
        /\ \A c \in Creature \ new : mating'[c] = mating[c]
    <2>1. \A c \in Creature \ ({} \cup new) : mating'[c] = mating[c]
      BY <1>0, Calm
    <2> QED BY <1>0, <2>1, Calm
  <1>3. TypeOK'
    BY <1>1, <1>2 DEF IInv, TypeOK, tags, larder, deferred, Pending
  <1>4. TagsAgree'
    BY <1>2 DEF IInv, TypeOK, TagsAgree, tags, deferred
  <1>5. Pending' /\ NoEmptyPlates'
    BY DEF IInv, Pending, NoEmptyPlates, tags, larder, deferred
  <1> QED BY <1>3, <1>4, <1>5 DEF IInv

LEMMA DespawnStep == IInv /\ ActDespawnDemoNPCs => IInv'
  <1> SUFFICES ASSUME IInv, ActDespawnDemoNPCs PROVE IInv'
    OBVIOUS
  <1> USE DEF ActDespawnDemoNPCs, IInv
  <1>1. todo' \subseteq here'
    BY DEF TypeOK, Pending, TagsAgree
  <1>2. TypeOK'
    BY <1>1 DEF TypeOK, Pending, larder
  <1>3. TagsAgree'
    BY DEF TypeOK, TagsAgree
  <1>4. Pending' /\ NoEmptyPlates'
    BY DEF Pending, NoEmptyPlates, larder
  <1> QED BY <1>2, <1>3, <1>4

LEMMA FoodStep ==
  ASSUME IInv, NEW f \in Food, Serve(f) \/ Take(f)
  PROVE  IInv'
  <1> USE DEF IInv, body, tags, deferred
  <1>1. CASE Serve(f)
    BY <1>1 DEF Serve, TypeOK, TagsAgree, Pending, NoEmptyPlates
  <1>2. CASE Take(f)
    BY <1>2 DEF Take, TypeOK, TagsAgree, Pending, NoEmptyPlates
  <1> QED BY <1>1, <1>2

LEMMA NeedsStep == IInv /\ CreatureCheckNeeds => IInv'
  <1> SUFFICES ASSUME IInv, CreatureCheckNeeds PROVE IInv'
    OBVIOUS
  <1> USE DEF CreatureCheckNeeds, IInv
  <1>0. \A n \in Nat : Ticked(n) \in Nat /\ (n = 0 => Ticked(n) = 0)
    BY DEF Ticked
  <1>1. Aged \subseteq here /\ Needing(hunger) \subseteq here /\ Needing(mating) \subseteq here
    BY DEF Aged, Needing
  <1>2. /\ \A c \in Needing(hunger) : hunger[c] = 0
        /\ \A c \in Needing(mating) : mating[c] = 0
    BY DEF Needing, TypeOK
  <1>3. hunger' \in [Creature -> Nat] /\ mating' \in [Creature -> Nat] /\ life' \in [Creature -> Nat]
    BY <1>0 DEF TypeOK
  <1>4. TypeOK'
    BY <1>1, <1>3 DEF TypeOK, tags, larder, Pending, Untracked
  <1>5. TagsAgree'
    BY <1>0, <1>1, <1>2 DEF TypeOK, TagsAgree
  <1>6. Pending' /\ NoEmptyPlates'
    BY DEF Pending, NoEmptyPlates, tags, larder
  <1> QED BY <1>4, <1>5, <1>6

LEMMA SeekFoodStep ==
  ASSUME IInv, NEW c \in todo, NEW near \in SUBSET lying, NEW bites \in SUBSET near,
         CreatureSeekFood(c, near, bites)
  PROVE  IInv'
  <1> USE DEF CreatureSeekFood, IInv
  <1>0. c \in here /\ c \in Creature /\ bites \subseteq Food /\ bites \subseteq lying
    BY DEF TypeOK
  <1>1. qty' \in [Food -> 0 .. MaxQty]
    BY DEF TypeOK
  <1>2. \A f \in lying' : qty'[f] > 0
    BY <1>0 DEF TypeOK, NoEmptyPlates, EatenUp
  <1>3. meals' \in Nat
    <2>1. IsFiniteSet(bites)
      BY <1>0, FS_Subset
    <2> QED BY <2>1, FS_CardinalityType DEF TypeOK
  <1>4. /\ hunger' \in [Creature -> Nat] /\ willEat' \subseteq willEat
        /\ \A d \in willEat' : hunger'[d] = 0
    BY <1>0 DEF TypeOK, TagsAgree
  <1>5. doomed' \subseteq here /\ tracked' \subseteq (here \cup staged) \ doomed'
    BY <1>0 DEF TypeOK, Untracked
  <1>6. TypeOK'
    BY <1>1, <1>3, <1>4, <1>5 DEF TypeOK, tags, EatenUp
  <1>7. TagsAgree'
    BY <1>4 DEF TagsAgree, tags
  <1>8. Pending'
    BY DEF Pending, tags
  <1> QED BY <1>2, <1>6, <1>7, <1>8 DEF NoEmptyPlates

LEMMA StartStep == IInv /\ StartCourting => IInv'
  BY DEF StartCourting, IInv, TypeOK, TagsAgree, Pending, NoEmptyPlates,
         body, tags, larder, deferred

LEMMA SeekCompanionStep ==
  ASSUME IInv, NEW c \in todo, NEW near \in SUBSET courting, NEW mates \in SUBSET near,
         NEW new \in SUBSET (Creature \ born), CreatureSeekCompanion(c, near, mates, new)
  PROVE  IInv'
  <1> DEFINE over == mates # {} \/ near = {}
             calm == IF over THEN {c} ELSE {}
  <1> USE DEF IInv
  <1>0. TypeOK /\ c \in here /\ c \in Creature /\ new \cap here = {}
    BY DEF TypeOK
  <1>1. /\ born' \subseteq Creature /\ born' = born \cup new
        /\ tracked' = tracked \cup new /\ life' \in [Creature -> Nat]
    BY <1>0, Birth DEF CreatureSeekCompanion
  <1>2. /\ mating' \in [Creature -> Nat]
        /\ \A d \in Creature \ (calm \cup new) : mating'[d] = mating[d]
    <2>1. Calmed(calm, new)
      BY DEF CreatureSeekCompanion
    <2> QED BY <1>0, <2>1, Calm
  <1>3. willCourt' = IF over THEN willCourt \ (mates \cup {c}) ELSE willCourt
    BY DEF CreatureSeekCompanion, Matched
  <1>4. /\ UNCHANGED <<stage, here, hunger, npcs, hungry, courting, lying, served, qty, meals,
                       willEat, doomed>>
        /\ staged' = staged \cup new /\ todo' = todo \ {c} /\ stage = "mates"
    BY DEF CreatureSeekCompanion, tags, larder
  <1>5. TypeOK'
    BY <1>0, <1>1, <1>2, <1>3, <1>4 DEF TypeOK
  <1>6. TagsAgree'
    BY <1>0, <1>2, <1>3, <1>4 DEF TypeOK, TagsAgree
  <1>7. Pending' /\ NoEmptyPlates'
    BY <1>4 DEF Pending, NoEmptyPlates
  <1> QED BY <1>5, <1>6, <1>7

LEMMA MergeStep == IInv /\ Merge => IInv'
  <1> SUFFICES ASSUME IInv, Merge PROVE IInv'
    OBVIOUS
  <1> USE DEF Merge, IInv
  <1>1. TypeOK'
    BY DEF TypeOK, larder
  <1>2. TagsAgree' /\ Pending' /\ NoEmptyPlates'
    BY DEF TagsAgree, Pending, NoEmptyPlates, larder
  <1> QED BY <1>1, <1>2

LEMMA Step == IInv /\ [Next]_vars => IInv'
  <1> SUFFICES ASSUME IInv, [Next]_vars PROVE IInv'
    OBVIOUS
  <1>1. CASE Systems
    BY <1>1, NeedsStep, SeekFoodStep, StartStep, SeekCompanionStep, MergeStep DEF Systems
  <1>2. CASE \E new \in SUBSET (Creature \ born) : ActSpawnDemoNPCs(new)
    BY <1>2, SpawnStep
  <1>3. CASE ActDespawnDemoNPCs
    BY <1>3, DespawnStep
  <1>4. CASE \E f \in Food : Serve(f) \/ Take(f)
    BY <1>4, FoodStep
  <1>5. CASE UNCHANGED vars
    BY <1>5 DEF vars, body, tags, larder, deferred, IInv, TypeOK, TagsAgree, Pending, NoEmptyPlates
  <1> QED BY <1>1, <1>2, <1>3, <1>4, <1>5 DEF Next

\* The invariant holds throughout.
THEOREM Invariance == Spec => []IInv
  BY InitIInv, Step, PTL DEF Spec

\* Every behaviour of Creatures keeps its variables in their types.
THEOREM TypeCorrect == Spec => []TypeOK
  <1>1. IInv => TypeOK
    BY DEF IInv
  <1> QED BY <1>1, Invariance, PTL

\* Creatures that seek food are hungry and creatures that seek a companion
\* are not satisfied.
THEOREM TagsFollowNeeds == Spec => []SeekersNeed
  <1>1. IInv => SeekersNeed
    BY DEF IInv, TagsAgree, SeekersNeed
  <1> QED BY <1>1, Invariance, PTL

\* No stack is bitten after its last unit, so no quantity wraps around.
THEOREM NoBiteTooMany == Spec => []NoEmptyPlates
  <1>1. IInv => NoEmptyPlates
    BY DEF IInv
  <1> QED BY <1>1, Invariance, PTL

\* Only CreatureSeekCompanion stages anyone, and who mates is known to the
\* tracker, as is his companion.
LEMMA ParentsLive ==
  ASSUME IInv, [Next]_vars, ~(staged' \subseteq staged)
  PROVE  Cardinality(courting \ doomed) >= 2
  <1>1. PICK c \in todo, near \in SUBSET courting :
          \E mates \in SUBSET near, new \in SUBSET (Creature \ born) :
            CreatureSeekCompanion(c, near, mates, new)
    BY DEF Next, Systems, ActSpawnDemoNPCs, ActDespawnDemoNPCs, Serve, Take, CreatureCheckNeeds,
           CreatureSeekFood, StartCourting, Merge, vars, deferred, IInv
  <1>2. PICK mates \in SUBSET near, new \in SUBSET (Creature \ born) :
          CreatureSeekCompanion(c, near, mates, new)
    BY <1>1
  <1>3. mates # {}
    <2> SUFFICES ASSUME mates = {} PROVE FALSE
      OBVIOUS
    <2>1. IsFiniteSet(Creature \ born) /\ IsFiniteSet(new)
      BY FS_Subset
    <2>2. Cardinality(new) = 0
      BY <1>2, <2>1, FS_EmptySet, FS_CardinalityType DEF CreatureSeekCompanion, Least
    <2>3. new = {}
      BY <2>1, <2>2, FS_EmptySet
    <2> QED BY <1>2, <2>3 DEF CreatureSeekCompanion
  <1>4. PICK d \in mates : d \in tracked \cap courting /\ d # c /\ c \in tracked
    BY <1>2, <1>3 DEF CreatureSeekCompanion, Seen
  <1>5. c \in courting
    BY <1>2 DEF CreatureSeekCompanion, IInv, Pending
  <1>6. {c, d} \subseteq courting \ doomed
    BY <1>4, <1>5 DEF IInv, TypeOK
  <1>7. IsFiniteSet(courting \ doomed)
    BY FS_Subset DEF IInv, TypeOK
  <1>8. Cardinality({c, d}) = 2
    <2>1. IsFiniteSet({c}) /\ Cardinality({c}) = 1 /\ {c, d} = {c} \cup {d}
      BY FS_Singleton
    <2>2. Cardinality({c} \cup {d}) = 1 + 1
      BY ONLY <1>4, <2>1, d \notin {c}, FS_AddElement
    <2> QED BY <2>1, <2>2
  <1> QED BY <1>6, <1>7, <1>8, FS_Subset, FS_CardinalityType

\* A child has two living parents.
THEOREM ChildrenHaveParents == Spec => TwoLivingParents
  <1>1. IInv /\ [Next]_vars => [~(staged' \subseteq staged) => Cardinality(courting \ doomed) >= 2]_vars
    BY ParentsLive
  <1> QED BY <1>1, Invariance, PTL DEF Spec, TwoLivingParents

----------------------------------------------------------------------------
(* Sums over the stacks of food                                            *)

\* What holds of a finite set whenever it holds of its proper subsets.
LEMMA SubsetInduction ==
    ASSUME NEW U, IsFiniteSet(U), NEW G \in SUBSET (SUBSET U),
           \A s \in SUBSET U : (\A t \in SUBSET s : t # s => t \in G) => s \in G
    PROVE  G = SUBSET U
  <1> DEFINE R == StrictSubsetOrdering(U)
             T == (SUBSET U) \ G
  <1> SUFFICES ASSUME T # {} PROVE FALSE
    OBVIOUS
  <1>1. T \subseteq FiniteSubsetsOf(U)
    BY FS_Subset DEF FiniteSubsetsOf
  <1>2. PICK s \in T : \A t \in T : ~(<<t, s>> \in R)
    <2>1. IsWellFoundedOn(R, FiniteSubsetsOf(U))
      BY FS_StrictSubsetOrderingWellFounded
    <2> HIDE DEF R, T
    <2> QED
      BY <1>1, <2>1, WFMin
  <1>3. ASSUME NEW t \in SUBSET s, t # s PROVE t \in G
    <2>1. t \in SUBSET U /\ s \in SUBSET U
      OBVIOUS
    <2> QED
      BY <1>2, <1>3, <2>1 DEF StrictSubsetOrdering
  <1> QED
    BY <1>2, <1>3

\* sum gives every subset of U the sum of the values g has on it.
Pick(s) == CHOOSE x \in s : TRUE
Sums(g, U, sum) ==
    /\ sum \in [SUBSET U -> Int]
    /\ \A s \in SUBSET U :
           sum[s] = IF s = {} THEN 0 ELSE g[Pick(s)] + sum[s \ {Pick(s)}]

LEMMA SumFound ==
    ASSUME NEW U, IsFiniteSet(U), NEW g \in [U -> Int]
    PROVE  \E sum : Sums(g, U, sum)
  <1> DEFINE Right(sum, n) ==
                 \A s \in SUBSET U : Cardinality(s) <= n =>
                     sum[s] = IF s = {} THEN 0 ELSE g[Pick(s)] + sum[s \ {Pick(s)}]
             G == {u \in SUBSET U : \E sum \in [SUBSET U -> Int] : Right(sum, Cardinality(u))}
  <1>1. \A s \in SUBSET U : IsFiniteSet(s) /\ Cardinality(s) \in Nat
    BY FS_Subset, FS_CardinalityType
  <1>2. ASSUME NEW u \in SUBSET U, \A t \in SUBSET u : t # u => t \in G PROVE u \in G
    <2>1. CASE u = {}
      <3> DEFINE sum == [s \in SUBSET U |-> 0]
      <3>1. \A s \in SUBSET U : Cardinality(s) <= Cardinality(u) => s = {}
        BY <1>1, <2>1, FS_EmptySet
      <3>2. sum \in [SUBSET U -> Int] /\ Right(sum, Cardinality(u))
        BY <3>1
      <3> QED
        BY <3>2
    <2>2. CASE u # {}
      <3>1. PICK x \in u : TRUE
        BY <2>2
      <3>2. u \ {x} \in SUBSET U /\ Cardinality(u \ {x}) = Cardinality(u) - 1
        BY <1>1, <3>1, FS_RemoveElement
      <3>3. PICK old \in [SUBSET U -> Int] : Right(old, Cardinality(u) - 1)
        <4>1. u \ {x} \in G
          BY <1>2, <3>1
        <4> QED
          BY <3>2, <4>1
      <3> DEFINE sum == [s \in SUBSET U |-> IF s = {} THEN 0
                                            ELSE g[Pick(s)] + old[s \ {Pick(s)}]]
      <3>4. ASSUME NEW s \in SUBSET U, s # {}
            PROVE  /\ Pick(s) \in s /\ s \ {Pick(s)} \in SUBSET U /\ g[Pick(s)] \in Int
                   /\ Cardinality(s \ {Pick(s)}) = Cardinality(s) - 1
        <4>1. Pick(s) \in s
          BY <3>4 DEF Pick
        <4> QED
          BY <1>1, <4>1, FS_RemoveElement
      <3>5. sum \in [SUBSET U -> Int]
        <4>1. ASSUME NEW s \in SUBSET U, s # {} PROVE g[Pick(s)] + old[s \ {Pick(s)}] \in Int
          <5>1. old[s \ {Pick(s)}] \in Int /\ g[Pick(s)] \in Int
            BY <3>4, <4>1
          <5> QED
            BY <5>1
        <4> QED
          BY <4>1
      <3>6. ASSUME NEW s \in SUBSET U, Cardinality(s) <= Cardinality(u) - 1 PROVE sum[s] = old[s]
        BY <3>3, <3>6
      <3>7. ASSUME NEW s \in SUBSET U, Cardinality(s) <= Cardinality(u)
            PROVE  sum[s] = IF s = {} THEN 0 ELSE g[Pick(s)] + sum[s \ {Pick(s)}]
        <4>1. CASE s # {}
          <5>1. Cardinality(s \ {Pick(s)}) <= Cardinality(u) - 1
            BY <1>1, <3>4, <3>7, <4>1
          <5> QED
            BY <3>4, <3>6, <4>1, <5>1
        <4> QED
          BY <4>1
      <3> HIDE DEF sum
      <3> QED
        BY <3>5, <3>7
    <2> QED
      BY <2>1, <2>2
  <1> HIDE DEF G
  <1>3. G = SUBSET U
    <2>1. G \in SUBSET (SUBSET U)
      BY DEF G
    <2> QED
      BY <1>2, <2>1, SubsetInduction
  <1>4. PICK sum \in [SUBSET U -> Int] : Right(sum, Cardinality(U))
    <2>1. U \in G
      BY <1>3
    <2> QED
      BY <2>1 DEF G
  <1>5. \A s \in SUBSET U : Cardinality(s) <= Cardinality(U)
    BY FS_Subset
  <1> QED
    BY <1>4, <1>5 DEF Sums

\* The order of the sum does not matter.
LEMMA SumSplit ==
    ASSUME NEW U, IsFiniteSet(U), NEW g \in [U -> Int], NEW sum, Sums(g, U, sum),
           NEW s \in SUBSET U, NEW x \in s
    PROVE  sum[s] = g[x] + sum[s \ {x}]
  <1> DEFINE G == {u \in SUBSET U : \A y \in u : sum[u] = g[y] + sum[u \ {y}]}
  <1>1. ASSUME NEW u \in SUBSET U, \A t \in SUBSET u : t # u => t \in G PROVE u \in G
    <2> SUFFICES ASSUME NEW y \in u PROVE sum[u] = g[y] + sum[u \ {y}]
      OBVIOUS
    <2>1. PICK c \in u : c = Pick(u) /\ sum[u] = g[c] + sum[u \ {c}]
      BY DEF Pick, Sums
    <2>2. CASE c = y
      BY <2>1, <2>2
    <2>3. CASE c # y
      <3>1. u \ {c} \in G /\ u \ {y} \in G
        BY <1>1
      <3>2. PICK r \in SUBSET U : r = (u \ {c}) \ {y} /\ r = (u \ {y}) \ {c}
        OBVIOUS
      <3>3. sum[u \ {c}] = g[y] + sum[r]
        BY <2>3, <3>1, <3>2
      <3>4. sum[u \ {y}] = g[c] + sum[r]
        BY <2>3, <3>1, <3>2
      <3>5. sum[r] \in Int /\ g[c] \in Int /\ g[y] \in Int
        BY DEF Sums
      <3> QED
        BY <2>1, <3>3, <3>4, <3>5
    <2> QED
      BY <2>2, <2>3
  <1> HIDE DEF G
  <1>2. G = SUBSET U
    <2>1. G \in SUBSET (SUBSET U)
      BY DEF G
    <2> QED
      BY <1>1, <2>1, SubsetInduction
  <1> QED
    BY <1>2 DEF G

\* The sum depends on the values alone.
LEMMA SumSame ==
    ASSUME NEW U, IsFiniteSet(U), NEW g, NEW h, NEW sum, NEW tot,
           Sums(g, U, sum), Sums(h, U, tot),
           NEW s \in SUBSET U, \A x \in s : g[x] = h[x]
    PROVE  sum[s] = tot[s]
  <1> DEFINE G == {u \in SUBSET U : u \subseteq s => sum[u] = tot[u]}
  <1>1. ASSUME NEW u \in SUBSET U, \A t \in SUBSET u : t # u => t \in G PROVE u \in G
    <2>1. CASE u = {}
      BY <2>1 DEF Sums
    <2>2. CASE u # {}
      <3>1. PICK c \in u : c = Pick(u)
        BY <2>2 DEF Pick
      <3>2. sum[u] = g[c] + sum[u \ {c}]
        BY <2>2, <3>1 DEF Sums
      <3>3. tot[u] = h[c] + tot[u \ {c}]
        BY <2>2, <3>1 DEF Sums
      <3>4. u \ {c} \in G
        BY <1>1
      <3> QED
        BY <3>2, <3>3, <3>4
    <2> QED
      BY <2>1, <2>2
  <1> HIDE DEF G
  <1>2. G = SUBSET U
    <2>1. G \in SUBSET (SUBSET U)
      BY DEF G
    <2> QED
      BY <1>1, <2>1, SubsetInduction
  <1> QED
    BY <1>2 DEF G

\* What solves the recursion of a fold is the sum.
LEMMA ChosenSum ==
    ASSUME NEW U, IsFiniteSet(U), NEW g \in [U -> Int], NEW it,
           it = [s \in SUBSET U |-> IF s = {} THEN 0 ELSE g[Pick(s)] + it[s \ {Pick(s)}]]
    PROVE  Sums(g, U, it)
  <1>1. PICK sum : Sums(g, U, sum)
    BY SumFound
  <1> DEFINE G == {u \in SUBSET U : sum[u] = it[u]}
  <1>2. ASSUME NEW u \in SUBSET U, \A t \in SUBSET u : t # u => t \in G PROVE u \in G
    <2>1. it[u] = IF u = {} THEN 0 ELSE g[Pick(u)] + it[u \ {Pick(u)}]
      OBVIOUS
    <2>2. sum[u] = IF u = {} THEN 0 ELSE g[Pick(u)] + sum[u \ {Pick(u)}]
      BY <1>1 DEF Sums
    <2>3. u # {} => u \ {Pick(u)} \in SUBSET u /\ u \ {Pick(u)} # u
      BY DEF Pick
    <2> QED
      BY <1>2, <2>1, <2>2, <2>3
  <1> HIDE DEF G
  <1>3. G = SUBSET U
    <2>1. G \in SUBSET (SUBSET U)
      BY DEF G
    <2> QED
      BY <1>2, <2>1, SubsetInduction
  <1>4. \A s \in SUBSET U : it[s] = sum[s]
    BY <1>3 DEF G
  <1>5. sum \in [SUBSET U -> Int]
    BY <1>1 DEF Sums
  <1>6. it = sum
    <2>1. it = [s \in SUBSET U |-> it[s]]
      OBVIOUS
    <2>2. sum = [s \in SUBSET U |-> sum[s]]
      BY <1>5
    <2> QED
      BY <1>4, <2>1, <2>2
  <1> QED
    BY <1>1, <1>6

\* What a set of stacks holds is such a sum.
Total(q, S) == MapThenSumSet(LAMBDA f : q[f], S)

LEMMA TotalSum ==
    ASSUME NEW S, IsFiniteSet(S), NEW q, \A f \in S : q[f] \in Int
    PROVE  \E g, sum : /\ g \in [S -> Int] /\ \A f \in S : g[f] = q[f]
                       /\ Sums(g, S, sum) /\ Total(q, S) = sum[S]
  <1> DEFINE Iter(it) == [s \in SUBSET S |->
                 IF s = {} THEN 0
                 ELSE q[CHOOSE x \in s : TRUE] + it[s \ {CHOOSE x \in s : TRUE}]]
             Solved(g, it) == [s \in SUBSET S |->
                 IF s = {} THEN 0 ELSE g[Pick(s)] + it[s \ {Pick(s)}]]
  <1>1. PICK g \in [S -> Int] : \A f \in S : g[f] = q[f]
    <2>1. [f \in S |-> q[f]] \in [S -> Int]
      OBVIOUS
    <2> QED
      BY <2>1
  <1>2. Total(q, S) = (CHOOSE it : it = Iter(it))[S]
    BY DEF Total, MapThenSumSet, MapThenFoldSet
  <1>3. ASSUME NEW it PROVE Iter(it) = Solved(g, it)
    <2>1. \A s \in SUBSET S : s # {} => g[Pick(s)] = q[Pick(s)]
      BY <1>1 DEF Pick
    <2> QED
      BY <2>1 DEF Pick
  <1>4. PICK sum : Sums(g, S, sum)
    BY SumFound
  <1>5. sum = Iter(sum)
    <2>1. sum = Solved(g, sum)
      BY <1>4 DEF Sums
    <2> HIDE DEF Iter, Solved
    <2> QED
      BY <1>3, <2>1
  <1> HIDE DEF Iter
  <1>6. PICK it : it = (CHOOSE jt : jt = Iter(jt)) /\ it = Iter(it)
    BY <1>5
  <1>7. it = Solved(g, it)
    BY <1>3, <1>6
  <1>8. Sums(g, S, it)
    BY <1>7, ChosenSum
  <1> QED
    BY <1>1, <1>2, <1>6, <1>8

\* A part of what is summed can be summed by itself.
LEMMA SumPart ==
    ASSUME NEW U, IsFiniteSet(U), NEW g, NEW sum, Sums(g, U, sum),
           NEW V \in SUBSET U, NEW h, NEW tot, Sums(h, V, tot), \A x \in V : g[x] = h[x]
    PROVE  sum[V] = tot[V]
  <1> DEFINE part == [s \in SUBSET V |-> sum[s]]
  <1>1. Sums(g, V, part)
    BY DEF Sums, Pick
  <1>2. IsFiniteSet(V) /\ V \in SUBSET V
    BY FS_Subset
  <1>3. part[V] = tot[V]
    <2> HIDE DEF part
    <2> QED
      BY <1>1, <1>2, SumSame
  <1> QED
    BY <1>2, <1>3

\* Nothing is left of no stacks.
LEMMA TotalEmpty == ASSUME NEW q PROVE Total(q, {}) = 0
  <1>1. PICK g, sum : Sums(g, {}, sum) /\ Total(q, {}) = sum[{}]
    <2>1. IsFiniteSet({}) /\ \A f \in {} : q[f] \in Int
      BY FS_EmptySet
    <2> QED
      BY <2>1, TotalSum
  <1> QED
    BY <1>1 DEF Sums

\* A stack is served: the others hold what they held.
LEMMA TotalServed ==
    ASSUME NEW S, IsFiniteSet(S), NEW f, f \notin S, NEW p, NEW q,
           \A x \in S : q[x] \in Int /\ p[x] = q[x], p[f] \in Int
    PROVE  Total(p, S \cup {f}) = Total(q, S) + p[f]
  <1>1. PICK U : U = S \cup {f} /\ IsFiniteSet(U) /\ U \ {f} = S /\ f \in U /\ S \in SUBSET U
    <2>1. IsFiniteSet(S \cup {f}) /\ (S \cup {f}) \ {f} = S
      BY FS_AddElement
    <2> QED
      BY <2>1
  <1>2. PICK g, sum : /\ g \in [U -> Int] /\ \A x \in U : g[x] = p[x]
                      /\ Sums(g, U, sum) /\ Total(p, U) = sum[U]
    BY <1>1, TotalSum
  <1>3. PICK h, tot : /\ h \in [S -> Int] /\ \A x \in S : h[x] = q[x]
                      /\ Sums(h, S, tot) /\ Total(q, S) = tot[S]
    BY TotalSum
  <1>4. sum[U] = g[f] + sum[S]
    <2>1. U \in SUBSET U /\ f \in U
      BY <1>1
    <2>2. sum[U] = g[f] + sum[U \ {f}]
      <3>1. IsFiniteSet(U) /\ g \in [U -> Int] /\ Sums(g, U, sum)
        BY <1>1, <1>2
      <3> QED
        BY ONLY <2>1, <3>1, SumSplit
    <2> QED
      BY <1>1, <2>2
  <1>5. sum[S] = tot[S]
    <2>1. \A x \in S : g[x] = h[x]
      BY <1>1, <1>2, <1>3
    <2> QED
      BY <1>1, <1>2, <1>3, <2>1, SumPart
  <1>6. tot[S] \in Int
    BY <1>3 DEF Sums
  <1> QED
    BY <1>1, <1>2, <1>3, <1>4, <1>5, <1>6

\* Of some stacks a unit is eaten.
LEMMA TotalEaten ==
    ASSUME NEW S, IsFiniteSet(S), NEW B \in SUBSET S, NEW p, NEW q,
           \A x \in S : q[x] \in Int /\ p[x] = IF x \in B THEN q[x] - 1 ELSE q[x]
    PROVE  Total(p, S) = Total(q, S) - Cardinality(B)
  <1>1. PICK g, sum : /\ g \in [S -> Int] /\ \A x \in S : g[x] = p[x]
                      /\ Sums(g, S, sum) /\ Total(p, S) = sum[S]
    BY TotalSum
  <1>2. PICK h, tot : /\ h \in [S -> Int] /\ \A x \in S : h[x] = q[x]
                      /\ Sums(h, S, tot) /\ Total(q, S) = tot[S]
    BY TotalSum
  <1> DEFINE G == {u \in SUBSET S : sum[u] = tot[u] - Cardinality(u \cap B)}
  <1>3. ASSUME NEW u \in SUBSET S, \A t \in SUBSET u : t # u => t \in G PROVE u \in G
    <2>1. CASE u = {}
      <3>1. sum[u] = 0
        BY <1>1, <2>1 DEF Sums
      <3>2. tot[u] = 0
        BY <1>2, <2>1 DEF Sums
      <3>3. u \cap B = {} /\ Cardinality({}) = 0
        BY <2>1, FS_EmptySet
      <3>4. Cardinality(u \cap B) = 0
        BY <3>3
      <3> QED
        BY <3>1, <3>2, <3>4
    <2>2. CASE u # {}
      <3>1. PICK c \in u : c = Pick(u)
        BY <2>2 DEF Pick
      <3>2. PICK v \in SUBSET S : v = u \ {c}
        OBVIOUS
      <3>3. sum[u] = g[c] + sum[v] /\ tot[u] = h[c] + tot[v]
        BY <1>1, <1>2, <2>2, <3>1, <3>2 DEF Sums
      <3>4. sum[v] = tot[v] - Cardinality(v \cap B)
        BY <1>3, <3>2
      <3>5. g[c] = (IF c \in B THEN h[c] - 1 ELSE h[c]) /\ h[c] \in Int /\ tot[v] \in Int
        BY <1>1, <1>2 DEF Sums
      <3>6. IsFiniteSet(v \cap B) /\ Cardinality(v \cap B) \in Nat
        BY FS_Subset, FS_CardinalityType
      <3>7. CASE c \in B
        <4>1. u \cap B = (v \cap B) \cup {c} /\ c \notin v \cap B
          BY <3>2, <3>7
        <4>2. Cardinality(u \cap B) = Cardinality(v \cap B) + 1
          BY <3>6, <4>1, FS_AddElement
        <4> QED
          BY <3>3, <3>4, <3>5, <3>6, <3>7, <4>2
      <3>8. CASE c \notin B
        <4>1. u \cap B = v \cap B
          BY <3>2, <3>8
        <4>2. Cardinality(u \cap B) = Cardinality(v \cap B)
          BY <4>1
        <4>3. sum[u] = tot[u] - Cardinality(v \cap B)
          BY <3>3, <3>4, <3>5, <3>6, <3>8
        <4> QED
          BY <4>2, <4>3
      <3> QED
        BY <3>7, <3>8
    <2> QED
      BY <2>1, <2>2
  <1> HIDE DEF G
  <1>4. G = SUBSET S
    <2>1. G \in SUBSET (SUBSET S)
      BY DEF G
    <2> QED
      BY <1>3, <2>1, SubsetInduction
  <1>5. sum[S] = tot[S] - Cardinality(S \cap B)
    BY <1>4 DEF G
  <1>6. S \cap B = B
    OBVIOUS
  <1> QED
    BY <1>1, <1>2, <1>5, <1>6

----------------------------------------------------------------------------
(* Food is eaten once                                                      *)

Eaten == meals + Total(qty, served) = Serving * Cardinality(served)

LEMMA EatenTotal == EatenOnce <=> Eaten
  BY DEF EatenOnce, Eaten, Total, MapThenSumSet, MapThenFoldSet

\* The sums are numbers.
LEMMA Larder ==
    ASSUME TypeOK
    PROVE  /\ IsFiniteSet(served) /\ Cardinality(served) \in Nat /\ Total(qty, served) \in Int
           /\ \A f \in served : qty[f] \in Int
  <1>1. IsFiniteSet(served)
    BY FS_Subset DEF TypeOK
  <1>2. \A f \in served : qty[f] \in Int
    BY DEF TypeOK
  <1>3. PICK g, sum : Sums(g, served, sum) /\ Total(qty, served) = sum[served]
    BY <1>1, <1>2, TotalSum
  <1> QED
    BY <1>1, <1>2, <1>3, FS_CardinalityType DEF Sums

\* What is served is added to what is there.
LEMMA ServeEaten == ASSUME TypeOK, Eaten, NEW f \in Food, Serve(f) PROVE Eaten'
  <1>1. Total(qty', served') = Total(qty, served) + Serving
    <2>1. f \notin served /\ qty'[f] = Serving /\ \A x \in served : qty'[x] = qty[x]
      BY DEF Serve, TypeOK
    <2>2. Total(qty', served \cup {f}) = Total(qty, served) + qty'[f]
      BY <2>1, Larder, TotalServed
    <2> QED
      BY <2>1, <2>2 DEF Serve
  <1>2. Cardinality(served') = Cardinality(served) + 1
    BY Larder, FS_AddElement DEF Serve
  <1>3. Serving * (Cardinality(served) + 1) = Serving * Cardinality(served) + Serving
    BY Larder
  <1> QED
    BY <1>1, <1>2, <1>3, Larder DEF Eaten, Serve, TypeOK

\* A creature eats a unit of every stack it bites, as none of them is empty.
LEMMA BitesEaten ==
    ASSUME TypeOK, NoEmptyPlates, Eaten, NEW c \in todo, NEW near \in SUBSET lying,
           NEW bites \in SUBSET near, CreatureSeekFood(c, near, bites)
    PROVE  Eaten'
  <1>1. bites \subseteq served /\ bites \subseteq lying
    BY DEF TypeOK
  <1>2. \A f \in served : qty'[f] = IF f \in bites THEN qty[f] - 1 ELSE qty[f]
    BY <1>1 DEF CreatureSeekFood, TypeOK, NoEmptyPlates
  <1>3. Total(qty', served) = Total(qty, served) - Cardinality(bites)
    BY <1>1, <1>2, Larder, TotalEaten
  <1>4. Cardinality(bites) \in Nat
    BY <1>1, Larder, FS_Subset, FS_CardinalityType
  <1> QED
    BY <1>3, <1>4, Larder DEF Eaten, CreatureSeekFood, TypeOK

\* Every step keeps the account.
LEMMA EatenStep == IInv /\ Eaten /\ [Next]_vars => Eaten'
  <1> SUFFICES ASSUME TypeOK, NoEmptyPlates, Eaten, [Next]_vars PROVE Eaten'
    BY DEF IInv
  <1>1. ASSUME UNCHANGED <<meals, qty, served>> PROVE Eaten'
    BY <1>1 DEF Eaten
  <1>2. CASE \E f \in Food : Serve(f) \/ Take(f)
    BY <1>1, <1>2, ServeEaten DEF Take
  <1>3. CASE Systems
    <2>1. CASE CreatureCheckNeeds \/ StartCourting \/ Merge
      BY <1>1, <2>1 DEF CreatureCheckNeeds, StartCourting, Merge, larder
    <2>2. ASSUME NEW c \in todo, NEW near \in SUBSET courting, NEW mates \in SUBSET near,
                 NEW new \in SUBSET (Creature \ born), CreatureSeekCompanion(c, near, mates, new)
          PROVE  Eaten'
      BY <1>1, <2>2 DEF CreatureSeekCompanion, larder
    <2> QED
      BY <1>3, <2>1, <2>2, BitesEaten DEF Systems
  <1>4. ASSUME NEW new, ActSpawnDemoNPCs(new) \/ ActDespawnDemoNPCs \/ UNCHANGED vars PROVE Eaten'
    BY <1>1, <1>4 DEF ActSpawnDemoNPCs, ActDespawnDemoNPCs, vars, larder
  <1> QED
    BY <1>2, <1>3, <1>4 DEF Next

\* What has been eaten and what is left is what was served, whoever bites
\* into a stack in the frame in which it is used up.
THEOREM FoodIsEatenOnce == Spec => []EatenOnce
  <1>1. Init => Eaten
    BY TotalEmpty, FS_EmptySet DEF Init, Eaten
  <1>2. Eaten => EatenOnce
    BY EatenTotal
  <1> QED
    BY <1>1, <1>2, EatenStep, Invariance, PTL DEF Spec
=============================================================================
