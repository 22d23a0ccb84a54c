--------------------------- MODULE SurvivalProofs ---------------------------
(***************************************************************************)
(* Theorems about Survival, for every number of players, mobs and          *)
(* projectiles and every delay and damage: health and the Dead tag agree,  *)
(* the dead are held and wait for their respawn, each death of a mob is    *)
(* counted once, and mobs exceed their cap by a few only.                  *)
(***************************************************************************)
EXTENDS Survival, FiniteSetTheorems, TLAPS

\* What the stage says of the commands that are still deferred.
Pending ==
    /\ stage \in {"net", "regen", "heal", "damage"} => dying = {} /\ staged = {} /\ doomed = {}
    /\ stage \notin {"knife", "hit", "expire", "merge"} => revived = {}
    /\ sandbox => /\ stage \in {"net", "regen", "heal", "damage", "merge"}
                  /\ revived = {} /\ staged = {}
    /\ stage \in {"regen", "heal"} => sandbox

\* Those who are dead once the frame is merged.
Mortal == (dead \cup dying) \ revived

\* At every point of a frame the health tells who will be dead after it.
HpTells ==
    \A e \in here : /\ hp[e] = 0 => e \in Mortal
                    /\ (e \in Mortal /\ ~sandbox) => hp[e] = 0

\* At every point of a frame the dead are blocked, but for those who have
\* just been revived, and wait for their respawn.
Held ==
    /\ \A p \in Player \cap here : p \in blocked <=> p \in dead \ revived
    /\ \A p \in Player : respawn[p] # -1 => p \in dead
    /\ ~sandbox => \A p \in Player \cap dead : respawn[p] # -1
    /\ sandbox => \A p \in Player : respawn[p] = -1

\* The mobs whose death has been counted.
Counted == {m \in Mob \cap born : m \in dead \/ m \notin here \cup staged}
KillsMatch == kills = Cardinality(Counted)

IInv == TypeOK /\ Pending /\ HpTells /\ Held /\ KillsMatch

USE SurvivalAssumption

\* Damage stays within the health of the pawn.
LEMMA HurtRange ==
  ASSUME NEW e \in Pawn, NEW d \in Nat, dmg[e] \in Nat
  PROVE  Hurt(e, d) \in Nat /\ Hurt(e, d) <= Full(e)
  BY DEF Hurt, Least, Full, Pawn

\* A product of naturals is one.
LEMMA Product == ASSUME NEW a \in Nat, NEW b \in Nat PROVE a * b \in Nat
  OBVIOUS

\* The damage of a number of blows is a natural number.
LEMMA Blows ==
  ASSUME NEW d \in Nat, NEW S, IsFiniteSet(S), NEW T, T \subseteq S
  PROVE  d * Cardinality(T) \in Nat
  BY FS_Subset, FS_CardinalityType, Product

\* Before anyone has joined.
LEMMA InitIInv == Init => IInv
  <1> SUFFICES ASSUME Init PROVE IInv
    OBVIOUS
  <1>1. TypeOK
    BY DEF Init, TypeOK, Pawn, Full
  <1>2. Pending /\ HpTells /\ Held
    BY DEF Init, Pending, HpTells, Held
  <1>3. Counted = {}
    BY DEF Init, Counted
  <1>4. KillsMatch
    BY <1>3, FS_EmptySet DEF Init, KillsMatch
  <1> QED
    BY <1>1, <1>2, <1>4 DEF IInv

\* A player who joins: healthy, with an id nobody had.
LEMMA JoinKeeps == ASSUME IInv, NEW p \in Player, Join(p) PROVE IInv'
  <1> USE DEF IInv
  <1>1. TypeOK'
    BY DEF Join, TypeOK, Pawn, Full, mobs, deferred
  <1>2. Pending' /\ HpTells' /\ Held'
    BY DEF Join, TypeOK, Pawn, Full, mobs, deferred, Pending, HpTells, Held, Mortal
  <1>3. Counted' = Counted
    BY DEF Join, TypeOK, mobs, deferred, Counted
  <1> QED
    BY <1>1, <1>2, <1>3 DEF Join, mobs, KillsMatch

\* A player who leaves, dead or alive.
LEMMA QuitKeeps == ASSUME IInv, NEW p \in Player, Quit(p) PROVE IInv'
  <1> USE DEF IInv
  <1>1. TypeOK'
    BY DEF Quit, TypeOK, Pawn, Full, mobs, deferred, Pending
  <1>2. Pending' /\ HpTells' /\ Held'
    BY DEF Quit, TypeOK, Pawn, Full, mobs, deferred, Pending, HpTells, Held, Mortal
  <1>3. Counted' = Counted
    BY DEF Quit, TypeOK, mobs, deferred, Counted
  <1> QED
    BY <1>1, <1>2, <1>3 DEF Quit, mobs, KillsMatch

\* The systems every game has: only ProcessHealthDamage takes health, and it
\* marks exactly those it leaves without any.
LEMMA HealthKeeps ==
  ASSUME IInv, NEW standing \in SUBSET here, NEW due \in BOOLEAN,
         HurtOnHazardBlock(standing) \/ RegenerateHP(due) \/ TickDownHealDelay(due)
  PROVE  IInv'
  <1> USE DEF IInv
  <1>1. UNCHANGED <<Counted, kills>>
    BY DEF HurtOnHazardBlock, RegenerateHP, TickDownHealDelay, entities, health, mobs, deferred, Counted
  <1>2. CASE HurtOnHazardBlock(standing)
    <2>1. \A e \in Pawn : dmg'[e] \in Nat /\ dmg'[e] <= Full(e)
      BY <1>2, HurtRange DEF HurtOnHazardBlock, TypeOK
    <2>2. TypeOK'
      BY <1>2, <2>1 DEF HurtOnHazardBlock, TypeOK, Pawn, Full, entities, players, mobs, deferred
    <2>3. Pending' /\ HpTells' /\ Held'
      BY <1>2 DEF HurtOnHazardBlock, TypeOK, entities, players, mobs, deferred,
                  Pending, HpTells, Held, Mortal
    <2> QED
      BY <1>1, <2>2, <2>3 DEF KillsMatch
  <1>3. CASE RegenerateHP(due)
    <2>1. \A e \in Pawn : hp'[e] \in Nat /\ hp[e] <= hp'[e] /\ hp'[e] <= Full(e)
      BY <1>3 DEF RegenerateHP, TypeOK, Pawn, Full, Least
    <2>2. TypeOK'
      BY <1>3, <2>1 DEF RegenerateHP, TypeOK, Pawn, Full, entities, players, mobs, deferred
    <2>3. HpTells'
      BY <1>3, <2>1 DEF RegenerateHP, TypeOK, entities, deferred, Pending, HpTells, Mortal
    <2>4. Pending' /\ Held'
      BY <1>3 DEF RegenerateHP, TypeOK, entities, players, deferred, Pending, Held
    <2> QED
      BY <1>1, <2>2, <2>3, <2>4 DEF KillsMatch
  <1>4. CASE TickDownHealDelay(due)
    <2>1. TypeOK'
      BY <1>4 DEF TickDownHealDelay, TypeOK, Pawn, Full, Greatest, entities, health, mobs, deferred
    <2>2. Pending' /\ HpTells' /\ Held'
      BY <1>4 DEF TickDownHealDelay, entities, health, mobs, deferred, Pending, HpTells, Held, Mortal
    <2> QED
      BY <1>1, <2>1, <2>2 DEF KillsMatch
  <1> QED
    BY <1>2, <1>3, <1>4

\* Whoever the damage leaves without health is killed, and nobody else.
LEMMA DamageKeeps == ASSUME IInv, ProcessHealthDamage PROVE IInv'
  <1> USE DEF IInv
  <1>1. \A e \in Pawn : hp'[e] = IF e \in Injured THEN HpLeft(e) ELSE hp[e]
    BY DEF ProcessHealthDamage, TypeOK
  <1>2. \A e \in Pawn : /\ hp[e] \in Nat /\ dmg[e] \in Nat /\ hp[e] <= Full(e)
                        /\ HpLeft(e) \in Nat /\ HpLeft(e) <= hp[e]
    BY DEF TypeOK, HpLeft, Greatest
  <1>3. dying' = Killed /\ Killed \subseteq here /\ dying = {} /\ revived = {} /\ revived' = {}
    BY DEF ProcessHealthDamage, Killed, Injured, Pending
  <1>4. TypeOK'
    BY <1>1, <1>2, <1>3 DEF ProcessHealthDamage, TypeOK, Pawn, Full, entities, mobs
  <1>5. HpTells'
    <2> SUFFICES ASSUME NEW e \in here'
                 PROVE  /\ hp'[e] = 0 => e \in Mortal'
                        /\ (e \in Mortal' /\ ~sandbox') => hp'[e] = 0
      BY DEF HpTells
    <2>1. e \in here /\ e \in Pawn /\ dead' = dead /\ sandbox' = sandbox
      BY DEF ProcessHealthDamage, entities, TypeOK
    <2>2. Mortal' = dead \cup Killed /\ Mortal = dead
      BY <1>3, <2>1 DEF Mortal
    <2>3. CASE e \in Injured
      BY <1>1, <1>2, <2>1, <2>2, <2>3 DEF HpTells, Killed
    <2>4. CASE e \notin Injured
      BY <1>1, <2>1, <2>2, <2>4 DEF HpTells, Killed
    <2> QED
      BY <2>3, <2>4
  <1>6. Pending' /\ Held'
    BY <1>3 DEF ProcessHealthDamage, entities, Pending, Held
  <1>7. UNCHANGED <<Counted, kills>>
    BY DEF ProcessHealthDamage, entities, mobs, Counted
  <1> QED
    BY <1>4, <1>5, <1>6, <1>7 DEF KillsMatch

\* What looks for prey, follows it and lets corpses rot.
LEMMA MobsKeep ==
  ASSUME IInv, NEW first \in Tables,
         MobDetectPlayers \/ MobMovement(first) \/ MobDespawnDead
  PROVE  IInv'
  <1> USE DEF IInv
  <1>1. CASE MobDetectPlayers
    <2>1. PICK found \in [Living -> Playing \cup {Nobody}] :
             aim' = [m \in Mob |-> IF m \in Living /\ found[m] # Nobody THEN found[m] ELSE aim[m]]
      BY <1>1 DEF MobDetectPlayers
    <2>2. aim' \in [Mob -> Player \cup {Nobody}]
      BY <2>1 DEF TypeOK, Playing
    <2>3. TypeOK'
      BY <1>1, <2>2 DEF MobDetectPlayers, TypeOK, Pawn, Full, entities, health, players, mobs
    <2>4. Pending' /\ HpTells' /\ Held' /\ KillsMatch'
      BY <1>1 DEF MobDetectPlayers, entities, health, players, mobs,
                  Pending, HpTells, Held, Mortal, KillsMatch, Counted
    <2> QED
      BY <2>3, <2>4
  <1>2. CASE MobMovement(first)
    <2>1. TypeOK'
      BY <1>2 DEF MobMovement, TypeOK, Pawn, Full, entities, health, players, mobs, deferred
    <2>2. Pending' /\ HpTells' /\ Held' /\ KillsMatch'
      BY <1>2 DEF MobMovement, entities, health, players, mobs, deferred,
                  Pending, HpTells, Held, Mortal, KillsMatch, Counted
    <2> QED
      BY <2>1, <2>2
  <1>3. CASE MobDespawnDead
    <2>1. TypeOK'
      BY <1>3 DEF MobDespawnDead, TypeOK, Pawn, Full, Greatest, Corpses, Playing,
                  entities, health, players
    <2>2. Pending' /\ HpTells' /\ Held' /\ KillsMatch'
      BY <1>3 DEF MobDespawnDead, entities, health, players, Pending, HpTells, Held,
                  Mortal, KillsMatch, Counted
    <2> QED
      BY <2>1, <2>2
  <1> QED
    BY <1>1, <1>2, <1>3

\* Bites only add damage; a mob whose prey is dead gives it up.
LEMMA MeleeKeeps ==
  ASSUME IInv, NEW first \in Tables, NEW reach \in SUBSET Mob, MobMeleeAtk(reach, first)
  PROVE  IInv'
  <1> USE DEF IInv
  <1> DEFINE hits(e) == Cardinality({m \in Striking(reach, first) : prey[first[m]] = e})
  <1>1. \A e : MeleeDmg * hits(e) \in Nat
    BY Blows DEF Striking, Hunters, Living
  <1>2. dmg' = [e \in Pawn |-> IF hits(e) > 0 THEN Hurt(e, MeleeDmg * hits(e)) ELSE dmg[e]]
    BY DEF MobMeleeAtk
  <1> HIDE DEF hits
  <1>3. \A e \in Pawn : dmg'[e] \in Nat /\ dmg'[e] <= Full(e)
    BY <1>1, <1>2, HurtRange DEF TypeOK
  <1>4. dmg' \in [Pawn -> Nat]
    BY <1>2, <1>3
  <1>5. atk' \in [Mob -> 0 .. AtkTicks] /\ aim' \in [Mob -> Player \cup {Nobody}]
    BY DEF MobMeleeAtk, TypeOK, Greatest
  <1>6. TypeOK'
    BY <1>3, <1>4, <1>5 DEF MobMeleeAtk, TypeOK, Full, entities, players
  <1>7. Pending' /\ HpTells' /\ Held' /\ KillsMatch'
    BY DEF MobMeleeAtk, entities, players, Pending, HpTells, Held, Mortal, KillsMatch, Counted
  <1> QED
    BY <1>6, <1>7

\* New mobs are staged under ids nobody had.
LEMMA SpawnerKeeps == ASSUME IInv, NEW table \in SUBSET Player, MobSpawner(table) PROVE IInv'
  <1> USE DEF IInv
  <1>1. PICK new \in SUBSET (Mob \ born) : /\ staged' = staged \cup new
                                          /\ born' = born \cup new
    BY DEF MobSpawner
  <1>2. lull' \in 0 .. SpawnTicks
    BY DEF MobSpawner, TypeOK, Greatest
  <1>3. stage' \in {"spawner", "respawn"} /\ stage = "spawner"
    BY DEF MobSpawner
  <1>4. TypeOK'
    BY <1>1, <1>2, <1>3 DEF MobSpawner, TypeOK, Pawn, Full, health, players
  <1>5. Pending' /\ HpTells' /\ Held'
    BY <1>3 DEF MobSpawner, health, players, Pending, HpTells, Held, Mortal
  <1>6. Counted' = Counted
    BY <1>1 DEF MobSpawner, TypeOK, health, Counted
  <1> QED
    BY <1>4, <1>5, <1>6 DEF MobSpawner, KillsMatch

\* The dead whose time has come are healthy and free at once, and no longer
\* dead after the merge.
LEMMA RespawnKeeps ==
  ASSUME IInv, NEW near \in [Player -> SUBSET Living], PlayerRespawn(near)
  PROVE  IInv'
  <1> USE DEF IInv
  <1> DEFINE back == {p \in Player : respawn[p] = 0}
             blasts(m) == Cardinality({p \in back : m \in near[p]})
  <1>1. /\ revived' = back /\ blocked' = blocked \ back
        /\ hp' = [e \in Pawn |-> IF e \in back THEN MaxHp ELSE hp[e]]
        /\ dmg' = [e \in Pawn |-> IF e \in Living THEN Hurt(e, (MobHp \div 2) * blasts(e))
                                  ELSE dmg[e]]
    BY DEF PlayerRespawn
  <1>2. \A m : (MobHp \div 2) * blasts(m) \in Nat
    BY Blows
  <1>3. back \subseteq dead /\ back \subseteq Player /\ revived = {}
    BY DEF Held, PlayerRespawn, Pending
  <1>4. stage = "respawn" /\ stage' = "knife" /\ ~sandbox
    BY DEF PlayerRespawn, Pending
  <1> HIDE DEF back, blasts
  <1>5. \A e \in Pawn : dmg'[e] \in Nat /\ dmg'[e] <= Full(e)
    BY <1>1, <1>2, HurtRange DEF TypeOK
  <1>6. \A e \in Pawn : hp'[e] \in Nat /\ hp'[e] <= Full(e)
    BY <1>1, <1>3 DEF TypeOK, Full
  <1>7. respawn' \in [Player -> -1 .. RespawnTicks]
    BY DEF PlayerRespawn, TypeOK
  <1>8. hp' \in [Pawn -> Nat] /\ dmg' \in [Pawn -> Nat]
    BY <1>1, <1>5, <1>6
  <1>9. TypeOK'
    BY <1>1, <1>3, <1>4, <1>5, <1>6, <1>7, <1>8 DEF PlayerRespawn, TypeOK, Full, entities, mobs
  <1>10. HpTells'
    BY <1>1, <1>3, <1>4 DEF PlayerRespawn, TypeOK, entities, HpTells, Mortal
  <1>11. Held'
    <2>1. \A p \in Player : respawn'[p] # -1 <=> respawn[p] # -1
      BY DEF PlayerRespawn, TypeOK
    <2> QED
      BY <1>1, <1>3, <1>4, <2>1 DEF PlayerRespawn, TypeOK, entities, Held
  <1>12. Pending' /\ KillsMatch'
    BY <1>4 DEF PlayerRespawn, entities, mobs, Pending, KillsMatch, Counted
  <1> QED
    BY <1>9, <1>10, <1>11, <1>12

\* Projectiles come, add damage and go.
LEMMA WeaponsKeep ==
  ASSUME IInv, NEW touched \in [Shot -> SUBSET Pawn], NEW far \in SUBSET (Flying \ thrown),
         WeaponKnifeMechanic \/ WeaponProjectileHit(touched) \/ WeaponProjectileExpire(far)
  PROVE  IInv'
  <1> USE DEF IInv
  <1>1. CASE WeaponKnifeMechanic
    <2> DEFINE armed == {p \in Playing : knife[p] = 0}
    <2>1. PICK throw \in [Shot \ Flying -> armed \cup {Nobody}] :
            /\ owner' = [s \in Shot |-> IF s \in Flying THEN owner[s] ELSE throw[s]]
            /\ thrown' = {s \in Shot \ Flying : throw[s] # Nobody}
            /\ knife' = [p \in Player |-> IF p \in armed THEN KnifeTicks
                                          ELSE IF p \in Playing THEN knife[p] - 1 ELSE knife[p]]
      BY <1>1 DEF WeaponKnifeMechanic
    <2>2. owner' \in [Shot -> Player \cup {Nobody}] /\ thrown' \subseteq Shot
      BY <2>1 DEF TypeOK, Playing, Flying
    <2>3. knife' \in [Player -> 0 .. KnifeTicks]
      BY <2>1 DEF TypeOK
    <2>4. TypeOK'
      BY <1>1, <2>2, <2>3 DEF WeaponKnifeMechanic, TypeOK, Full, Pawn, entities, health, mobs
    <2>5. Pending' /\ HpTells' /\ Held' /\ KillsMatch'
      BY <1>1 DEF WeaponKnifeMechanic, entities, health, mobs,
                  Pending, HpTells, Held, Mortal, KillsMatch, Counted
    <2> QED
      BY <2>4, <2>5
  <1>2. CASE WeaponProjectileHit(touched)
    <2> DEFINE hits(e) ==
          Cardinality({s \in Flying \ thrown : e \in touched[s] \cap Touchable(s)})
    <2>1. \A e : ShotDmg * hits(e) \in Nat
      BY Blows DEF Flying
    <2>2. dmg' = [e \in Pawn |-> IF hits(e) > 0 THEN Hurt(e, ShotDmg * hits(e)) ELSE dmg[e]]
      BY <1>2 DEF WeaponProjectileHit
    <2> HIDE DEF hits
    <2>3. \A e \in Pawn : dmg'[e] \in Nat /\ dmg'[e] <= Full(e)
      BY <2>1, <2>2, HurtRange DEF TypeOK
    <2>4. dmg' \in [Pawn -> Nat]
      BY <2>2, <2>3
    <2>5. doomed' \subseteq (Mob \cap dead) \cup Shot
      BY <1>2 DEF WeaponProjectileHit, TypeOK, Flying
    <2>6. TypeOK'
      BY <1>2, <2>3, <2>4, <2>5 DEF WeaponProjectileHit, TypeOK, Full, entities, players, mobs
    <2>7. Pending' /\ HpTells' /\ Held' /\ KillsMatch'
      BY <1>2 DEF WeaponProjectileHit, entities, players, mobs,
                  Pending, HpTells, Held, Mortal, KillsMatch, Counted
    <2> QED
      BY <2>6, <2>7
  <1>3. CASE WeaponProjectileExpire(far)
    <2>1. TypeOK'
      BY <1>3 DEF WeaponProjectileExpire, TypeOK, Full, Flying, entities, health, players, mobs
    <2>2. Pending' /\ HpTells' /\ Held' /\ KillsMatch'
      BY <1>3 DEF WeaponProjectileExpire, entities, health, players, mobs,
                  Pending, HpTells, Held, Mortal, KillsMatch, Counted
    <2> QED
      BY <2>1, <2>2
  <1> QED
    BY <1>1, <1>2, <1>3

\* The merge makes the dead of the frame dead, holds them and counts them.
LEMMA MergeKeeps == ASSUME IInv, Merge PROVE IInv'
  <1> USE DEF IInv
  <1>1. Fallen \subseteq here /\ Fallen \cap revived = {} /\ Fallen \cap dead = {}
    BY DEF Fallen, TypeOK
  <1>2. /\ staged \cap here = {} /\ staged \subseteq Mob /\ doomed \cap Player = {}
        /\ doomed \cap staged = {} /\ staged \cap Player = {} /\ Shot \cap Mob = {}
    BY DEF TypeOK, Pawn
  <1>3. /\ here' = (here \cup staged) \ doomed
        /\ dead' = Mortal \ doomed
        /\ revived' = {} /\ dying' = {} /\ staged' = {} /\ doomed' = {}
        /\ sandbox' = sandbox /\ born' = born
        /\ hp' = [e \in Pawn |-> IF e \in staged THEN MobHp ELSE IF e \in doomed THEN 0 ELSE hp[e]]
    BY DEF Merge, Mortal
  <1>4. Cardinality(Fallen \cap Mob) \in Nat /\ IsFiniteSet(Fallen \cap Mob)
    BY FS_Subset, FS_CardinalityType
  <1>5. TypeOK'
    <2>1. kills' \in Nat
      BY <1>4 DEF Merge, TypeOK
    <2>2. /\ hp' \in [Pawn -> Nat] /\ dmg' \in [Pawn -> Nat]
          /\ \A e \in Pawn : hp'[e] <= Full(e) /\ dmg'[e] <= Full(e)
      BY <1>2 DEF Merge, TypeOK, Full
    <2>3. dead' \subseteq here' /\ here' \subseteq born'
      BY <1>3 DEF TypeOK, Mortal
    <2>4. blocked' \subseteq Player \cap here'
      BY <1>1, <1>2, <1>3 DEF Merge, TypeOK
    <2>5. /\ prey' \in [Mob -> Player \cup {Nobody}] /\ aim' \in [Mob -> Player \cup {Nobody}]
          /\ atk' \in [Mob -> 0 .. AtkTicks] /\ rot' \in [Mob -> 0 .. CorpseTicks]
          /\ respawn' \in [Player -> -1 .. RespawnTicks]
          /\ owner' \in [Shot -> Player \cup {Nobody}]
      BY DEF Merge, TypeOK
    <2> QED
      BY <1>3, <2>1, <2>2, <2>3, <2>4, <2>5 DEF Merge, TypeOK, Full
  <1>6. Pending'
    BY <1>3 DEF Merge, Pending
  <1>7. HpTells'
    <2> SUFFICES ASSUME NEW e \in here'
                 PROVE  /\ hp'[e] = 0 => e \in Mortal'
                        /\ (e \in Mortal' /\ ~sandbox) => hp'[e] = 0
      BY <1>3 DEF HpTells
    <2>1. Mortal' = Mortal \ doomed /\ e \in Pawn /\ e \notin doomed
      BY <1>3, <1>5 DEF Mortal, TypeOK
    <2>2. CASE e \in staged
      BY <1>2, <1>3, <2>1, <2>2 DEF Mortal, TypeOK
    <2>3. CASE e \notin staged
      BY <1>3, <2>1, <2>3 DEF HpTells
    <2> QED
      BY <2>2, <2>3
  <1>8. Held'
    <2>1. \A p \in Player \cap here' : p \in blocked' <=> p \in dead'
      BY <1>1, <1>2, <1>3 DEF Merge, Held, Mortal, Fallen
    <2>2. \A p \in Player : respawn'[p] = IF p \in Fallen /\ ~sandbox THEN RespawnTicks
                                         ELSE IF p \in revived THEN -1 ELSE respawn[p]
      BY DEF Merge
    <2>3. \A p \in Player : respawn'[p] # -1 => p \in dead'
      BY <1>1, <1>2, <1>3, <2>2 DEF Held, Mortal, Fallen
    <2>4. ~sandbox => \A p \in Player \cap dead' : respawn'[p] # -1
      BY <1>2, <1>3, <2>2 DEF Held, Mortal, Fallen
    <2>5. sandbox => \A p \in Player : respawn'[p] = -1
      BY <2>2 DEF Held
    <2> QED
      BY <1>3, <2>1, <2>3, <2>4, <2>5 DEF Held
  <1>9. KillsMatch'
    <2>1. Counted' = Counted \cup (Fallen \cap Mob) /\ Counted \cap (Fallen \cap Mob) = {}
      BY <1>1, <1>2, <1>3 DEF Counted, Fallen, Mortal, TypeOK
    <2>2. IsFiniteSet(Counted)
      BY FS_Subset DEF Counted
    <2>3. Cardinality(Counted') = Cardinality(Counted) + Cardinality(Fallen \cap Mob)
      <3>1. Cardinality(Counted \cup (Fallen \cap Mob))
              = Cardinality(Counted) + Cardinality(Fallen \cap Mob)
                - Cardinality(Counted \cap (Fallen \cap Mob))
        BY <1>4, <2>2, FS_Union
      <3>2. Cardinality(Counted \cap (Fallen \cap Mob)) = 0
        BY <2>1, FS_EmptySet
      <3> QED
        BY <1>4, <2>1, <2>2, <3>1, <3>2, FS_CardinalityType
    <2> QED
      BY <2>3 DEF Merge, KillsMatch
  <1> QED
    BY <1>5, <1>6, <1>7, <1>8, <1>9

\* Every step keeps the invariant.
LEMMA StepIInv == IInv /\ [Next]_vars => IInv'
  <1> SUFFICES ASSUME IInv, [Next]_vars PROVE IInv'
    OBVIOUS
  <1>1. ASSUME UNCHANGED vars PROVE IInv'
    BY <1>1 DEF vars, entities, health, players, mobs, deferred, IInv, TypeOK, Full,
                Pending, HpTells, Held, Mortal, KillsMatch, Counted
  <1>2. CASE Frame
    <2>2. CASE \E standing \in SUBSET here : HurtOnHazardBlock(standing)
      BY <2>2, HealthKeeps
    <2>3. CASE \E due \in BOOLEAN : RegenerateHP(due) \/ TickDownHealDelay(due)
      BY <2>3, HealthKeeps
    <2>4. CASE ProcessHealthDamage
      BY <2>4, DamageKeeps
    <2>5. CASE MobDetectPlayers \/ MobDespawnDead
      <3>1. [m \in Hunters |-> m] \in Tables
        BY DEF Tables
      <3> QED
        BY <2>5, <3>1, MobsKeep
    <2>6. CASE \E first \in Tables : MobMovement(first)
      BY <2>6, MobsKeep
    <2>7. CASE \E first \in Tables, reach \in SUBSET Mob : MobMeleeAtk(reach, first)
      BY <2>7, MeleeKeeps
    <2>8. CASE \E table \in SUBSET Player : MobSpawner(table)
      BY <2>8, SpawnerKeeps
    <2>9. CASE \E near \in [Player -> SUBSET Living] : PlayerRespawn(near)
      BY <2>9, RespawnKeeps
    <2>10. CASE WeaponKnifeMechanic
      <3>1. [s \in Shot |-> {}] \in [Shot -> SUBSET Pawn] /\ {} \in SUBSET (Flying \ thrown)
        OBVIOUS
      <3> QED
        BY <2>10, <3>1, WeaponsKeep
    <2>11. CASE \E touched \in [Shot -> SUBSET Pawn] : WeaponProjectileHit(touched)
      BY <2>11, WeaponsKeep
    <2>12. CASE \E far \in SUBSET (Flying \ thrown) : WeaponProjectileExpire(far)
      <3>1. [s \in Shot |-> {}] \in [Shot -> SUBSET Pawn]
        OBVIOUS
      <3> QED
        BY <2>12, <3>1, WeaponsKeep
    <2>13. CASE Merge
      BY <2>13, MergeKeeps
    <2> QED
      BY <1>2, <2>2, <2>3, <2>4, <2>5, <2>6, <2>7, <2>8, <2>9, <2>10, <2>11, <2>12, <2>13 DEF Frame
  <1>3. CASE Down
    BY <1>1, <1>3 DEF Down
  <1>4. CASE \E p \in Player : Join(p) \/ Quit(p)
    BY <1>4, JoinKeeps, QuitKeeps
  <1> QED
    BY <1>1, <1>2, <1>3, <1>4 DEF Next

\* Every reachable state satisfies the invariant.
THEOREM Invariance == Spec => []IInv
  BY InitIInv, StepIInv, PTL DEF Spec

\* Types, and what is still deferred lies within them.
THEOREM TypeCorrect == Spec => []TypeOK
  <1>1. IInv => TypeOK
    BY DEF IInv
  <1> QED
    BY Invariance, <1>1, PTL

\* Between frames health and the Dead tag agree, whatever hit whom when.
THEOREM DeadHaveNone == Spec => []DeadHaveNoHp
  <1>1. IInv => DeadHaveNoHp
    BY DEF IInv, TypeOK, Pending, HpTells, Mortal, DeadHaveNoHp
  <1> QED
    BY Invariance, <1>1, PTL

\* Between frames exactly the dead are blocked, and in the survival game
\* exactly they wait for a respawn.
THEOREM DeadHeld == Spec => []DeadAreHeld
  <1>1. IInv => DeadAreHeld
    BY DEF IInv, TypeOK, Pending, Held, DeadAreHeld
  <1> QED
    BY Invariance, <1>1, PTL

\* Every mob that has died has been counted exactly once.
THEOREM DeathsCounted == Spec => []KillsCounted
  <1>1. ASSUME IInv PROVE KillsCounted
    <2> SUFFICES ASSUME stage = "net" PROVE kills = Cardinality(Counted)
      BY <1>1 DEF KillsCounted, Counted, IInv, Pending
    <2> QED
      BY <1>1 DEF IInv, KillsMatch
  <1> QED
    BY Invariance, <1>1, PTL

----------------------------------------------------------------------------
(* The cap on the mobs.  A batch that is complete sets the timer of the    *)
(* spawner, and the timer outlasts the tables of players that are left, so *)
(* at most one call of a frame completes a batch.                          *)

Bound == MaxMobs(kills) + Cardinality(Player) * (Batch(kills) - 1)

\* The tables MobSpawner has been given hold at least so many players.
Served == Cardinality(Player) - Cardinality(todo)

\* What the calls so far have staged: one batch too few at each, and one
\* mob more if a batch was completed and the timer runs.
Filling(n) ==
    \/ n <= Served * (Batch(kills) - 1)
    \/ n <= Served * (Batch(kills) - 1) + 1 /\ lull >= Cardinality(todo)

Horde ==
    /\ stage \notin {"spawner", "respawn", "knife", "hit", "expire", "merge"} => staged = {}
    /\ Cardinality(Living) + Cardinality(staged) <= Bound
    /\ stage = "spawner" => /\ Filling(Cardinality(staged))
                            /\ staged # {} => Cardinality(Living) < MaxMobs(kills)

\* The number of mobs is a natural number, and so are the players to come.
LEMMA Crowd ==
  ASSUME TypeOK
  PROVE  /\ IsFiniteSet(Living) /\ IsFiniteSet(staged) /\ IsFiniteSet(todo)
         /\ Cardinality(Living) \in Nat /\ Cardinality(staged) \in Nat
         /\ Cardinality(todo) \in Nat /\ Cardinality(Player) \in Nat
         /\ Cardinality(todo) <= Cardinality(Player)
  <1>1. Living \subseteq Mob /\ staged \subseteq Mob /\ todo \subseteq Player
    BY DEF Living, TypeOK
  <1> QED
    BY <1>1, FS_Subset, FS_CardinalityType

\* A product grows with its factors.
LEMMA Larger ==
  ASSUME NEW a \in Nat, NEW b \in Nat, NEW c \in Nat, NEW d \in Nat, a <= c, b <= d
  PROVE  a * b <= c * d
  <1>1. a * b <= c * b
    OBVIOUS
  <1>2. c * b <= c * d
    OBVIOUS
  <1>3. a * b \in Nat /\ c * b \in Nat /\ c * d \in Nat
    OBVIOUS
  <1> QED
    BY <1>1, <1>2, <1>3

\* A part of a larger number is no smaller.
LEMMA LargerPart ==
  ASSUME NEW a \in Nat, NEW b \in Nat, NEW p \in Nat \ {0}, a <= b
  PROVE  a \div p \in Nat /\ b \div p \in Nat /\ a \div p <= b \div p
  OBVIOUS

\* The cap and the batch are natural numbers that grow with the kills.
LEMMA CapGrows ==
  ASSUME NEW k \in Nat, NEW l \in Nat, k <= l
  PROVE  /\ MaxMobs(k) \in Nat /\ MaxMobs(k) <= MaxMobs(l)
         /\ Batch(k) \in Nat \ {0} /\ Batch(k) <= Batch(l)
  <1>1. Growth * k \in Nat /\ Growth * l \in Nat /\ Growth * k <= Growth * l
    BY Larger
  <1>2. MaxMobs(k) \in Nat /\ MaxMobs(l) \in Nat /\ MaxMobs(k) <= MaxMobs(l)
    BY <1>1 DEF MaxMobs, Least
  <1>3. /\ MaxMobs(k) \div Portion \in Nat /\ MaxMobs(l) \div Portion \in Nat
        /\ MaxMobs(k) \div Portion <= MaxMobs(l) \div Portion
    BY <1>2, LargerPart
  <1> QED
    BY <1>2, <1>3 DEF Batch, Greatest

\* A call that leaves the mobs to the next one: the timer runs by one, and
\* at least one player less is to come.
LEMMA CallFilling ==
  ASSUME NEW n \in Nat, NEW b \in Nat, NEW c \in Nat, NEW d \in Nat, NEW l \in Nat,
         NEW t \in Nat, NEW u \in Nat, NEW m \in Nat, c < d, u < t,
         n <= c * b \/ (n <= c * b + 1 /\ l >= t),
         m >= l - 1
  PROVE  n <= d * b \/ (n <= d * b + 1 /\ m >= u)
  <1>1. c * b \in Nat /\ d * b \in Nat /\ c * b <= d * b
    BY Larger
  <1> QED
    BY <1>1

\* A call that stages mobs: the timer had run out, and if the batch is
\* complete it is set.
LEMMA BatchFilling ==
  ASSUME NEW n \in Nat, NEW b \in Nat, NEW c \in Nat, NEW d \in Nat,
         NEW t \in Nat, NEW u \in Nat, NEW m \in Nat, NEW new \in Nat, c < d, u < t,
         n <= c * b \/ (n <= c * b + 1 /\ 0 >= t),
         new <= b + 1, new = b + 1 => m >= u
  PROVE  n + new <= d * b \/ (n + new <= d * b + 1 /\ m >= u)
  <1>1. c * b \in Nat /\ d * b \in Nat /\ (c + 1) * b \in Nat /\ (c + 1) * b <= d * b
    BY Larger
  <1>2. (c + 1) * b = c * b + b
    OBVIOUS
  <1> QED
    BY <1>1, <1>2

\* A step that leaves the mobs, the staged ones and the kills as they are,
\* and either is none of MobSpawner's or finds nothing staged.
LEMMA QuietHorde ==
  ASSUME TypeOK, Horde, Living' = Living, staged' = staged, kills' = kills,
         \/ stage' \in {"respawn", "knife", "hit", "expire", "merge"}
         \/ staged = {} /\ todo' \subseteq Player
  PROVE  Horde'
  <1>1. Bound' = Bound
    BY DEF Bound
  <1>2. CASE stage' # "spawner"
    BY <1>1, <1>2 DEF Horde
  <1>3. CASE stage' = "spawner"
    <2>1. staged' = {} /\ Cardinality(staged') = 0
      BY <1>3, FS_EmptySet
    <2>2. IsFiniteSet(todo') /\ Cardinality(todo') \in Nat /\ Cardinality(todo') <= Cardinality(Player)
      BY <1>3, FS_Subset, FS_CardinalityType
    <2>3. Served' \in Nat
      BY <2>2, Crowd DEF Served
    <2>4. Batch(kills) - 1 \in Nat
      BY CapGrows DEF TypeOK
    <2>5. 0 <= Served' * (Batch(kills) - 1)
      BY <2>3, <2>4, Product
    <2>6. Filling(0)'
      BY <2>5 DEF Filling
    <2> QED
      BY <1>1, <2>1, <2>6 DEF Horde, Filling
  <1> QED
    BY <1>2, <1>3

\* MobSpawner.  The mobs it counts are the living ones; those that are
\* staged are within what the calls so far may have filled.
LEMMA SpawnerHorde ==
  ASSUME TypeOK, Horde, Cardinality(Player) - 1 <= SpawnTicks,
         NEW table \in SUBSET Player, MobSpawner(table)
  PROVE  Horde'
  <1>1. Living' = Living /\ kills' = kills /\ Bound' = Bound
    BY DEF MobSpawner, health, Living, Bound
  <1>2. CASE table = {}
    BY <1>1, <1>2, QuietHorde DEF MobSpawner
  <1>3. CASE table # {}
    <2> DEFINE t == Cardinality(todo)
               u == Cardinality(todo')
               b == Batch(kills) - 1
               n == Cardinality(staged)
    <2>1. stage = "spawner" /\ stage' = "spawner" /\ todo' = todo \ table
      BY <1>3 DEF MobSpawner
    <2>2. t \in Nat /\ u \in Nat /\ u < t /\ t <= Cardinality(Player)
      <3>1. todo' \subseteq todo /\ todo' # todo
        BY <1>3, <2>1 DEF MobSpawner
      <3>2. IsFiniteSet(todo) /\ t \in Nat /\ t <= Cardinality(Player)
        BY Crowd, Zenon
      <3>3. IsFiniteSet(todo') /\ u <= t /\ u # t
        BY <3>1, <3>2, FS_Subset
      <3>4. u \in Nat
        BY <3>3, FS_CardinalityType
      <3> QED
        BY <3>2, <3>3, <3>4
    <2>3. Served \in Nat /\ Served' \in Nat /\ Served < Served' /\ Served' <= Cardinality(Player)
      BY <2>2, Crowd DEF Served
    <2>4. b \in Nat /\ MaxMobs(kills) \in Nat
      BY CapGrows DEF TypeOK
    <2>5. n \in Nat /\ lull \in Nat /\ Cardinality(Living) \in Nat /\ Cardinality(Player) \in Nat
      <3>1. lull \in Nat
        BY DEF TypeOK
      <3>2. n \in Nat /\ Cardinality(Living) \in Nat /\ Cardinality(Player) \in Nat
        BY Crowd, Zenon
      <3> QED
        BY <3>1, <3>2
    <2>6. n <= Served * b \/ (n <= Served * b + 1 /\ lull >= t)
      BY <2>1 DEF Horde, Filling
    <2>7. CASE staged' = staged /\ lull' = Greatest(lull - 1, 0)
      <3>1. lull' \in Nat /\ lull' >= lull - 1
        BY <2>5, <2>7 DEF Greatest
      <3>2. n <= Served' * b \/ (n <= Served' * b + 1 /\ lull' >= u)
        <4>1. /\ n \in Nat /\ b \in Nat /\ Served \in Nat /\ Served' \in Nat /\ lull \in Nat
              /\ t \in Nat /\ u \in Nat /\ lull' \in Nat /\ Served < Served' /\ u < t
              /\ lull' >= lull - 1
          BY <2>2, <2>3, <2>4, <2>5, <3>1
        <4> HIDE DEF t, u, b, n
        <4> QED
          BY <2>6, <4>1, CallFilling
      <3>3. Filling(Cardinality(staged))'
        BY <1>1, <2>7, <3>2 DEF Filling
      <3> QED
        BY <1>1, <2>1, <2>7, <3>3 DEF Horde
    <2>8. CASE lull = 0 /\ ~Crowded /\ \E new \in SUBSET (Mob \ born) :
                      /\ Cardinality(new) <= Batch(kills)
                      /\ staged' = staged \cup new
                      /\ born' = born \cup new
                      /\ lull' = IF Cardinality(new) = Batch(kills) THEN SpawnTicks ELSE 0
      <3>1. PICK new \in SUBSET (Mob \ born) :
                      /\ Cardinality(new) <= Batch(kills)
                      /\ staged' = staged \cup new
                      /\ lull' = IF Cardinality(new) = Batch(kills) THEN SpawnTicks ELSE 0
        BY <2>8
      <3> DEFINE k == Cardinality(new)
      <3>2. k \in Nat /\ Cardinality(staged') = n + k
        <4>1. staged \cap new = {}
          BY DEF TypeOK
        <4>2. IsFiniteSet(staged) /\ IsFiniteSet(new)
          BY Crowd, FS_Subset
        <4>3. Cardinality(staged \cap new) = 0
          BY <4>1, FS_EmptySet
        <4>4. Cardinality(staged \cup new) = n + k - Cardinality(staged \cap new)
          BY <4>2, FS_Union
        <4>5. k \in Nat
          BY <4>2, FS_CardinalityType
        <4> QED
          BY <2>5, <3>1, <4>3, <4>4, <4>5
      <3>3. k <= b + 1 /\ lull' \in Nat /\ (k = b + 1 => lull' >= u)
        <4>1. Batch(kills) \in Nat
          BY CapGrows DEF TypeOK
        <4> QED
          BY <2>2, <2>5, <3>1, <3>2, <4>1
      <3>4. n + k <= Served' * b \/ (n + k <= Served' * b + 1 /\ lull' >= u)
        <4> HIDE DEF t, u, b, n, k
        <4>1. n <= Served * b \/ (n <= Served * b + 1 /\ 0 >= t)
          BY <2>6, <2>8
        <4> QED
          BY <2>2, <2>3, <2>4, <2>5, <3>2, <3>3, <4>1, BatchFilling
      <3>5. Cardinality(Living) < MaxMobs(kills)
        BY <2>4, <2>5, <2>8 DEF Crowded
      <3>6. Cardinality(Living) + n + k <= Bound
        <4>1. Served' * b <= Cardinality(Player) * b /\ Served' * b \in Nat
          BY <2>3, <2>4, <2>5, Larger, Product
        <4>2. Bound = MaxMobs(kills) + Cardinality(Player) * b /\ Cardinality(Player) * b \in Nat
          BY <2>4, <2>5, Product DEF Bound
        <4> HIDE DEF t, u, b, n, k
        <4> QED
          BY <2>4, <2>5, <3>2, <3>4, <3>5, <4>1, <4>2
      <3>7. Filling(Cardinality(staged))'
        BY <1>1, <3>2, <3>4 DEF Filling
      <3>8. (Cardinality(Living) + Cardinality(staged))' <= Bound'
        BY <1>1, <2>5, <3>2, <3>6
      <3> QED
        BY <1>1, <2>1, <3>5, <3>7, <3>8 DEF Horde
    <2>9. lull > 0 \/ Crowded => staged' = staged /\ lull' = Greatest(lull - 1, 0)
      BY <1>3 DEF MobSpawner
    <2>10. ~(lull > 0 \/ Crowded) => \E new \in SUBSET (Mob \ born) :
                      /\ Cardinality(new) <= Batch(kills)
                      /\ staged' = staged \cup new
                      /\ born' = born \cup new
                      /\ lull' = IF Cardinality(new) = Batch(kills) THEN SpawnTicks ELSE 0
      BY <1>3 DEF MobSpawner
    <2>11. lull = 0 \/ lull > 0
      BY <2>5
    <2> QED
      BY <2>7, <2>8, <2>9, <2>10, <2>11
  <1> QED
    BY <1>2, <1>3

\* The merge: who is alive after it was alive or staged, and the kills that
\* are counted raise the bound.
LEMMA MergeHorde == ASSUME TypeOK, Horde, Merge PROVE Horde'
  <1>1. stage' = "net" /\ staged' = {} /\ Cardinality(staged') = 0
    BY FS_EmptySet DEF Merge
  <1>2. Living' \subseteq Living \cup staged
    BY DEF Merge, Living, TypeOK
  <1>3. Living \cap staged = {}
    BY DEF Living, TypeOK
  <1>4. Cardinality(Living \cup staged) = Cardinality(Living) + Cardinality(staged)
    <2>1. Cardinality(Living \cap staged) = 0
      BY <1>3, FS_EmptySet
    <2>2. Cardinality(Living \cup staged)
            = Cardinality(Living) + Cardinality(staged) - Cardinality(Living \cap staged)
      BY Crowd, FS_Union
    <2> QED
      BY <2>1, <2>2, Crowd
  <1>5. Cardinality(Living') \in Nat /\ Cardinality(Living') <= Cardinality(Living) + Cardinality(staged)
    <2>1. IsFiniteSet(Living \cup staged)
      BY Crowd, FS_Union
    <2> QED
      BY <1>2, <1>4, <2>1, FS_Subset, FS_CardinalityType
  <1>6. kills' \in Nat /\ kills <= kills'
    <2>1. Cardinality(Fallen \cap Mob) \in Nat
      BY FS_Subset, FS_CardinalityType
    <2> QED
      BY <2>1 DEF Merge, TypeOK
  <1>7. Bound \in Int /\ Bound' \in Int /\ Bound <= Bound'
    <2>1. /\ MaxMobs(kills) \in Nat /\ MaxMobs(kills') \in Nat /\ MaxMobs(kills) <= MaxMobs(kills')
          /\ Batch(kills) - 1 \in Nat /\ Batch(kills') - 1 \in Nat
          /\ Batch(kills) - 1 <= Batch(kills') - 1
      BY <1>6, CapGrows DEF TypeOK
    <2> DEFINE x == Cardinality(Player) * (Batch(kills) - 1)
               y == Cardinality(Player) * (Batch(kills') - 1)
    <2>2. x \in Nat /\ y \in Nat /\ x <= y
      BY <2>1, Crowd, Larger, Product
    <2>3. Bound = MaxMobs(kills) + x /\ Bound' = MaxMobs(kills') + y
      BY DEF Bound
    <2> HIDE DEF x, y
    <2> QED
      BY <2>1, <2>2, <2>3
  <1>8. (Cardinality(Living) + Cardinality(staged))' <= Bound'
    BY <1>1, <1>5, <1>7, Crowd DEF Horde
  <1> QED
    BY <1>1, <1>8 DEF Horde

\* Every step keeps the horde within its bound.
LEMMA StepHorde ==
  ASSUME Cardinality(Player) - 1 <= SpawnTicks, TypeOK, Horde, [Next]_vars
  PROVE  Horde'
  <1>1. ASSUME UNCHANGED vars PROVE Horde'
    BY <1>1 DEF vars, entities, health, mobs, deferred, Horde, Living, Bound, Filling, Served
  <1>2. ASSUME NEW standing \in SUBSET here, NEW due \in BOOLEAN,
               \/ HurtOnHazardBlock(standing) \/ RegenerateHP(due) \/ TickDownHealDelay(due)
               \/ ProcessHealthDamage \/ MobDetectPlayers
        PROVE  Horde'
    <2>1. Living' = Living /\ staged' = staged /\ kills' = kills /\ todo' = todo
      BY <1>2 DEF HurtOnHazardBlock, RegenerateHP, TickDownHealDelay, ProcessHealthDamage,
                  MobDetectPlayers, entities, health, mobs, deferred, Living
    <2>2. staged = {}
      BY <1>2 DEF HurtOnHazardBlock, RegenerateHP, TickDownHealDelay, ProcessHealthDamage,
                  MobDetectPlayers, Horde
    <2> QED
      BY <2>1, <2>2, QuietHorde DEF TypeOK
  <1>3. ASSUME NEW first, NEW reach,
               MobMovement(first) \/ MobMeleeAtk(reach, first) \/ MobDespawnDead
        PROVE  Horde'
    <2>1. /\ Living' = Living /\ staged' = staged /\ kills' = kills
          /\ todo' = todo \/ todo' = Playing
      BY <1>3 DEF MobMovement, MobMeleeAtk, MobDespawnDead, entities, health, mobs, deferred, Living
    <2>2. staged = {}
      BY <1>3 DEF MobMovement, MobMeleeAtk, MobDespawnDead, Horde
    <2> QED
      BY <2>1, <2>2, QuietHorde DEF TypeOK, Playing
  <1>4. ASSUME NEW near, NEW touched, NEW far,
               \/ PlayerRespawn(near) \/ WeaponKnifeMechanic \/ WeaponProjectileHit(touched)
               \/ WeaponProjectileExpire(far)
        PROVE  Horde'
    <2>1. /\ Living' = Living /\ staged' = staged /\ kills' = kills
          /\ stage' \in {"knife", "hit", "expire", "merge"}
      BY <1>4 DEF PlayerRespawn, WeaponKnifeMechanic, WeaponProjectileHit, WeaponProjectileExpire,
                  entities, health, mobs, Living
    <2> QED
      BY <2>1, QuietHorde
  <1>5. ASSUME NEW p \in Player, Join(p) \/ Quit(p) PROVE Horde'
    <2>1. staged' = staged /\ kills' = kills /\ todo' = todo /\ staged = {}
      BY <1>5 DEF Join, Quit, mobs, deferred, Horde
    <2>2. Living' = Living
      BY <1>5 DEF Join, Quit, Living
    <2> QED
      BY <2>1, <2>2, QuietHorde DEF TypeOK
  <1>6. CASE Frame
    BY <1>2, <1>3, <1>4, <1>6, SpawnerHorde, MergeHorde DEF Frame
  <1> QED
    BY <1>1, <1>5, <1>6 DEF Next, Down

\* The mobs stay within the cap, one batch and what the other players'
\* tables fit in, if the spawner waits at least a tick for each of them (in
\* the code 30 ticks and 8 players): a batch that is complete keeps the rest
\* of the tables of its frame from completing another.
THEOREM MobsAreBounded == Cardinality(Player) - 1 <= SpawnTicks /\ Spec => []MobsBounded
  <1>1. ASSUME Cardinality(Player) - 1 <= SpawnTicks PROVE Spec => []MobsBounded
    <2>1. Init => Horde
      <3> SUFFICES ASSUME Init PROVE Horde
        OBVIOUS
      <3>1. Living = {} /\ staged = {} /\ stage = "net" /\ kills = 0
        BY DEF Init, Living
      <3>2. MaxMobs(0) \in Nat /\ Batch(0) - 1 \in Nat
        BY CapGrows
      <3>3. Cardinality(Player) * (Batch(0) - 1) \in Nat
        BY <3>2, FS_CardinalityType, Product
      <3> QED
        BY <3>1, <3>2, <3>3, FS_EmptySet DEF Horde, Bound
    <2>2. TypeOK /\ Horde /\ [Next]_vars => Horde'
      BY <1>1, StepHorde
    <2>3. TypeOK /\ Horde => MobsBounded
      <3> SUFFICES ASSUME TypeOK, Horde, stage = "net"
                   PROVE  Cardinality(Living) <= MaxMobs(kills) - 1 + Batch(kills)
                                                 + (Cardinality(Player) - 1) * (Batch(kills) - 1)
        BY DEF MobsBounded
      <3>1. Cardinality(Living) + Cardinality(staged) <= Bound /\ Cardinality(staged) = 0
        BY FS_EmptySet DEF Horde
      <3> DEFINE p == Cardinality(Player)
                 b == Batch(kills) - 1
      <3>2. p \in Nat /\ b \in Nat /\ MaxMobs(kills) \in Nat /\ Batch(kills) = b + 1
        <4>1. p \in Nat
          BY Crowd
        <4>2. MaxMobs(kills) \in Nat /\ Batch(kills) \in Nat \ {0}
          BY CapGrows DEF TypeOK
        <4> QED
          BY <4>1, <4>2
      <3>3. (p - 1) * b = p * b - b /\ p * b \in Nat
        <4> HIDE DEF p, b
        <4> QED
          BY <3>2
      <3>4. Bound = MaxMobs(kills) + p * b
        BY DEF Bound
      <3> HIDE DEF p, b
      <3>5. MaxMobs(kills) + p * b = MaxMobs(kills) - 1 + (b + 1) + (p - 1) * b
        BY <3>2, <3>3
      <3> QED
        BY <3>1, <3>2, <3>4, <3>5, Crowd DEF p, b
    <2> QED
      BY <2>1, <2>2, <2>3, TypeCorrect, PTL DEF Spec
  <1> QED
    BY <1>1
=============================================================================
