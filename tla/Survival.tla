------------------------------ MODULE Survival ------------------------------
(***************************************************************************)
(* Health, death and respawn (system_health.c), and what games/survival    *)
(* adds to them: mobs (system_mob.c), knives (system_weapon.c) and the     *)
(* respawn of players (game.c).                                            *)
(*                                                                         *)
(* Positions are left out: who stands on a hazardous block, which mob is   *)
(* in reach of its prey and what a projectile touches are open.  A frame   *)
(* here is a frame in which the tick timer has elapsed; the frames between *)
(* two ticks change nothing of this state.  The slower timers (20, 40 and  *)
(* 100 ticks) elapse or not.  Components that systems add and remove, and  *)
(* entities they create and delete, change when the frame is merged.       *)
(*                                                                         *)
(* A mob system uses `m->plr`, the prey of the first mob of the flecs      *)
(* table, for every mob of it; which mobs share a table is open.           *)
(***************************************************************************)
EXTENDS Integers, FiniteSets

CONSTANTS
    Player, Mob, Shot,  \* entity ids; flecs never hands one out twice
    Nobody,
    MaxHp, MobHp,       \* Health.max_hp
    HazardDmg, MeleeDmg, ShotDmg, RegenAmt,
    HealTicks,          \* HealDelay.delay
    RespawnTicks,       \* Respawn.timer
    AtkTicks,           \* MOB_ATK_DELAY
    CorpseTicks,        \* MOB_DESPAWN_TIMER
    SpawnTicks,         \* MOB_SPAWN_DELAY
    KnifeTicks,         \* WEAPON_KNIFE_SPAWN_DELAY
    Volley,             \* WeaponKnife.projectile_count
    InitialMax, HardCap,
    Growth,             \* how many more mobs each kill allows
    Portion             \* one in so many of the allowed mobs spawns at once

Pawn == Player \cup Mob

ASSUME SurvivalAssumption ==
    /\ Player \cap Mob = {} /\ Shot \cap Pawn = {}
    /\ IsFiniteSet(Player) /\ IsFiniteSet(Mob) /\ IsFiniteSet(Shot)
    /\ Nobody \notin Pawn
    /\ MaxHp \in Nat \ {0} /\ MobHp \in Nat \ {0}
    /\ {HazardDmg, MeleeDmg, ShotDmg, RegenAmt} \subseteq Nat
    /\ {RespawnTicks, AtkTicks, CorpseTicks, SpawnTicks, KnifeTicks, HealTicks} \subseteq Nat
    /\ Volley \in Nat /\ InitialMax \in Nat /\ HardCap \in Nat /\ Growth \in Nat
    /\ Portion \in Nat \ {0}

VARIABLES
    sandbox,    \* the game: sandbox (regeneration, no respawn) or survival
    stage,      \* the system to run next, "net" between frames
    todo,       \* the players whose tables MobSpawner has not been given
    here,       \* the pawns that are alive as entities
    born,       \* those whose id has been handed out
    hp, dmg,    \* Health
    dead,       \* the pawns with Dead
    pain,       \* HealDelay.delay, 0 without the component: of the players
                \* of the sandbox only, as nobody else regenerates
    respawn,    \* Respawn.timer, -1 without the component
    blocked,    \* Input.is_blocked
    knife,      \* WeaponKnife.spawn_delay
    prey,       \* MobHuntPlayer.plr, or Nobody without the component
    atk,        \* Mob.atk_delay
    rot,        \* Mob.despawn_timer
    kills,      \* mob_kills
    lull,       \* mob_spawn_timer
    owner,      \* WeaponProjectile.owner of the projectiles in the air
    \* deferred to the merge:
    dying, revived,     \* Dead added, Dead and Respawn removed
    aim,                \* MobHuntPlayer after the merge
    staged, thrown,     \* mobs and projectiles created
    doomed              \* entities deleted

entities == <<sandbox, here, born>>
health == <<hp, dmg, dead>>
players == <<pain, respawn, blocked, knife>>
mobs == <<prey, atk, rot, kills, lull>>
deferred == <<dying, revived, aim, staged, thrown, doomed>>
vars == <<stage, todo, entities, health, players, mobs, owner, deferred>>

Full(e) == IF e \in Player THEN MaxHp ELSE MobHp
Least(a, b) == IF a <= b THEN a ELSE b
Greatest(a, b) == IF a >= b THEN a ELSE b

\* Damage adds up until ProcessHealthDamage; what exceeds the full health of
\* a pawn makes no difference.
Hurt(e, d) == Least(dmg[e] + d, Full(e))

Playing == (Player \cap here) \ dead
Living == (Mob \cap here) \ dead
Flying == {s \in Shot : owner[s] # Nobody}

\* recalc_max_mobs: the number of mobs grows with the kills (linearly here)
\* up to the cap, and a part of it spawns at once.
MaxMobs(k) == Least(HardCap, InitialMax + Growth * k)
Batch(k) == Greatest(1, MaxMobs(k) \div Portion)

----------------------------------------------------------------------------
(* Between frames                                                          *)

\* player_spawn and game_player_joined.
Join(p) ==
    /\ stage = "net" /\ p \notin born
    /\ here' = here \cup {p}
    /\ born' = born \cup {p}
    /\ hp' = [hp EXCEPT ![p] = MaxHp]
    /\ knife' = [knife EXCEPT ![p] = IF sandbox THEN 0 ELSE KnifeTicks]
    /\ UNCHANGED <<sandbox, stage, todo, dmg, dead, pain, respawn, blocked, mobs, owner, deferred>>

\* player_despawn: the entity goes at once, its components with it.
Quit(p) ==
    /\ stage = "net" /\ p \in here
    /\ here' = here \ {p}
    /\ dead' = dead \ {p}
    /\ blocked' = blocked \ {p}
    /\ hp' = [hp EXCEPT ![p] = 0]
    /\ dmg' = [dmg EXCEPT ![p] = 0]
    /\ pain' = [pain EXCEPT ![p] = 0]
    /\ respawn' = [respawn EXCEPT ![p] = -1]
    /\ knife' = [knife EXCEPT ![p] = 0]
    /\ UNCHANGED <<sandbox, stage, todo, born, mobs, owner, deferred>>

----------------------------------------------------------------------------
(* Health: the systems every game has                                      *)

\* The dead are hurt as well.  Nobody when the timer has not elapsed.  The two
\* systems that follow matter to the sandbox only.
HurtOnHazardBlock(standing) ==
    /\ stage = "net"
    /\ stage' = IF sandbox THEN "regen" ELSE "damage"
    /\ dmg' = [e \in Pawn |-> IF e \in standing THEN Hurt(e, HazardDmg) ELSE dmg[e]]
    /\ UNCHANGED <<todo, entities, hp, dead, players, mobs, owner, deferred>>

\* Only players of the sandbox have HealthRegen.
RegenerateHP(due) ==
    /\ stage = "regen"
    /\ stage' = "heal"
    /\ hp' = [e \in Pawn |->
                IF due /\ e \in Player \cap here /\ pain[e] = 0
                THEN Least(MaxHp, hp[e] + RegenAmt) ELSE hp[e]]
    /\ UNCHANGED <<todo, entities, dmg, dead, players, mobs, owner, deferred>>

\* HealDelay is gone from the merge on, or replaced by ProcessHealthDamage;
\* nothing reads it in between.
TickDownHealDelay(due) ==
    /\ stage = "heal"
    /\ stage' = "damage"
    /\ pain' = [p \in Player |-> IF due THEN Greatest(pain[p] - 1, 0) ELSE pain[p]]
    /\ UNCHANGED <<todo, entities, health, respawn, blocked, knife, mobs, owner, deferred>>

Injured == {e \in here : dmg[e] > 0}

HpLeft(e) == Greatest(hp[e] - dmg[e], 0)

\* Mutant: health must fall below zero to kill.
Killed_Below == {e \in Injured : hp[e] < dmg[e]}

Killed == {e \in Injured : HpLeft(e) = 0}

ProcessHealthDamage ==
    /\ stage = "damage"
    /\ stage' = IF sandbox THEN "merge" ELSE "detect"
    /\ hp' = [e \in Pawn |-> IF e \in Injured THEN HpLeft(e) ELSE hp[e]]
    /\ dmg' = [e \in Pawn |-> 0]
    /\ pain' = [p \in Player |-> IF p \in Injured /\ sandbox THEN HealTicks ELSE pain[p]]
    /\ dying' = Killed
    /\ UNCHANGED <<todo, entities, dead, respawn, blocked, knife, mobs, owner,
                   revived, aim, staged, thrown, doomed>>

----------------------------------------------------------------------------
(* Mobs                                                                    *)

Hunters == {m \in Living : prey[m] # Nobody}

\* The first mob of each hunter's table.
Tables == {f \in [Hunters -> Hunters] : \A m \in Hunters : f[f[m]] = f[m]}

\* closest_ent_dist is never updated, and p[j] is read beyond the mobs of
\* the table: any player may be found, or none.
MobDetectPlayers ==
    /\ stage = "detect"
    /\ stage' = "move"
    /\ \E found \in [Living -> Playing \cup {Nobody}] :
         aim' = [m \in Mob |-> IF m \in Living /\ found[m] # Nobody THEN found[m] ELSE aim[m]]
    /\ UNCHANGED <<todo, entities, health, players, mobs, owner,
                   dying, revived, staged, thrown, doomed>>

\* ecs_get of an entity that is gone: an assertion, or with assertions
\* compiled out a null record is read.
MobMovement(first) ==
    /\ stage = "move"
    /\ stage' = IF \A m \in Hunters : prey[first[m]] \in here THEN "melee" ELSE "crashed"
    /\ UNCHANGED <<todo, entities, health, players, mobs, owner, deferred>>

Striking(reach, first) ==
    {m \in Hunters \cap reach : atk[m] = 0 /\ prey[first[m]] \notin dead}

MobMeleeAtk(reach, first) ==
    /\ stage = "melee"
    /\ stage' = "corpses"
    /\ LET hits(e) == Cardinality({m \in Striking(reach, first) : prey[first[m]] = e})
       IN  dmg' = [e \in Pawn |-> IF hits(e) > 0 THEN Hurt(e, MeleeDmg * hits(e)) ELSE dmg[e]]
    /\ atk' = [m \in Mob |-> IF m \in Striking(reach, first) THEN AtkTicks
                             ELSE IF m \in Hunters THEN Greatest(atk[m] - 1, 0) ELSE atk[m]]
    /\ aim' = [m \in Mob |-> IF m \in Hunters /\ atk[m] = 0 /\ prey[first[m]] \in dead
                             THEN Nobody ELSE aim[m]]
    /\ UNCHANGED <<todo, entities, hp, dead, players, prey, rot, kills, lull, owner,
                   dying, revived, staged, thrown, doomed>>

Corpses == Mob \cap here \cap dead

MobDespawnDead ==
    /\ stage = "corpses"
    /\ stage' = "spawner"
    /\ rot' = [m \in Mob |-> IF m \in Corpses THEN Greatest(rot[m] - 1, 0) ELSE rot[m]]
    /\ doomed' = {m \in Corpses : rot[m] = 0}
    /\ todo' = Playing
    /\ UNCHANGED <<entities, health, players, prey, atk, kills, lull, owner,
                   dying, revived, aim, staged, thrown>>

Crowded == Cardinality(Living) >= MaxMobs(kills)

\* The system is called once for each table of players, and mobs staged by
\* an earlier call are not counted.  Tries that fail leave fewer than the
\* batch, and the timer unset.
MobSpawner(table) ==
    /\ stage = "spawner"
    /\ table \subseteq todo
    /\ todo' = todo \ table
    /\ IF table = {}
       THEN /\ todo = {}
            /\ stage' = "respawn"
            /\ UNCHANGED <<lull, staged, born>>
       ELSE /\ stage' = "spawner"
            /\ IF lull > 0 \/ Crowded
               THEN /\ lull' = Greatest(lull - 1, 0)
                    /\ UNCHANGED <<staged, born>>
               ELSE \E new \in SUBSET (Mob \ born) :
                      /\ Cardinality(new) <= Batch(kills)
                      /\ staged' = staged \cup new
                      /\ born' = born \cup new
                      /\ lull' = IF Cardinality(new) = Batch(kills) THEN SpawnTicks ELSE 0
    /\ UNCHANGED <<sandbox, here, health, players, prey, atk, rot, kills, owner,
                   dying, revived, aim, thrown, doomed>>

----------------------------------------------------------------------------
(* Respawn and weapons                                                     *)

\* A player who is back blasts the mobs that stand near.
PlayerRespawn(near) ==
    /\ stage = "respawn"
    /\ stage' = "knife"
    /\ LET back == {p \in Player : respawn[p] = 0}
           blasts(m) == Cardinality({p \in back : m \in near[p]})
       IN  /\ revived' = back
           /\ blocked' = blocked \ back
           /\ hp' = [e \in Pawn |-> IF e \in back THEN MaxHp ELSE hp[e]]
           /\ dmg' = [e \in Pawn |-> IF e \in Living THEN Hurt(e, (MobHp \div 2) * blasts(e))
                                     ELSE dmg[e]]
    /\ respawn' = [p \in Player |-> IF respawn[p] > 0 THEN respawn[p] - 1 ELSE respawn[p]]
    /\ UNCHANGED <<todo, entities, dead, pain, knife, mobs, owner,
                   dying, aim, staged, thrown, doomed>>

\* Every armed player throws on his own accord.  Bound: a volley is cut to
\* the projectiles that are left.
WeaponKnifeMechanic ==
    /\ stage = "knife"
    /\ stage' = "hit"
    /\ LET armed == {p \in Playing : knife[p] = 0}
       IN  \E throw \in [Shot \ Flying -> armed \cup {Nobody}] :
             /\ \A p \in armed : Cardinality({s \in Shot \ Flying : throw[s] = p}) <= Volley
             /\ owner' = [s \in Shot |-> IF s \in Flying THEN owner[s] ELSE throw[s]]
             /\ thrown' = {s \in Shot \ Flying : throw[s] # Nobody}
             /\ knife' = [p \in Player |-> IF p \in armed THEN KnifeTicks
                                           ELSE IF p \in Playing THEN knife[p] - 1 ELSE knife[p]]
    /\ UNCHANGED <<todo, entities, health, pain, respawn, blocked, mobs,
                   dying, revived, aim, staged, doomed>>

\* A projectile hurts everyone it touches, not only the first.
Touchable(s) == (Playing \cup Living) \ {owner[s]}

WeaponProjectileHit(touched) ==
    /\ stage = "hit"
    /\ stage' = "expire"
    /\ LET hits(e) == Cardinality({s \in Flying \ thrown : e \in touched[s] \cap Touchable(s)})
       IN  dmg' = [e \in Pawn |-> IF hits(e) > 0 THEN Hurt(e, ShotDmg * hits(e)) ELSE dmg[e]]
    /\ doomed' = doomed \cup {s \in Flying \ thrown : touched[s] \cap Touchable(s) # {}}
    /\ UNCHANGED <<todo, entities, hp, dead, players, mobs, owner,
                   dying, revived, aim, staged, thrown>>

WeaponProjectileExpire(far) ==
    /\ stage = "expire"
    /\ stage' = "merge"
    /\ doomed' = doomed \cup far
    /\ UNCHANGED <<todo, entities, health, players, mobs, owner,
                   dying, revived, aim, staged, thrown>>

----------------------------------------------------------------------------
(* The merge: deferred commands, and the observers OnDead (with            *)
(* game_player_died) and MobOnDead of the pawns that had no Dead before    *)

\* Mutant: the observers run each time Dead is added, not only the first.
Fallen_Again == dying

Fallen == dying \ dead

Merge ==
    /\ stage = "merge"
    /\ stage' = "net"
    /\ here' = (here \cup staged) \ doomed
    /\ dead' = ((dead \cup dying) \ revived) \ doomed
    /\ hp' = [e \in Pawn |-> IF e \in staged THEN MobHp ELSE IF e \in doomed THEN 0 ELSE hp[e]]
    /\ dmg' = [e \in Pawn |-> IF e \in doomed THEN 0 ELSE dmg[e]]
    /\ blocked' = blocked \cup (Fallen \cap Player)
    /\ respawn' = [p \in Player |-> IF p \in Fallen /\ ~sandbox THEN RespawnTicks
                                    ELSE IF p \in revived THEN -1 ELSE respawn[p]]
    /\ rot' = [m \in Mob |-> IF m \in Fallen THEN CorpseTicks ELSE rot[m]]
    /\ kills' = kills + Cardinality(Fallen \cap Mob)
    /\ prey' = [m \in Mob |-> IF m \in doomed THEN Nobody ELSE aim[m]]
    /\ aim' = [m \in Mob |-> IF m \in doomed THEN Nobody ELSE aim[m]]
    /\ atk' = [m \in Mob |-> IF m \in doomed THEN 0 ELSE atk[m]]
    /\ owner' = [s \in Shot |-> IF s \in doomed THEN Nobody ELSE owner[s]]
    /\ dying' = {} /\ revived' = {} /\ staged' = {} /\ thrown' = {} /\ doomed' = {}
    /\ UNCHANGED <<todo, sandbox, born, pain, knife, lull>>

----------------------------------------------------------------------------
Init ==
    /\ sandbox \in BOOLEAN
    /\ stage = "net" /\ todo = {}
    /\ here = {} /\ born = {} /\ dead = {} /\ blocked = {}
    /\ hp = [e \in Pawn |-> 0]
    /\ dmg = [e \in Pawn |-> 0]
    /\ pain = [p \in Player |-> 0]
    /\ respawn = [p \in Player |-> -1]
    /\ knife = [p \in Player |-> 0]
    /\ prey = [m \in Mob |-> Nobody]
    /\ atk = [m \in Mob |-> 0]
    /\ rot = [m \in Mob |-> 0]
    /\ kills = 0
    /\ lull = SpawnTicks
    /\ owner = [s \in Shot |-> Nobody]
    /\ aim = [m \in Mob |-> Nobody]
    /\ dying = {} /\ revived = {} /\ staged = {} /\ thrown = {} /\ doomed = {}

Frame ==
    \/ \E standing \in SUBSET here : HurtOnHazardBlock(standing)
    \/ \E due \in BOOLEAN : RegenerateHP(due) \/ TickDownHealDelay(due)
    \/ ProcessHealthDamage
    \/ MobDetectPlayers
    \/ \E first \in Tables : MobMovement(first)
    \/ \E first \in Tables, reach \in SUBSET Mob : MobMeleeAtk(reach, first)
    \/ MobDespawnDead
    \/ \E table \in SUBSET Player : MobSpawner(table)
    \/ \E near \in [Player -> SUBSET Living] : PlayerRespawn(near)
    \/ WeaponKnifeMechanic
    \/ \E touched \in [Shot -> SUBSET Pawn] : WeaponProjectileHit(touched)
    \/ \E far \in SUBSET (Flying \ thrown) : WeaponProjectileExpire(far)
    \/ Merge

\* A server that has crashed stays down.
Down == stage = "crashed" /\ UNCHANGED vars

Next == Frame \/ Down \/ \E p \in Player : Join(p) \/ Quit(p)

Spec == Init /\ [][Next]_vars

\* game_run keeps calling world_update.
FairSpec == Spec /\ WF_vars(Frame)
----------------------------------------------------------------------------
(* Properties                                                              *)

TypeOK ==
    /\ sandbox \in BOOLEAN
    /\ stage \in {"net", "regen", "heal", "damage", "detect", "move", "melee", "corpses",
                  "spawner", "respawn", "knife", "hit", "expire", "merge", "crashed"}
    /\ todo \subseteq Player
    /\ here \subseteq born /\ born \subseteq Pawn
    /\ hp \in [Pawn -> Nat] /\ dmg \in [Pawn -> Nat]
    /\ \A e \in Pawn : hp[e] <= Full(e) /\ dmg[e] <= Full(e)
    /\ dead \subseteq here /\ blocked \subseteq Player \cap here
    /\ pain \in [Player -> 0 .. HealTicks]
    /\ respawn \in [Player -> -1 .. RespawnTicks]
    /\ knife \in [Player -> 0 .. KnifeTicks]
    /\ prey \in [Mob -> Player \cup {Nobody}]
    /\ aim \in [Mob -> Player \cup {Nobody}]
    /\ atk \in [Mob -> 0 .. AtkTicks] /\ rot \in [Mob -> 0 .. CorpseTicks]
    /\ kills \in Nat /\ lull \in 0 .. SpawnTicks
    /\ owner \in [Shot -> Player \cup {Nobody}]
    /\ dying \subseteq here /\ revived \subseteq Player \cap dead
    /\ staged \subseteq (Mob \cap born) \ here
    /\ thrown \subseteq Shot /\ doomed \subseteq (Mob \cap dead) \cup Shot

\* Health and the Dead tag agree between frames: whoever has no health left is
\* dead, whichever of the blows of a frame it was, and outside the sandbox
\* (where the dead regenerate and stay dead) the dead have none, even if a
\* blow reaches them in the frame in which they are revived.
DeadHaveNoHp ==
    stage = "net" => \A e \in here : /\ hp[e] = 0 => e \in dead
                                     /\ (e \in dead /\ ~sandbox) => hp[e] = 0

\* A player's input is ignored between frames exactly while he is dead, and
\* every dead player of the survival game waits for his respawn: is_blocked
\* is set by an observer and cleared at once, Dead and Respawn are removed
\* at the merge.
DeadAreHeld ==
    stage = "net" => \A p \in Player \cap here :
        /\ p \in blocked <=> p \in dead
        /\ ~sandbox => (respawn[p] # -1 <=> p \in dead)

\* Every mob that has died is counted once, although blows keep reaching its
\* corpse and Dead is added again for each.
KillsCounted ==
    stage = "net" => kills = Cardinality({m \in Mob \cap born : m \in dead \/ m \notin here})

\* The cap can be exceeded, but not by more than one batch and, for each
\* further table of players, the part of a batch that fits: mobs that are
\* staged in the same frame are not counted.
MobsBounded ==
    stage = "net" => LET n == Batch(kills) IN
        Cardinality(Living) <= MaxMobs(kills) - 1 + n + (Cardinality(Player) - 1) * (n - 1)

\* The dead do not stay: players are revived (or leave), corpses disappear.
DeadMoveOn ==
    \A e \in Pawn : (e \in dead /\ ~sandbox) ~> (e \notin dead \/ stage = "crashed")

\* flecs asserts that the entity of ecs_get is alive, and MobMovement has a
\* branch for a prey that has no position: the prey of a mob still exists
\* whenever the mob systems look at it.
PreyExists == stage # "crashed"
=============================================================================
