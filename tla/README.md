# A TLA+ development of eco2d

eco2d is a C99 engine for networked 2D worlds. One program is, depending on how
it is started, a client, a headless server or both (single player). The server
runs an entity-component system (flecs) and simulates items, vehicles,
machines and mobs; it streams what each player can see (librg over ENet) to
clients that only draw it and send key states back.

This directory models the parts of it whose correctness depends on order: what
happens within a frame, between frames, and between server and client. Paths
below are relative to `src/code/foundation/src` unless they say otherwise.

## Inventory

| Component | State | Operations | What is hard | Correct when | Modelled |
|---|---|---|---|---|---|
| Items, inventories, containers (`systems/modules/system_items.c`, `models/items.c`) | Item entities, slot arrays of `Inventory` and `ItemContainer`, the activators of `Input` | PickItem, DropItem, SwapItems, UseItem, InspectContainers, HarvestIntoContainers | six systems work on the same slots in one frame; an item spawned in a frame has no data until its end; several players share a chest | every item in one place, units conserved | `Items` |
| Vehicles (`system_vehicle.c`) | `Vehicle.seats`, `IsInVehicle` | EnterVehicle, LeaveVehicle, VehicleHandling | two records of one fact, one immediate, one deferred; disconnects | the records agree, nobody loses a seat | `Vehicles` |
| Machines and logistics (`system_producer.c`, `system_logistics.c`, `models/crafting.c`) | container, task, product, ticks, rolling counter | CraftItem, ProduceItems, PushItemsOnNodes | a state machine advanced from within a loop over slots that change | reagents paid, requests answered, belts served fairly | `Factory` |
| World streaming (`world/world.c`, `world/world_view.c`) | librg snapshots, dirty chunks, action timers, the client's entity table | three passes per frame, one message per viewer; create/update/remove on the client | deltas against a snapshot; a flag shared by passes and viewers | clients end up with what the server has | `Streaming` |
| Sessions (`net/network_enet.c`, `packets/pkt_00_init.c`, `pkt_01_welcome.c`, `pkt_switch_viewer.c`, `core/game.c`) | `ClientInfo`, the client's world views | connect, INIT, WELCOME, SWITCH_VIEWER, disconnect | both ends decide about the active viewer; rows are deleted while they are iterated; peers are reused | one entity per view, none left behind, one active view | `Session` |
| Frame scheduler (`systems/systems.c`) | pipeline order, deferred commands | SystemsImport, ResetActivators | what is immediate and what waits for the merge | systems see what they expect | inside the modules above |
| Health and respawn (`system_health.c`, `PlayerRespawn` of the survival game) | `Health`, `Dead`, `HealDelay`, `Respawn`, `Input.is_blocked` | HurtOnHazardBlock, RegenerateHP, ProcessHealthDamage, OnDead, TickDownHealDelay, PlayerRespawn | one death is recorded in five places, some at once, some at the merge; blows go on meanwhile | the records agree between frames, nobody stays dead | `Survival` |
| Mobs and weapons (`src/code/games/survival/src`) | `MobHuntPlayer`, `Mob`, the kill counter, projectiles | detect, chase, melee, spawn, despawn, throw, hit, expire | prey that dies, leaves or respawns while it is chased; systems called once per table | every death counted once, mobs bounded, corpses go | `Survival` |
| Demo creatures (`system_demo.c`) | `Creature`, `SeeksFood`, `SeeksCompanion`, food | check needs, eat, mate, debug actions | many eat of one stack and mate with one partner in one frame | food eaten once, tags follow needs, parents live | `Creatures` |
| Packet codec, compression (`pkt/packet.c`, `world/entity_view.c`, `utils/compress.c`) | none | conditional fields, run lengths, cut-off buffers | the unpacker knows neither record nor conditions, only counts | no field gets another's value, only what was cut off is refused | `Codec`, `EntityView` |
| Replay (`dev/debug_replay.c`) | recorded key states, the playing clock | record, play, clear | – | – | no: see below |
| Blueprints (`system_blueprint.c`) | a list of blocks | place them once | – | – | no: see below |
| World grid (`world/world.c`, `world/blocks.c`) | block layers, chunk map | place, destroy, query | bounds | – | only through chunks, belts and items |
| Physics, on-foot movement, prediction | positions, velocities | integration | floating point | – | no: real arithmetic |
| Assets, database, world generation | tables read once | – | – | – | no: start-up data, constants of the models |
| GUI, rendering, input, debug tools, platform, options | – | – | – | – | no: display and process start-up; the debug actions that change the world are in `Items`, `Vehicles`, `Creatures` |

How they interact. A client sends *key states* (`packets/pkt_send_keystate.c`);
the handler writes them into the `Input` of the player's entity between two
frames. `world_update` runs one `ecs_progress`: all systems, in the order
`systems.c` registers them, each over all entities that match. Structural
changes (components added, removed, set on new entities, deletions) are queued
and merged at the end of it; writes through pointers and the tracker are
immediate. Then `world_tracker_update` runs for each of three layers and sends
a delta to every active viewer. The server then reads packets, and so on.

## Modules

| Module | What it is |
|---|---|
| `Items` | the item systems, one action per system and entity |
| `ItemLedger`, `ItemsRefinement` | what players are promised, and the mapping that shows that `Items` implements it |
| `Vehicles` | seats |
| `Factory` | machines, recipes and belts |
| `Streaming` | server passes, wire, client |
| `Session` | joining, switching viewers, leaving |
| `Survival` | health, death, respawn, mobs and knives |
| `Creatures` | hunger, love and death of the demo creatures |
| `Codec`, `EntityView` | packing by a descriptor, and the descriptor and records of entity views, with which `MCCodec` composes it |
| `MCItems`, `MCVehicles`, `MCFactory`, `MCStreaming`, `MCSession`, `MCSurvival`, `MCCreatures`, `MCCodec` | instances for TLC |
| `ItemsProofs`, `VehiclesProofs`, `FactoryProofs`, `StreamingProofs`, `SessionProofs`, `SurvivalProofs`, `CreaturesProofs`, `CodecProofs` | theorems |

A definition whose name ends in `_Something` and is marked "Mutant" is not part
of the model: it is a plausible bug which, put in place of the definition after
it, must make a property fail. It shows that the property has teeth.

### Items

State: the ECS life of each item entity (`free`, `staged` = spawned this frame,
`live`, `dying` = despawned this frame), its kind and quantity, its visibility,
the slots of all inventories and containers (`held`), and for each player the
open container, the pickup cool-down and the accumulated activators.

`stage` is the running system and `todo` the entities it has not visited; a
system visits its entities in any order, as tables fix one the players do not
control. Each of PickItem, DropItem, SwapItems, UseItem, InspectContainers and
HarvestIntoContainers is one action for one entity: the whole loop body.
`Merge` is ResetActivators and the end of the frame. `Keystate`, `SpawnItem`
(debug tools, world generator, furnaces), `CoolDown` and `Leave` happen between
frames. Quantities are modulo `Wrap`, as they are unsigned.

Left open: distances (which lying item is in reach, which container is
selected), whether a placement succeeds or replaces the same block, and which of the
blocks destroyed in one go drop what: each drops an item of its own kind, or none. Left out:
durability (constant), item data other than kind and quantity, `has_storage`
(unused); a blocked input is a packet that does not come; a riding player is one
who presses nothing. Items of a player who leaves stay alive and hidden for
ever: the history variable `abandoned` records them. Bounds: `PacketCap`
packets per frame (1), `Reserve` free ids kept for one frame's spawns, stacks
spawned within their kind's maximum.

The passing runs do not drag with SPRINT: that alone creates items of quantity 0
(`Items_phantom.cfg`), and such an item, CTRL-dragged onto a stack of its kind,
wraps around; every quantity property would fail for that one reason. With two
packets in a frame (`Items_queue`) SPRINT is not used for drops either: the
activators of both packets run, but with the modifiers and slots of the second,
so a plain drag followed by a SPRINT drop is a SPRINT drag. The theorems about
ownership hold for any inputs, those about quantities for these.

### Vehicles

`seats` is written at once, `IsInVehicle` (`riding`) through `joining` and
`leaving` at the end of the frame. `Quit` deletes a player between frames and
leaves his seat to the cleanup in VehicleHandling. `LeaveVehicle` looks into the
vehicle of the *first* rider of the table (`vehp->veh`), not of the one who
leaves; who is first is left open. `SpawnDriver` is ActSpawnCirclingDriver.
`place` is the vehicle a rider was last put at: enough to say who is carried.
Driving itself (forces, steering) is left out.

### Factory

`ProduceSlot` is the loop body of ProduceItems for one slot, `TickDown` the end
of it for a machine; `PushUnit`/`PushNextSlot` are the body of PushItemsOnNodes.
A slot is a stack of a kind (whose entity it is, is the subject of `Items`).
`Attempt` is craft_perform_recipe: find the first slot and the first recipe,
deplete, set the product and the ticks, or fail and wait as long as the recipe
before took. `Pending` reproduces the arithmetic of the depletion loop. `Burn`
compares fuel with the asset of the first machine of the table. Harvesting and
dragging appear as `Deliver` and `TakeOut` between frames. Bounds: `Capacity`
units a machine holds when more is brought, `Supply`, the `Sites` where belts
may be built. `got` and `lead` are history: what a belt got in this visit, and
beyond the least served one.

### Streaming

A frame is three passes. `Enter` clears the view cache, `WriteViewer` is one
librg_world_write with its callbacks: which things are visible at this radius,
CREATE and REMOVE only in the widest pass, UPDATE for movers whose action timer
lets them (`streams`) and for chunks whose view is dirty. Building the first
view of a chunk takes `is_dirty` with it and later views come from the cache.
`known` is librg's snapshot of a viewer, with the version last sent as history.
The channel is reliable and ordered. The client's `Read` applies the callbacks
of world_view.c, including the rejection of an update of a slower layer, which
depends on its clock.

Left out: the viewer's own entity, empty messages, the 2 MB buffer and the
65536-entity query limit. Bounds: `MaxVersion` changes of an entity; a frame
begins with fewer than `MaxWire` messages on each wire (`MaxWire` bounds the
delay, not the number of messages of one frame).

### Session

Clients have `Views` world views, ask for a player entity for each, show one
and tell the server which. The server finds entities by iterating over the rows
of all flecs tables with a ClientInfo; a row moves to another table as its
entity gains or loses components (`Migrate`, e.g. IsInVehicle). `Despawned` is
network_server_despawn_viewers with its iteration-while-deleting: each deletion
moves the last row into the hole, the loop still counts to the old number of
rows and finds beyond the end, in memory not yet overwritten, the rows it
skipped. (A debug build of flecs asserts there.) `Vanish` is a client whose
process ends without a word; `Disconnect` the server noticing, also by a timeout
of a client that is still running; a peer is then taken by another client.

### Survival

`sandbox` is the game that runs: the sandbox, where players regenerate and stay
dead, or survival, with mobs, knives and respawn. A frame is the chain of
systems in the order they are registered, from `HurtOnHazardBlock` to `Merge`,
each an action over all its entities (`MobSpawner` one per table of players).
Only frames in which the tick timer has elapsed are modelled; slower timers
elapse or not. `dying`, `revived`, `aim`, `staged`, `thrown` and `doomed` are
what is deferred to the merge, which also runs the observers OnDead (with
game_player_died) and MobOnDead for pawns that had no Dead before. Damage is
kept in `dmg` until `ProcessHealthDamage`.

Left open: who stands on a hazardous block, what a mob or projectile reaches,
which player a mob finds, which mobs share a table. Left out: movement, forces,
sprites, notifications. `MaxMobs` grows linearly with the kills (in the code with
a power of them); a volley is cut to the projectiles that are left. A mob whose
prey has left makes the server assert: `Down` is that state.

### Creatures

A frame in which the tick timer has elapsed: CreatureCheckNeeds for all, then
CreatureSeekFood and CreatureSeekCompanion one creature at a time in any order,
then the merge. `tracked` and `lying` are what the tracker knows, changed at
once by despawns and spawns; `willEat`, `willCourt`, `staged` and `doomed` are
deferred. `near` is what the world query lists, `bites` and `mates` what of it is
in reach. `Serve` and `Take` are players and the world generator between frames.
`meals` is history. Bound: as many children as there are ids left.

### Codec and EntityView

`Codec` is pkt_pack_struct and pkt_unpack_struct for any descriptor: one action
for a field or condition, `Overflow` for the buffer that ends there (cwpack
refuses everything from then on, and nobody asks), `Reject` for the returns of
-1. A token has a type and a value, and, for the properties only, the entry it
was written for. `Compressed` and `Decompressed` are utils/compress.c with the
width of the run length as a constant. `EntityView` is the descriptor of
entity_view.c entry by entry and the records world_build_entity_view can fill:
for each kind of entity the components the spawning code gives it and those it
may have.

## Hazards

`PROJECT.json` lists each at its line with the properties that cover it. The
ones that shaped the models:

* several systems and players touching one slot in one frame (`ExclusiveOwnership`,
  `SlotsHoldItems`, `NothingLost`);
* components that exist only after the merge (`NothingLost`, `ImplementsLedger`, `SeatsAgree`);
* a disconnect between two frames (`GhostsGetUp`, `NoOrphans`);
* unsigned arithmetic of stacks (`StackBound`, `Conservation`);
* a state machine spread over a slot loop (`BusyMeansMaking`, `KeepsWorking`);
* deltas against a snapshot (`SnapshotMatches`, `MessagesApply`) and a flag shared
  by several readers (`NoChangeLost`);
* two ends that both choose the active viewer (`SameView`);
* packets that overwrite each other's slots before one frame (`StackBound` and
  `Conservation` of `Items_queue`);
* a death that is recorded at once and at the merge while blows go on
  (`DeadHaveNoHp`, `DeadAreHeld`, `KillsCounted`);
* tags of one entity changed by another, at the merge (`SeekersNeed`, `TwoLivingParents`);
* two walks of one descriptor that share nothing but counts (`NoMixUp`, `WholeViewArrives`).

## Runs

Passing runs (each property also has a mutant that violates it in that run):

| Run | Instance | Shows |
|---|---|---|
| `Items_solo` | 1 player, 1 chest, 3 ids, 2 kinds (max 3 and 1), 2 slots each; 804k states | ownership, quantities, nothing lost, and that every step is one entry of the ledger or none |
| `Items_queue` | the same player with 2 key states before a frame, 4 ids, 1 kind; 255k states | quantities stay conserved and bounded although the second packet's slots replace the first's |
| `Vehicles_seats` | 3 players, 1 NPC, 1 car with 2 seats; 7k states | the two records agree, riders keep their seats, seats of the departed are freed |
| `Factory_bench` | 2 players, a bench with 2 slots and 2 recipes; 114k states | the task and the product stay in step, reagents are paid for, work goes on |
| `Factory_line` | an automatic furnace with 3 slots, 2 sides, fuel, and another asset in the table; 465k states | belts are served once per pass and in turns, reagents stay |
| `Streaming_one` | 1 viewer, 1 chunk, 1 overriding mover, 2 messages in flight; 2.8M states | no change forgotten, snapshots match, messages apply, nothing goes back |
| `Streaming_heads` | 2 viewers of one connection, 1 mover | hidden and despawned entities disappear, across switches |
| `Session_rooms` | 2 peers of 2 views, 2 tables, updates sent behind a welcome that is still on its way; 2.7M states | one entity per view, none left behind, no packet dropped, welcome before update, one shown and streamed view |
| `Survival_horde` | 2 players, 2 mobs, 1 projectile, health 2, delays of 0 or 1, both games; 450k states | the records of a death agree, deaths are counted once, the dead move on |
| `Creatures_herd` | 3 creatures, 2 pieces of food, counters up to 1; 475k states | tags follow needs, food is eaten once, parents live, everyone dies |
| `Codec_views` | the real descriptor, 17 kinds of record, all 27 arrays of 3 bytes, run lengths below 4, every place the buffer can end; 434k states | no field gets another's value, only cut-off views are refused, whole views arrive |

Why these bounds are enough to be interesting: two slots are the least that
allow a merge, an exchange and an overwritten cell; three ids the least that
allow two stacks and a split; a maximum of 3 lets stacks fill up, overflow and
halve; two seats, and three players, allow a full car; two reagent slots allow a
recipe to be paid from two stacks; one chunk and one mover already meet all four
rings, all three passes and a message of each in flight, and two messages on the wire an order; two views and two peers
are the least for rows of one connection to be moved past those of another; two
packets are the least to overwrite slots; two players and two mobs the least for a
prey that is not the mob's own and for a table beside another; two messages to a client the least for an update to be behind a welcome (with
one, updates that overtake welcomes go unnoticed); three creatures the
least for a partner who is already mated; arrays of three bytes the least with a
run at each end and one in the middle, and a run length of 4 values one more than
the field is long, as 65536 is more than the longest field.

With one player `Items_solo` has a chest as the second actor on a lying item; what
two players do to one chest in one frame is in the theorems (`OwnershipIsExclusive`,
`SlotsAreLive`), which hold for any number of them.

One run expects a violation, a disagreement of the code with what it says:

| Run | Property | What happens |
|---|---|---|
| `Vehicles_ghost` | `CarriesRidersOnly` | with two cars, a leaver's seat is not cleared and he is carried on |

Four more configurations reproduce behaviours by hand (each ends in a violation):

| Configuration | Property | What happens |
|---|---|---|
| `Items_phantom.cfg` (`MCItems`) | `NoPhantom` | SPRINT-dragging a single unit "splits" it into 0 and 1 (`system_items.c:254`) |
| `Items_lost.cfg` (`MCItems`) | `NothingLost` | a second split into a slot overwrites one still staged (`system_items.c:263` stores without asking world_entity_valid, as PickItem does at line 39) |
| `Streaming_far.cfg` (`MCStreaming`) | `NoChangeLost` | a viewer outside of the first pass's radius misses a block change (`world.c:149`) |
| `Creatures_starve.cfg` (`MCCreatures`) | `DieIfNoFoodIsLeft` | a creature that has just eaten dies "if no food is left" (`system_demo.c:99`) when nothing else lies further off |

Two more pass. They are for `MobsBounded`, which the theorem `MobsAreBounded` states for
all constants: `Survival_horde` has too few mobs for the cap to be exceeded, and with
enough of them to check the rest as well is beyond TLC. A batch of two is the least that
can exceed a cap, and five mob ids are one more than the bound lets live. Both runs reach
the bound, and both exceed the cap; they fail if the spawner compares with the cap one mob
too late, and the first also if it does not pause after a batch.

| Configuration | Instance | Shows |
|---|---|---|
| `Survival_crowd.cfg` (`MCSurvival`) | 2 players, 5 mob ids, cap and batch 2, no hazards; 35k states | one mob is alive, the call for one table adds an incomplete batch of one and that for the next a full one: four, two above the cap, and never five |
| `Survival_cull.cfg` (`MCSurvival`) | 1 player, 5 mob ids, hazards kill mobs; 40k states | cap and batch grow from one to two with the first kill; three may live then, and never four |

Seen while modelling, and not the subject of a run:

* `models/crafting.c:185-186` lowers the units still to deplete by what is *left*
  in the stack after reducing it: a recipe paid from two stacks can take more
  than it needs. (`ReagentsPaid` therefore says "at least".)
* `system_producer.c:10-12` counts down and emits inside the loop over occupied
  slots: a machine whose container was emptied keeps its product until something
  is put in. (`KeepsWorking` is conditional on that.)
* `world/world_view.c:35` compares milliseconds with a constant in seconds, so
  the "reject updates from slower layers" of line 39 works only within 0.05 ms;
  and when it does, it may drop the only update of a chunk.
* `system_producer.c:17` compares fuel with `d->asset` of the first machine of
  the table; `:18` adds the asset id to `energy_level`.
* The item kinds of one packet can be executed with the slot numbers of a later
  one that arrives in the same frame (`packets/pkt_send_keystate.c:70-90`): placements
  checked for one slot can be made from another, and with SPRINT or CTRL a player
  alone can lose an item (a drop's split staged in a slot, overwritten by a drag's).
* Survival: `closest_ent_dist` of MobDetectPlayers is never lowered, and `p[j]` is
  indexed by players although it is the mobs' array (`system_mob.c:31-37`), so any
  player may be "closest"; `m->plr` in MobMovement and MobMeleeAtk is the prey of the
  table's first mob; the NULL check of `system_mob.c:57` comes too late for a player
  who has left, as ecs_get asserts that he is alive (`PreyExists` is violated); one
  projectile hurts every pawn it touches; players of the sandbox who die are blocked
  for good; mobs can exceed the cap by a batch and, with players in several tables,
  more (`MobsBounded` says by how much, and needs a spawn delay of at least a tick).
* Creatures: one with both tags is matched by neither seeking system and by no
  roaming one, and only ages; n creatures in one spot have n(n-1) children; the
  debug action removes those it spawned and leaves their children.
* Codec: `blocks_used` never travels, as it is in conditions only (nothing on the
  client reads it); "keep for vehicles" covers one of the three vehicle fields, which
  is right only because `inside_vehicle` is needed for players (the mutant with 3
  fails); numbers of one to four bytes are copied into an uninitialised 64-bit one
  (`packet.c:136`); compress_rle reads the byte behind its data; no return code is
  looked at, so a cut-off view replaces the client's by one that is partly blank.
* Replay (`dev/debug_replay.c`): the delay of a record is waited after it, not
  before; an empty recording is read out of range and never ends (line 183);
  swap_storage, storage_action, craft and deletion_mode are not recorded.

## Fairness

* `Vehicles`, `Factory`, `Streaming`: weak fairness of `Frame`. The main loop
  calls `ecs_progress` for ever and a frame always ends.
* `Factory`: strong fairness of `BeginProduce`. ProduceItems runs on a timer that
  elapses again and again, but not in every frame.
* `Streaming`: strong fairness of writing a viewer in the widest pass, for the
  same reason, and weak fairness of reading, as the channel is reliable.

* `Survival`, `Creatures`: weak fairness of the systems of a frame, for the same
  reason as above; that slower timers elapse or that anybody hits is not assumed.

Nothing is assumed about players, packets, departures or timers otherwise.

## Proofs

TLAPS checks these for all values of the constants (only the named assumptions
of each module are used).

Tools of the trade. Induction is not a rule of the installed provers, so three
lemmas take its place wherever a definition recurses: `LeastNatural` and `UpTo` (a
set of the naturals up to N that has 0 and, with any number, the next one, is all of
them), `RecursionSolved` (a recursive function over an interval exists, so that the
CHOOSE behind it satisfies its equation), `SubsetInduction` (the same along
proper subsets of a finite set). On them rest the lemmas about sums
(`SumFound`, `SumSplit`, `SumSame`, `ChosenSum`: the community modules' sum is
independent of the order in which it is taken) and about folds (`FoldFound`). They
are stated where they are used, in more than one module.

* `ItemsProofs`. For all inputs, also those the runs leave out: `TypeCorrect`,
  `OwnershipIsExclusive`, `SlotsAreLive`, `ShownAreAlive`. Exclusive ownership is not
  inductive alone: that a lying item can be stored without being in another slot
  needs "what a slot refers to is hidden", that a slot never refers to a reused id
  needs "what a slot refers to exists", and a poured-away stack must be invisible.
  `IInv` is the types and the three together. `StoreOwns`, `DespawnOwns`,
  `SpawnInCell` are the three ways a slot or an item changes, and every system is
  reduced to them.

  Under restraint, because without it the code breaks these promises and TLC shows
  it: `Gentle` (one packet per frame and no SPRINT in a drag, or no SPRINT at all;
  false in `Items_phantom.cfg`) and `Undisturbed` (one player who does not drop and drag
  in one frame, or players without modifier keys; false in `Items_lost.cfg`). Both hold
  in `Items_solo`, `Gentle` also in `Items_queue`. `StacksBounded`: `StackInv` adds that no
  stack is empty or too large (`GoodStacks`), that what a player is about to do was
  pressed in this frame (`KeysInv`) and that who places items still has them selected
  (`AffordInv`); then no subtraction wraps. `NothingIsLost`: `Calm` adds that nothing
  in the slots of the only player is staged before he drags, so no split overwrites
  one. `UnitsAreConserved`: every system changes the quantities of at most two stacks
  by opposite amounts, and a sum over the items does not notice.
  `ItemsImplementLedger` maps each system to at most one entry of the ledger
  (`Entry`), by what changes at the one or two stacks it touches, or at the new stacks
  of several kinds that destroyed blocks leave; it needs all of the
  above.
* `VehiclesProofs`: `VehicleTypes` and `NobodyLosesHisSeat` for any number of
  vehicles. `Pending` says, stage by stage, what the deferred commands may
  contain; `UnbornEmpty` that a vehicle not yet spawned has no passengers.
  `OneVehicleOneSeat`, `OneVehicleAgrees`, `OneVehicleCarries` add
  `SeatsMeanRiding` and assume `OneVehicle`: with two, `Vehicles_ghost` refutes
  them.
* `FactoryProofs`. `BusyMachinesMake`: the strengthening says only which machine a
  visit may be at. `BeltsServedOnce` and `BeltsInTurns` need the same fact: going round
  the sides, what has been served lies between some side and the counter (`Arc`), so
  what the counter selects next has not been served while a belt is left over
  (`NextIsUnserved`). In a pass one is left over because the units still to give are
  no more than the belts left (`PassInv`); over many passes because the count starts
  again once all belts have caught up (`TurnsInv`). `FactoryTyped`, `ReagentsAreLeft`
  and `RecipesArePaid` are about what a container holds, a sum over its slots. A unit
  pushed changes one slot, which the filter says is no reagent. For a recipe the
  depletion is solved slot by slot (`CountsDown`): an emptied stack pays nothing, as
  what is left of it is subtracted, so the first stack that has more than is pending
  finds everything still pending and pays it alone; if there is none, every stack of
  that kind is emptied. Either way the sum falls by what the recipe needs at least.
* `StreamingProofs`: `StreamingTypes`, and `OneViewerMissesNothing` under
  `OneViewer`. `NothingCached` is what makes it inductive: until the only viewer
  is written the cache is empty, so the dirty flag and the update go together.
  `RecordMatches` and `AllMessagesApply` share an invariant over the whole wire,
  `WireInv`: each message applies to what the client will have when it has read those
  before it, and librg's record is what it will have after the last (`RecordAhead`).
  `NeverGoesBack` adds `RisingInv`: the versions of a thing on a wire rise, from what
  the client shows to what the record says was sent.
* `SessionProofs`: `SessionTyped`, `OneEntity`, `NobodyLeftBehind`, `EverythingHeard`,
  `GreetedFirst`, `ViewsAgree`. The deletion loop is an induction over its turns
  (`Halfway`): what is behind turn i is untouched, what is live is what the loop has not
  come to and what belongs to others, so nothing of the connection is left after the
  last. The rest is one invariant of each connection, `Sound`, over both queues: views
  are asked for in order and before anything else, a view is welcomed before it is
  updated, the last switch on its way is to the view that is shown.
* `SurvivalProofs`: `TypeCorrect`, `DeadHaveNone`, `DeadHeld`, `DeathsCounted`, for
  any damages, delays and numbers of pawns. The records agree between frames only;
  the strengthening speaks of every point of a frame: whoever has no health is among
  those who will be dead after the merge (`Mortal`), the blocked are the dead but for
  those just revived (`Held`), and the kills count the mobs that are dead or gone, but
  not those still staged (`KillsMatch`); `Pending` says at which stages the deferred
  sets are empty. `MobsAreBounded` assumes a spawn delay of as many ticks as there are
  players besides one (it is 30 ticks, and the server accepts 8 peers): then a completed batch
  keeps the spawner quiet for the tables of players left in the frame (`Horde`).
  `Survival_crowd.cfg` and `Survival_cull.cfg` are instances in which the cap is exceeded.
* `CreaturesProofs`: `TypeCorrect`, `TagsFollowNeeds`, `NoBiteTooMany`,
  `ChildrenHaveParents`. The tags to come must agree with the counters at every stage
  (`TagsAgree`), and the tags there are only between frames; the tracker lists no
  stack of quantity 0 (`NoEmptyPlates`) and no one who is doomed, whence the bites
  and the living parents. `FoodIsEatenOnce`: a bite takes from the sum over the stacks
  what it adds to the meals.
* `CodecProofs`: `InStepWithPacker` for every descriptor whose conditions skip inside
  it: what is left on the wire starts at the entry the unpacker is at, and
  successive tokens are written for successive entries (`Behind`). `CodeLosesNothing`:
  after each round of compress_rle the runs written and the one begun stand for the
  bytes so far (`Begun`), so decompressing gives back any array shorter than 2^16. With
  it `NothingMixedUp` and `OnlyCutOffRefused` hold for all descriptors and records.
  `AcceptedIsWhole` reduces `WholeViewArrives` to a property of the descriptor and the
  records alone, `Tidy`: what a condition leaves out is blank or is sent by another
  entry. That the descriptor of entity views is tidy for the records the server builds
  is what TLC's run of `WholeViewArrives` shows.

The assumptions. `EntitiesAssumption`: there are finitely many items.
`PlacesAssumption`: the names of the places that are not slots differ from each other
and from slots. `FactoryAssumption` keeps `Nothing` apart from stacks.
`CodecAssumption`: conditions skip inside the descriptor, arrays have the size of
their field, and that is less than 2^16 (the longest has a few hundred bytes). TLC
evaluates each for the instances.

Only model-checked: `GhostsGetUp`, `KeepsWorking`, `GhostsFade`, `DeadMoveOn` and
`EveryoneDies`, as liveness under fairness is beyond TLAPS. Every safety property of the
passing runs is stated by a theorem, some under the hypotheses above
(`OneVehicle`, `OneViewer`, `Gentle`, `Undisturbed`, `Tidy`, the spawn delay).

## Not modelled

* Replay: a developer's tool of one actor that appends key states to an array and
  feeds them back in order; what is wrong with it (above) is in single statements.
* Blueprints: a list of blocks placed once by a loop, with no state of its own that
  another actor could meet.
* Physics, on-foot movement and prediction integrate floating-point positions.
* Assets, database, world generation: tables and noise read or computed once before
  the game starts; the models take what they need of them as constants.
* GUI, rendering, input, options, platform: display and process start-up.
* Vendored libraries under `src/code/vendors` (flecs, librg, ENet, cwpack, zpl,
  sqlite, raylib): modelled only as far as the program relies on them, and marked
  external.

## Plan

Written in this order, the most shared state first: `Items` with its ledger,
`Vehicles`, `Factory`, `Streaming`, `Session`, `Survival`, `Creatures`, `Codec` with
`EntityView`; each with its instance, runs, mutants and theorems. Next:

1. A ledger-like abstract specification of `Session` (who is in which view) and of
   `Streaming` (a client eventually shows a state the server had), with their
   refinements.
2. The hypotheses of `Items` made as weak as the counterexamples of `Items_phantom.cfg`
   and `Items_lost.cfg` allow.
3. A stale client in `Items`: placements checked against what was last streamed.
