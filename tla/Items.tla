------------------------------- MODULE Items -------------------------------
(***************************************************************************)
(* Items, inventories and containers: the per-frame systems of             *)
(* foundation/src/systems/modules/system_items.c over the entities of      *)
(* foundation/src/models/items.c, fed by the key-state packets.            *)
(*                                                                         *)
(* An item is an ECS entity that either lies in the world (the tracker     *)
(* shows it) or is hidden and referenced by one slot of an inventory or of *)
(* a container.  Nothing in the code records the owner in the item: the    *)
(* slot arrays are the only truth, and every system that moves an item     *)
(* has to keep the arrays, the visibility and the quantities in step.      *)
(*                                                                         *)
(* The server runs the systems of one frame in registration order, each    *)
(* over every entity that matches it, inside one ecs_progress.  flecs      *)
(* defers what changes an entity's components to the end of the frame: an  *)
(* item spawned by a system is alive at once and can be stored in a slot,  *)
(* but has no Item component (item_get_data returns NULL) until the merge; *)
(* a despawned item leaves the tracker at once and keeps its data until    *)
(* the merge.  Packets, spawns by the debug tools and player departures    *)
(* happen between frames and take effect immediately.                      *)
(***************************************************************************)
EXTENDS Integers, FiniteSets, FiniteSetsExt

CONSTANTS
    Player,         \* entities with an Inventory
    Container,      \* entities with an ItemContainer (chests, machines)
    NoContainer,    \* storage_ent = 0
    Ent,            \* the ids item entities are given
    NoEnt,          \* an empty slot (0)
    Kind,           \* kinds of item
    Placeable,      \* the kinds whose usage is UKIND_PLACE..UKIND_PLACE_ITEM_DATA
    MaxQuantity,    \* max_quantity of the item database, per kind
    Wrap,           \* quantities are unsigned: arithmetic is modulo Wrap
    Slot,           \* slot indices
    Leavers,        \* players who may leave the game
    Inputs,         \* the key states a client may send
    PacketCap,      \* bound: packets of one player between two frames
    Reserve,        \* bound: free ids kept for the spawns of one frame
    SpawnQty        \* quantities the debug tools and the world generator spawn

InputType ==
    [use : BOOLEAN, places : Nat, drop : BOOLEAN, swap : BOOLEAN,
     toStorage : BOOLEAN, pick : BOOLEAN, sprint : BOOLEAN, ctrl : BOOLEAN,
     storage : BOOLEAN, slot : Slot, from : Slot, to : Slot,
     deletion : BOOLEAN]

ASSUME ItemsAssumption ==
    /\ Player \cap Container = {}
    /\ NoContainer \notin Container \cup Player
    /\ NoEnt \notin Ent
    /\ Placeable \subseteq Kind /\ Kind # {}
    /\ Wrap \in Nat \ {0}
    /\ MaxQuantity \in [Kind -> 1 .. Wrap - 1]
    /\ Slot \subseteq Nat /\ Slot # {}
    /\ Inputs \subseteq InputType /\ Leavers \subseteq Player
    /\ PacketCap \in Nat /\ Reserve \in Nat
    /\ SpawnQty \subseteq 1 .. Wrap - 1

\* An id is a number of a fixed width.
ASSUME EntitiesAssumption == IsFiniteSet(Ent)

VARIABLES
    life,       \* [Ent -> Lives]: the entity's place in the ECS
    kind,       \* Item.kind
    qty,        \* Item.quantity
    shown,      \* visibility in the world tracker (item_show)
    held,       \* Inventory.items and ItemContainer.items
    open,       \* Input.storage_ent of each player
    cooling,    \* Inventory.pickup_time is in the future
    input,      \* the activators accumulated in each player's Input
    packets,    \* packets received since the last frame
    stage,      \* the system that is running, "net" between frames
    todo,       \* the entities the running system has not visited yet
    abandoned   \* history: items held by players who have left

itemVars == <<life, kind, qty, shown, held>>
vars == <<life, kind, qty, shown, held, open, cooling, input, packets,
          stage, todo, abandoned>>

Lives == {"free", "staged", "live", "dying"}

Holder == Player \cup Container
Cell == Holder \X Slot

\* A client that presses nothing: what memset and ResetActivators leave.
Idle(s) ==
    [use |-> FALSE, places |-> 0, drop |-> FALSE, swap |-> FALSE,
     toStorage |-> FALSE, pick |-> FALSE, sprint |-> FALSE, ctrl |-> FALSE,
     storage |-> FALSE, slot |-> s, from |-> s, to |-> s, deletion |-> FALSE]

AnySlot == CHOOSE s \in Slot : TRUE

Least(m, n) == IF m <= n THEN m ELSE n

----------------------------------------------------------------------------
(* Entities                                                                *)

\* Mutant: the systems ask for item data where they ask for a valid entity.
Valid_Data(e) == e # NoEnt /\ life[e] \in {"live", "dying"}

\* world_entity_valid: the id is alive, with or without its components.
Valid(e) == e # NoEnt /\ life[e] # "free"

\* item_get_data # NULL: alive and past the merge that gave it its Item.
HasData(e) == e # NoEnt /\ life[e] \in {"live", "dying"}

\* The ids ecs_new may return: not alive, and (as flecs tags every reuse of
\* an id with a new generation) not referenced by any slot.
Fresh == {e \in Ent : life[e] = "free" /\ \A c \in Cell : held[c] # e}

\* What the tracker's query returns among the items that have their data.
Lying == {e \in Ent : shown[e] /\ life[e] = "live"}

\* item_despawn: out of the tracker now, deleted at the merge.
Despawned(e) == /\ life'  = [life EXCEPT ![e] = "dying"]
                /\ shown' = [shown EXCEPT ![e] = FALSE]

----------------------------------------------------------------------------
(* The frame                                                               *)

\* The systems in the order systems.c registers them for EcsPostUpdate.
Rank == [net |-> 0, pick |-> 1, drop |-> 2, swap |-> 3, use |-> 4,
         inspect |-> 5, harvest |-> 6, merge |-> 7]

Stages == DOMAIN Rank

\* The entities a system does not `continue` past on its first guard.
Acting(s) ==
    CASE s = "pick"    -> {p \in Player : ~cooling[p]}
      [] s = "drop"    -> {p \in Player : input[p].drop}
      [] s = "swap"    -> {p \in Player : input[p].swap}
      [] s = "use"     -> {p \in Player : input[p].use \/ input[p].places > 0}
      [] s = "inspect" -> {p \in Player : input[p].pick}
      [] s = "harvest" -> Container
      [] OTHER         -> {}

\* Entity h's turn in system s.  Archetype tables fix an order of their own,
\* so the model lets the entities go in any order.
Turn(s, h) == /\ stage = s
              /\ h \in todo
              /\ todo' = todo \ {h}
              /\ UNCHANGED <<stage, packets, abandoned>>

----------------------------------------------------------------------------
(* Taking an item into the first slot with room: PickItem for a player,    *)
(* HarvestIntoContainers for a container.                                  *)

\* The slot ends the search: it has no item data, or it is a stack of the
\* same kind that is not full.
Room(h, e, s) ==
    LET t == held[<<h, s>>]
    IN  HasData(t) => kind[t] = kind[e] /\ qty[t] < MaxQuantity[kind[e]]

FirstRoom(h, e, s) == Room(h, e, s) /\ \A r \in Slot : r < s => ~Room(h, e, r)

\* Mutant: the lying stack is not reduced.
Pour_Copy(e, t) ==
    LET n == Least(qty[e], MaxQuantity[kind[e]] - qty[t])
    IN  /\ qty' = [qty EXCEPT ![t] = @ + n]
        /\ UNCHANGED <<life, kind, shown, held>>

\* Merge the lying stack e into the held stack t.
Pour(e, t) ==
    LET n == Least(qty[e], MaxQuantity[kind[e]] - qty[t])
    IN  /\ qty' = [qty EXCEPT ![e] = @ - n, ![t] = @ + n]
        /\ IF qty[e] = n THEN Despawned(e) ELSE UNCHANGED <<life, shown>>
        /\ UNCHANGED <<kind, held>>

\* Hide e and store it in the cell.
Store(c, e) == /\ held'  = [held EXCEPT ![c] = e]
               /\ shown' = [shown EXCEPT ![e] = FALSE]
               /\ UNCHANGED <<life, kind, qty>>

TakeInto(h, e) ==
    \E s \in Slot :
        /\ FirstRoom(h, e, s)
        /\ LET c == <<h, s>>
           IN  \/ HasData(held[c]) /\ Pour(e, held[c])
               \/ ~Valid(held[c]) /\ Store(c, e)
               \/ /\ Valid(held[c]) /\ ~HasData(held[c])  \* spawned this frame
                  /\ UNCHANGED itemVars

\* PickItem: walking over an item takes it, no key is needed.  Which items
\* are in reach is left open; an item that fits nowhere is passed over.
PickItem(p) == /\ Turn("pick", p)
               /\ \/ \E e \in Lying : TakeInto(p, e)
                  \/ UNCHANGED itemVars
               /\ UNCHANGED <<open, cooling, input>>

HarvestIntoContainers(h) == /\ Turn("harvest", h)
                            /\ \/ \E e \in Lying : TakeInto(h, e)
                               \/ UNCHANGED itemVars
                            /\ UNCHANGED <<open, cooling, input>>

----------------------------------------------------------------------------
(* DropItem                                                                *)

\* The array a player's selected slot indexes: his own, or that of the
\* container he has open (NoContainer when he has none).
Box(p) == IF input[p].storage THEN open[p] ELSE p

DropCell(p) == <<Box(p), input[p].slot>>

DroppedCount(p, q) == CASE input[p].sprint -> q \div 2
                        [] ~input[p].sprint /\ input[p].ctrl -> q - 1
                        [] OTHER -> q

CanDrop(p) == /\ Box(p) # NoContainer
              /\ HasData(held[DropCell(p)])
              /\ qty[held[DropCell(p)]] > 0
              /\ DroppedCount(p, qty[held[DropCell(p)]]) > 0

\* The stack itself goes into the world; when only a part of it is dropped,
\* the part is what is spawned anew, hidden, to stay in the slot.
DropStack(p) ==
    LET c == DropCell(p)
        e == held[c]
        n == DroppedCount(p, qty[e])
    IN  /\ shown' = [shown EXCEPT ![e] = TRUE]
        /\ IF qty[e] - n > 0
           THEN \E te \in Fresh :
                    /\ life' = [life EXCEPT ![te] = "staged"]
                    /\ kind' = [kind EXCEPT ![te] = kind[e]]
                    /\ qty'  = [qty EXCEPT ![e] = @ - n, ![te] = n]
                    /\ held' = [held EXCEPT ![c] = te]
           ELSE /\ held' = [held EXCEPT ![c] = NoEnt]
                /\ UNCHANGED <<life, kind, qty>>

DropItem(p) ==
    /\ Turn("drop", p)
    /\ IF CanDrop(p)
       THEN /\ DropStack(p)
            /\ cooling' = [cooling EXCEPT ![p] = TRUE]
            /\ input' = [input EXCEPT ![p].drop = FALSE]
       ELSE UNCHANGED <<itemVars, cooling, input>>
    /\ UNCHANGED open

----------------------------------------------------------------------------
(* SwapItems                                                               *)

\* Where the dragged item comes from and goes to.  With swap_storage it
\* crosses between the inventory and the open container, towards the
\* container when storage_action is set; otherwise it stays in one array.
FromCell(p) == <<IF input[p].toStorage
                 THEN IF input[p].storage THEN p ELSE open[p]
                 ELSE Box(p), input[p].from>>
ToCell(p) == <<Box(p), input[p].to>>

\* Mutant: the room left in the target is not considered.
SwappedCount_Unclamped(p, a, b) ==
    CASE input[p].sprint -> qty[a] \div 2
      [] ~input[p].sprint /\ input[p].ctrl -> 1
      [] OTHER -> qty[a]

SwappedCount(p, a, b) ==
    Least(CASE input[p].sprint -> qty[a] \div 2
            [] ~input[p].sprint /\ input[p].ctrl -> 1
            [] OTHER -> qty[a],
          (MaxQuantity[kind[b]] - qty[b]) % Wrap)

SplitCount(p, a) == IF input[p].ctrl THEN 1 ELSE qty[a] \div 2

\* Mutant: the slot of an emptied stack is not cleared.
MergeStacks_Dangling(p, from, a, b) ==
    LET n == SwappedCount(p, a, b)
    IN  /\ qty' = [qty EXCEPT ![a] = @ - n, ![b] = @ + n]
        /\ IF qty[a] = n THEN Despawned(a) ELSE UNCHANGED <<life, shown>>
        /\ UNCHANGED <<kind, held>>

\* Same kind on both ends: move units, despawn the source when it is empty.
\* CTRL moves one unit even off a stack of none, which then wraps.
MergeStacks(p, from, a, b) ==
    LET n == SwappedCount(p, a, b)
    IN  /\ qty' = [qty EXCEPT ![a] = (@ - n) % Wrap, ![b] = (@ + n) % Wrap]
        /\ IF qty[a] = n
           THEN Despawned(a) /\ held' = [held EXCEPT ![from] = NoEnt]
           ELSE UNCHANGED <<life, shown, held>>
        /\ UNCHANGED kind

\* A modifier key and no item at the other end: spawn a part of the stack
\* there.  What the slot held is overwritten, be it an item spawned earlier
\* in this frame.
SplitStack(p, to, a) ==
    LET n == SplitCount(p, a)
    IN  IF qty[a] = n
        THEN UNCHANGED itemVars
        ELSE \E te \in Fresh :
                 /\ life'  = [life EXCEPT ![te] = "staged"]
                 /\ kind'  = [kind EXCEPT ![te] = kind[a]]
                 /\ shown' = [shown EXCEPT ![te] = FALSE]
                 /\ qty'   = [qty EXCEPT ![a] = @ - n, ![te] = n]
                 /\ held'  = [held EXCEPT ![to] = te]

\* Mutant: the second half of the exchange is missing.
ExchangeCells_Copy(from, to) ==
    /\ held' = [held EXCEPT ![to] = held[from]]
    /\ UNCHANGED <<life, kind, qty, shown>>

ExchangeCells(from, to) ==
    /\ held' = [held EXCEPT ![from] = held[to], ![to] = held[from]]
    /\ UNCHANGED <<life, kind, qty, shown>>

MoveBetween(p, from, to) ==
    LET a == held[from]
        b == held[to]
        Same == HasData(b) /\ kind[a] = kind[b] /\ qty[b] > 0
        Splits == (input[p].ctrl \/ input[p].sprint) /\ ~HasData(b) /\ qty[a] > 0
    IN  \/ from = to /\ UNCHANGED itemVars
        \/ from # to /\ Same /\ MergeStacks(p, from, a, b)
        \/ from # to /\ Splits /\ SplitStack(p, to, a)
        \/ from # to /\ ~Same /\ ~Splits /\ ExchangeCells(from, to)

CanSwap(p) == /\ input[p].storage \/ input[p].toStorage => open[p] # NoContainer
              /\ HasData(held[FromCell(p)])

\* The code clears `swap` only on the paths that get to the end, and
\* ResetActivators clears it anyway; `swap_storage` is cleared here alone.
SwapItems(p) ==
    /\ Turn("swap", p)
    /\ IF CanSwap(p) THEN MoveBetween(p, FromCell(p), ToCell(p))
                     ELSE UNCHANGED itemVars
    /\ input' = [input EXCEPT ![p].toStorage =
                     @ /\ input[p].storage /\ open[p] = NoContainer]
    /\ UNCHANGED <<open, cooling>>

----------------------------------------------------------------------------
(* UseItem                                                                 *)

\* Each item of S is spawned by a system, one unit of its kind, and visible.
Spawned(S, kinds) ==
    /\ life'  = [e \in Ent |-> IF e \in S THEN "staged" ELSE life[e]]
    /\ kind'  = [e \in Ent |-> IF e \in S THEN kinds[e] ELSE kind[e]]
    /\ qty'   = [e \in Ent |-> IF e \in S THEN 1 ELSE qty[e]]
    /\ shown' = [e \in Ent |-> e \in S \/ shown[e]]
    /\ UNCHANGED held

\* Deletion mode: each destroyed outer block may drop one item, of the kind
\* of its own block, into the world.
DestroyBlocks(p) ==
    \E S \in SUBSET Fresh :
        /\ Cardinality(S) <= input[p].places
        /\ \E drops \in [S -> Kind] : Spawned(S, drops)

\* item_use once per placement: each one takes a unit, or is refused (the
\* block is taken), or replaces the same block and refunds the unit.  The
\* quantity is not looked at in between.
PlaceItems(p, e) ==
    \E n \in 0 .. input[p].places :
        LET left == (qty[e] - n) % Wrap
        IN  /\ qty' = [qty EXCEPT ![e] = left]
            /\ IF left = 0
               THEN /\ Despawned(e)
                    /\ held' = [held EXCEPT ![<<p, input[p].slot>>] = NoEnt]
               ELSE UNCHANGED <<life, shown, held>>
            /\ UNCHANGED kind

UseItem(p) ==
    LET e == held[<<p, input[p].slot>>]
        Placing == HasData(e) /\ qty[e] > 0 /\ kind[e] \in Placeable
    IN  /\ Turn("use", p)
        /\ \/ /\ ~input[p].storage /\ input[p].deletion /\ ~input[p].use
              /\ DestroyBlocks(p)
           \/ /\ ~input[p].storage /\ ~input[p].deletion /\ Placing
              /\ PlaceItems(p, e)
           \/ /\ \/ input[p].storage
                 \/ input[p].deletion /\ input[p].use
                 \/ ~input[p].deletion /\ ~Placing
              /\ UNCHANGED itemVars
        /\ UNCHANGED <<open, cooling, input>>

----------------------------------------------------------------------------
(* InspectContainers, the end of the frame, and what happens between       *)
(* frames.                                                                 *)

\* The selection (the closest interactable, toggled) is left open: it may be
\* nothing, a container, or another entity, which changes nothing.
InspectContainers(p) ==
    /\ Turn("inspect", p)
    /\ \E c \in Container \cup {NoContainer, open[p]} :
           open' = [open EXCEPT ![p] = c]
    /\ UNCHANGED <<itemVars, cooling, input>>

\* On to the next system that has an entity to work on, or to the merge.
NextSystem ==
    /\ todo = {}
    /\ \E s \in Stages :
           /\ Rank[stage] < Rank[s]
           /\ s = "merge" \/ Acting(s) # {}
           /\ \A r \in Stages :
                  Rank[stage] < Rank[r] /\ Rank[r] < Rank[s] => Acting(r) = {}
           /\ stage' = s
           /\ todo' = Acting(s)
    /\ UNCHANGED <<itemVars, open, cooling, input, packets, abandoned>>

\* ResetActivators, then the deferred commands of the frame are merged.  What
\* the next packet overwrites is not read before it, and so is reset as well:
\* of a key state only swap_storage survives the frame.
Merge ==
    LET gone == {e \in Ent : life[e] = "dying"}
        k0 == CHOOSE k \in Kind : TRUE
    IN  /\ stage = "merge"
        /\ input' = [p \in Player |->
                        [Idle(AnySlot) EXCEPT !.toStorage = input[p].toStorage]]
        /\ life' = [e \in Ent |-> CASE e \in gone -> "free"
                                    [] life[e] = "staged" -> "live"
                                    [] OTHER -> life[e]]
        /\ kind' = [e \in Ent |-> IF e \in gone THEN k0 ELSE kind[e]]
        /\ qty'  = [e \in Ent |-> IF e \in gone THEN 0 ELSE qty[e]]
        /\ stage' = "net"
        /\ todo' = {}
        /\ packets' = [p \in Player |-> 0]
        /\ UNCHANGED <<shown, held, open, cooling, abandoned>>

\* pkt_send_keystate_handler: one-shot activators accumulate until the frame
\* consumes them, the rest is overwritten by the latest packet.
Accumulate(i, m) ==
    [m EXCEPT !.use = @ \/ i.use, !.drop = @ \/ i.drop, !.swap = @ \/ i.swap,
              !.pick = @ \/ i.pick, !.toStorage = @ \/ i.toStorage,
              !.places = IF @ > 0 THEN @ ELSE i.places]

\* The client caps its placements by the quantity its view shows (fresh here).
Affordable(p, m) ==
    LET e == held[<<p, m.slot>>]
    IN  m.places > 0 /\ ~m.deletion => HasData(e) /\ m.places <= qty[e]

Keystate(p, m) ==
    /\ stage = "net"
    /\ packets[p] < PacketCap
    /\ Cardinality(Fresh) >= Reserve
    /\ Affordable(p, m)
    /\ input' = [input EXCEPT ![p] = Accumulate(@, m)]
    /\ packets' = [packets EXCEPT ![p] = @ + 1]
    /\ UNCHANGED <<itemVars, open, cooling, stage, todo, abandoned>>

\* item_spawn by the debug tools or the world generator: visible at once.
\* Stacks larger than the kind allows are left out (a bound).
SpawnItem(e, k, q) ==
    /\ stage = "net"
    /\ q <= MaxQuantity[k]
    /\ Cardinality(Fresh) > Reserve
    /\ e \in Fresh
    /\ life'  = [life EXCEPT ![e] = "live"]
    /\ kind'  = [kind EXCEPT ![e] = k]
    /\ qty'   = [qty EXCEPT ![e] = q]
    /\ shown' = [shown EXCEPT ![e] = TRUE]
    /\ UNCHANGED <<held, open, cooling, input, packets, stage, todo, abandoned>>

\* The time of pickup_time passes.
CoolDown(p) ==
    /\ stage = "net"
    /\ cooling[p]
    /\ cooling' = [cooling EXCEPT ![p] = FALSE]
    /\ UNCHANGED <<itemVars, open, input, packets, stage, todo, abandoned>>

\* player_despawn: the entity and its inventory are gone, the items are not.
\* A player who joins again is a new entity with an empty inventory.
Leave(p) ==
    /\ stage = "net"
    /\ p \in Leavers
    /\ abandoned' = abandoned \cup ({held[<<p, s>>] : s \in Slot} \ {NoEnt})
    /\ held' = [c \in Cell |-> IF c[1] = p THEN NoEnt ELSE held[c]]
    /\ open' = [open EXCEPT ![p] = NoContainer]
    /\ cooling' = [cooling EXCEPT ![p] = FALSE]
    /\ input' = [input EXCEPT ![p] = Idle(AnySlot)]
    /\ UNCHANGED <<life, kind, qty, shown, packets, stage, todo>>

----------------------------------------------------------------------------
Init == /\ life = [e \in Ent |-> "free"]
        /\ kind = [e \in Ent |-> CHOOSE k \in Kind : TRUE]
        /\ qty = [e \in Ent |-> 0]
        /\ shown = [e \in Ent |-> FALSE]
        /\ held = [c \in Cell |-> NoEnt]
        /\ open = [p \in Player |-> NoContainer]
        /\ cooling = [p \in Player |-> FALSE]
        /\ input = [p \in Player |-> Idle(AnySlot)]
        /\ packets = [p \in Player |-> 0]
        /\ stage = "net"
        /\ todo = {}
        /\ abandoned = {}

Next == \/ \E p \in Player :
               \/ PickItem(p) \/ DropItem(p) \/ SwapItems(p) \/ UseItem(p)
               \/ InspectContainers(p)
               \/ CoolDown(p) \/ Leave(p)
               \/ \E m \in Inputs : Keystate(p, m)
        \/ \E h \in Container : HarvestIntoContainers(h)
        \/ \E e \in Ent, k \in Kind, q \in SpawnQty : SpawnItem(e, k, q)
        \/ NextSystem \/ Merge

Spec == Init /\ [][Next]_vars

----------------------------------------------------------------------------
(* Properties                                                              *)

Existing == {e \in Ent : life[e] \in {"staged", "live"}}

\* Types; quantities stay within the width the code stores them in.
TypeOK == /\ life \in [Ent -> Lives]
          /\ kind \in [Ent -> Kind]
          /\ qty \in [Ent -> 0 .. Wrap - 1]
          /\ shown \in [Ent -> BOOLEAN]
          /\ held \in [Cell -> Ent \cup {NoEnt}]
          /\ open \in [Player -> Container \cup {NoContainer}]
          /\ cooling \in [Player -> BOOLEAN]
          /\ input \in [Player -> InputType]
          /\ packets \in [Player -> Nat]
          /\ stage \in Stages
          /\ todo \subseteq Holder
          /\ abandoned \subseteq Ent

\* No two slots, of whatever inventory or container, refer to the same item.
ExclusiveOwnership ==
    \A c, d \in Cell : held[c] = held[d] /\ held[c] # NoEnt => c = d

\* A slot refers to an item that exists (its despawn never leaves a dangling
\* id behind) and that nobody can see lying in the world at the same time.
SlotsHoldItems ==
    \A c \in Cell : held[c] # NoEnt => /\ held[c] \in Existing
                                       /\ ~shown[held[c]]

\* Only an existing item is visible: a stack poured away in this frame is
\* out of the tracker before the next system queries it.
ShownExist == \A e \in Ent : shown[e] => e \in Existing

\* No stack outgrows what the database allows for its kind.
StackBound == \A e \in Existing : qty[e] <= MaxQuantity[kind[e]]

\* No item exists with nothing in it.
NoPhantom == \A e \in Existing : qty[e] > 0

\* An item that exists is reachable: it lies in the world, some slot refers
\* to it, or its holder has left the game.
NothingLost ==
    \A e \in Existing : \/ shown[e]
                        \/ \E c \in Cell : held[c] = e
                        \/ e \in abandoned

Units(k) == MapThenSumSet(LAMBDA e : IF kind[e] = k THEN qty[e] ELSE 0, Ent)

\* Picking, dropping, swapping, splitting, merging and harvesting move units
\* about and neither make nor destroy any.
Conservation ==
    [][stage \notin {"net", "use"} => \A k \in Kind : Units(k)' = Units(k)]_vars
=============================================================================
