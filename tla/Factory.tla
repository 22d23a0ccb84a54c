------------------------------ MODULE Factory ------------------------------
(***************************************************************************)
(* Machines: system_producer.c, system_logistics.c, CraftItem of           *)
(* system_items.c and the recipes of models/crafting.c.                    *)
(*                                                                         *)
(* A machine crafts out of its own container, one recipe at a time.  Its   *)
(* state machine (pending_task, processed_item, process_ticks_left) only   *)
(* advances while ProduceItems loops over the slots of the container, and  *)
(* the slots change while it does: fuel is burnt, reagents are depleted,   *)
(* players put stacks in and take them out, requests for another product   *)
(* arrive.  PushItemsOnNodes shares the remaining stacks among the         *)
(* conveyor belts next to the machine.                                     *)
(*                                                                         *)
(* Who owns which item entity is the subject of Items; here a slot is a    *)
(* stack of some kind.                                                     *)
(***************************************************************************)
EXTENDS Integers, Sequences, FiniteSets, FiniteSetsExt

CONSTANTS
    Machine,    \* devices with an ItemContainer and a Producer or a router
    Producer,   \* those that craft; the others (splitters) only route
    Router,     \* those with an ItemRouter
    Automatic,  \* spawned with PRODUCER_CRAFT_AUTO
    Asset,      \* Device.asset of each machine
    Filter,     \* Producer.push_filter; a splitter has none and pushes all
    Player,
    Kind,       \* kinds of item
    Nothing,    \* item kind 0, storage_ent 0, an empty slot
    Fuel,       \* EnergySource.kind: the asset a kind burns in, or Nothing
    Recipes,    \* the recipes table, in order
    N,          \* ITEMS_CONTAINER_SIZE
    Supply,     \* the stacks players and belts may bring
    Capacity,   \* bound: units each machine may hold when more is brought
    Sites       \* bound: the sides of each machine where belts come and go

Node == 0 .. 3      \* up, down, left, right
Slot == 0 .. N - 1
Stack == [kind : Kind, qty : Nat \ {0}]
RecipeType == [product : Kind, ticks : Nat \ {0},
               producer : {Asset[m] : m \in Machine}, needs : [Kind -> Nat]]
Needs(r, k) == Recipes[r].needs[k]
Tasks == {"waiting", "busy", "enqueued", "auto"}

ASSUME FactoryAssumption ==
    /\ Producer \cup Router = Machine /\ Automatic \subseteq Producer
    /\ Nothing \notin Machine \cup Kind /\ Nothing \notin Stack
    /\ Filter \in [Machine -> {"product", "any", "none", "all"}]
    /\ Fuel \in [Kind -> {Asset[m] : m \in Machine} \cup {Nothing}]
    /\ N \in Nat \ {0} /\ Capacity \in [Machine -> Nat]
    /\ Recipes \in Seq(RecipeType)
    /\ Supply \subseteq Stack /\ Sites \in [Machine -> SUBSET Node]

VARIABLES
    box,        \* ItemContainer.items of each machine
    target,     \* Producer.target_item
    making,     \* Producer.processed_item
    ticks,      \* Producer.process_ticks
    left,       \* Producer.process_ticks_left
    task,       \* Producer.pending_task
    counter,    \* ItemRouter.counter
    belts,      \* the sides of a machine where a belt leads away from it
    craft,      \* Input.craft_item of each player
    open,       \* Input.storage_ent of each player
    stage,      \* the running system, "net" between frames
    todo,       \* the players or machines it has not visited
    now,        \* the machine it is visiting
    cursor,     \* the slot it has got to
    budget,     \* num_nodes of the current visit
    got,        \* history: units each belt got in the current visit
    lead        \* history: units a belt got beyond the least served one

crafting == <<target, making, ticks, left, task>>
routing == <<counter, budget, got, lead>>
players == <<craft, open>>
vars == <<box, target, making, ticks, left, task, counter, belts, craft, open,
          stage, todo, now, cursor, budget, got, lead>>

Full(m) == {s \in Slot : box[m][s] # Nothing}
HeldOf(m, k) == MapThenSumSet(LAMBDA s : IF box[m][s].kind = k THEN box[m][s].qty ELSE 0,
                              Full(m))
Least(a, b) == IF a <= b THEN a ELSE b

----------------------------------------------------------------------------
(* Between frames: players, the items that reach a machine, and building   *)

\* A key state with a craft request, or one that clears it again.
Request(p, k) ==
    /\ stage = "net"
    /\ craft' = [craft EXCEPT ![p] = k]
    /\ UNCHANGED <<box, crafting, routing, belts, open, stage, todo, now, cursor>>

\* InspectContainers: a machine is opened or closed.
Inspect(p, m) ==
    /\ stage = "net"
    /\ open' = [open EXCEPT ![p] = m]
    /\ UNCHANGED <<box, crafting, routing, belts, craft, stage, todo, now, cursor>>

\* Items reach a slot of the container, by hand or from the ground.
Deliver(m, s, new) ==
    /\ stage = "net"
    /\ box[m][s] = Nothing
    /\ MapThenSumSet(LAMBDA t : box[m][t].qty, Full(m)) + new.qty <= Capacity[m]
    /\ box' = [box EXCEPT ![m][s] = new]
    /\ UNCHANGED <<crafting, routing, belts, players, stage, todo, now, cursor>>

\* A player takes a stack out.
TakeOut(m, s) ==
    /\ stage = "net"
    /\ box[m][s] # Nothing
    /\ box' = [box EXCEPT ![m][s] = Nothing]
    /\ UNCHANGED <<crafting, routing, belts, players, stage, todo, now, cursor>>

\* A belt is built next to the machine, or removed.
Build(m, n) ==
    /\ stage = "net"
    /\ belts' = [belts EXCEPT ![m] = IF n \in @ THEN @ \ {n} ELSE @ \cup {n}]
    /\ lead' = [lead EXCEPT ![m] = [i \in Node |-> 0]]
    /\ UNCHANGED <<box, crafting, counter, budget, got, players, stage, todo, now, cursor>>

----------------------------------------------------------------------------
(* The frame: CraftItem, then, when their timers have elapsed,             *)
(* ProduceItems and PushItemsOnNodes                                       *)

BeginFrame ==
    /\ stage = "net"
    /\ stage' = "craft"
    /\ todo' = {p \in Player : craft[p] # Nothing}
    /\ UNCHANGED <<box, crafting, routing, belts, players, now, cursor>>

\* A request starts an idle machine; others only learn their next target.
Enqueued(t) == IF t = "waiting" THEN "enqueued" ELSE t

\* Without an open machine the request stays in the Input.
CraftItem(p) ==
    /\ stage = "craft" /\ p \in todo
    /\ todo' = todo \ {p}
    /\ IF open[p] \in Producer
       THEN /\ target' = [target EXCEPT ![open[p]] = craft[p]]
            /\ task' = [task EXCEPT ![open[p]] = Enqueued(@)]
            /\ craft' = [craft EXCEPT ![p] = Nothing]
       ELSE UNCHANGED <<target, task, craft>>
    /\ UNCHANGED <<box, making, ticks, left, routing, belts, open, stage, now, cursor>>

BeginProduce ==
    /\ stage = "craft" /\ todo = {}
    /\ stage' = "produce"
    /\ todo' = Producer
    /\ UNCHANGED <<box, crafting, routing, belts, players, now, cursor>>

BeginPush ==
    /\ stage \in {"craft", "produce"} /\ todo = {} /\ now = Nothing
    /\ stage' = "push"
    /\ todo' = Router
    /\ UNCHANGED <<box, crafting, routing, belts, players, now, cursor>>

EndFrame ==
    /\ stage # "net" /\ todo = {} /\ now = Nothing
    /\ stage' = "net"
    /\ UNCHANGED <<box, crafting, routing, belts, players, todo, now, cursor>>

\* A system starts on the next machine.
Visit(m) ==
    /\ stage \in {"produce", "push"} /\ now = Nothing /\ m \in todo
    /\ now' = m
    /\ todo' = todo \ {m}
    /\ cursor' = 0
    /\ budget' = IF stage = "push" /\ Filter[m] # "none" THEN Cardinality(belts[m]) ELSE 0
    /\ got' = [n \in Node |-> 0]
    /\ UNCHANGED <<box, crafting, counter, lead, belts, players, stage>>

----------------------------------------------------------------------------
(* craft_perform_recipe                                                    *)

\* Units of kind k still to be depleted when the loop gets to slot i, n being
\* needed.  The code lowers the count by what is LEFT in the slot, as it
\* reads the quantity again after reducing it.
Pending(m, k, n) ==
    LET f[i \in 0 .. N] ==
            IF i = 0 THEN n
            ELSE LET s == box[m][i - 1]
                 IN  IF s = Nothing THEN f[i - 1]
                     ELSE IF s.kind # k THEN f[i - 1]
                     ELSE f[i - 1] - Least(f[i - 1], s.qty - Least(f[i - 1], s.qty))
    IN  f

\* Mutant: the slot of a used-up stack is not cleared.
Depleted_Zero(m, r) ==
    [s \in Slot |->
        IF s \notin Full(m) THEN Nothing
        ELSE LET k == box[m][s].kind
             IN  [box[m][s] EXCEPT !.qty = @ - Least(Pending(m, k, Needs(r, k))[s], @)]]

\* Mutant: only the first slot pays.
Depleted_First(m, r) ==
    [s \in Slot |->
        IF s \in Full(m) /\ Needs(r, box[m][s].kind) > 0 /\ \A t \in Full(m) : s <= t
        THEN Nothing ELSE box[m][s]]

\* The container after the reagents of recipe r have been depleted.
Depleted(m, r) ==
    [s \in Slot |->
        IF s \notin Full(m) THEN Nothing
        ELSE LET k == box[m][s].kind
                 n == Least(Pending(m, k, Needs(r, k))[s], box[m][s].qty)
             IN  IF n = box[m][s].qty THEN Nothing ELSE [box[m][s] EXCEPT !.qty = @ - n]]

\* The recipes that slot s can start.
Startable(m, s) ==
    {r \in DOMAIN Recipes :
        /\ Recipes[r].producer = Asset[m]
        /\ Needs(r, box[m][s].kind) > 0
        /\ target[m] \in {Nothing, Recipes[r].product}
        /\ \A k \in Kind : HeldOf(m, k) >= Needs(r, k)}

\* The recipe craft_perform_recipe settles on: of the first slot that can
\* start one, the first in the table.
Settles(m, r) ==
    \E s \in Full(m) :
        /\ r \in Startable(m, s)
        /\ \A q \in Startable(m, s) : r <= q
        /\ \A t \in Full(m) : t < s => Startable(m, t) = {}

Attempted(t, ok) == IF t = "enqueued" THEN IF ok THEN "busy" ELSE "waiting" ELSE t

\* A failed attempt also waits process_ticks, those of the recipe before.
Attempt(m) ==
    \/ \E r \in DOMAIN Recipes :
           /\ Settles(m, r)
           /\ box' = [box EXCEPT ![m] = Depleted(m, r)]
           /\ making' = [making EXCEPT ![m] = Recipes[r].product]
           /\ ticks' = [ticks EXCEPT ![m] = Recipes[r].ticks]
           /\ left' = [left EXCEPT ![m] = Recipes[r].ticks]
           /\ task' = [task EXCEPT ![m] = Attempted(@, TRUE)]
    \/ /\ \A r \in DOMAIN Recipes : ~Settles(m, r)
       /\ left' = [left EXCEPT ![m] = ticks[m]]
       /\ task' = [task EXCEPT ![m] = Attempted(@, FALSE)]
       /\ UNCHANGED <<box, making, ticks>>

\* Mutant: a finished machine keeps its task.
Finished_Busy(t) == t

\* After the product is out, a requested machine waits, an automatic one
\* carries on.
Finished(t) == IF t = "busy" THEN "waiting" ELSE t

\* The finished product is spawned on the ground.
Emit(m) ==
    /\ making' = [making EXCEPT ![m] = Nothing]
    /\ task' = [task EXCEPT ![m] = Finished(@)]
    /\ UNCHANGED <<box, ticks, left>>

\* Fuel burns when it is made for the machine.  The code compares it with the
\* asset of the FIRST machine of the flecs table; machines with the same
\* components share a table.
Burn(m, s) ==
    /\ \E first \in Producer :
           /\ first \in Router <=> m \in Router
           /\ box' = [box EXCEPT ![m][s] = IF Fuel[@.kind] = Asset[first] THEN Nothing ELSE @]
    /\ UNCHANGED <<making, ticks, left, task>>

\* What ProduceItems does about one slot of the machine.
ProduceSlot ==
    /\ stage = "produce" /\ now # Nothing /\ cursor < N
    /\ cursor' = cursor + 1
    /\ LET s == box[now][cursor]
           Fuels == IF s = Nothing THEN FALSE ELSE Fuel[s.kind] # Nothing
           Works == s # Nothing /\ ~Fuels /\ left[now] = 0
       IN  \/ Fuels /\ Burn(now, cursor)
           \/ Works /\ making[now] # Nothing /\ Emit(now)
           \/ Works /\ making[now] = Nothing /\ task[now] # "waiting" /\ Attempt(now)
           \/ /\ ~Fuels /\ (Works => making[now] = Nothing /\ task[now] = "waiting")
              /\ UNCHANGED <<box, making, ticks, left, task>>
    /\ UNCHANGED <<target, routing, belts, players, stage, todo, now>>

\* Mutant: the ticks are not counted down.
Ticked_Stuck(n) == n

\* TICK_VAR
Ticked(n) == IF n > 0 THEN n - 1 ELSE 0

\* The end of the visit.
TickDown ==
    /\ stage = "produce" /\ now # Nothing /\ cursor = N
    /\ left' = [left EXCEPT ![now] = Ticked(@)]
    /\ now' = Nothing
    /\ UNCHANGED <<box, target, making, ticks, task, routing, belts, players, stage,
                   todo, cursor>>

----------------------------------------------------------------------------
(* PushItemsOnNodes                                                        *)

\* Mutant: reagents are pushed out as well.
Pushable_Any(m, s) == s # Nothing

\* craft_is_reagent_used_in_producer
Reagent(m, k) == \E r \in DOMAIN Recipes :
                     Recipes[r].producer = Asset[m] /\ Needs(r, k) > 0

\* The stack leaves the machine.
Pushable(m, s) ==
    /\ s # Nothing
    /\ Filter[m] = "any" => ~Reagent(m, s.kind)
    /\ Filter[m] = "product" => target[m] = s.kind

\* Mutant: the search starts over at the first side.
NextNode_First(m, n) == n \in belts[m] /\ \A i \in belts[m] : n <= i

\* The rolling counter selects the next side that has a belt.
NextNode(m, n) ==
    /\ n \in belts[m]
    /\ LET ahead == {i \in belts[m] : i >= counter[m]}
       IN  IF ahead # {} THEN n \in ahead /\ \A i \in ahead : n <= i
                         ELSE \A i \in belts[m] : n <= i

\* Mutant: the budget is not used up.
Spent_Not(b) == b

Spent(b) == b - 1

\* Units beyond the least served belt, after one more went to n.
Ahead(m, n) ==
    LET more == [lead[m] EXCEPT ![n] = @ + 1]
    IN  IF \A b \in belts[m] : more[b] > 0
        THEN [i \in Node |-> IF i \in belts[m] THEN more[i] - 1 ELSE 0] ELSE more

\* The stack a unit leaves (push_qty is 1 for every prefab).
Pushed(x) == IF x.qty = 1 THEN Nothing ELSE [x EXCEPT !.qty = @ - 1]

\* One unit goes onto a belt.
PushUnit ==
    /\ stage = "push" /\ now # Nothing /\ cursor < N
    /\ budget > 0 /\ Pushable(now, box[now][cursor])
    /\ \E n \in Node :
           /\ NextNode(now, n)
           /\ counter' = [counter EXCEPT ![now] = n + 1]
           /\ got' = [got EXCEPT ![n] = @ + 1]
           /\ lead' = [lead EXCEPT ![now] = Ahead(now, n)]
    /\ budget' = Spent(budget)
    /\ box' = [box EXCEPT ![now][cursor] = Pushed(@)]
    /\ UNCHANGED <<crafting, belts, players, stage, todo, now, cursor>>

PushNextSlot ==
    /\ stage = "push" /\ now # Nothing /\ cursor < N
    /\ budget = 0 \/ ~Pushable(now, box[now][cursor])
    /\ cursor' = cursor + 1
    /\ UNCHANGED <<box, crafting, routing, belts, players, stage, todo, now>>

PushDone ==
    /\ stage = "push" /\ now # Nothing /\ cursor = N
    /\ now' = Nothing
    /\ UNCHANGED <<box, crafting, routing, belts, players, stage, todo, cursor>>

----------------------------------------------------------------------------
Init ==
    /\ box = [m \in Machine |-> [s \in Slot |-> Nothing]]
    /\ target = [m \in Machine |-> Nothing]
    /\ making = [m \in Machine |-> Nothing]
    /\ ticks = [m \in Machine |-> 0] /\ left = [m \in Machine |-> 0]
    /\ task = [m \in Machine |-> IF m \in Automatic THEN "auto" ELSE "waiting"]
    /\ counter = [m \in Machine |-> 0]
    /\ belts = [m \in Machine |-> {}]
    /\ craft = [p \in Player |-> Nothing] /\ open = [p \in Player |-> Nothing]
    /\ stage = "net" /\ todo = {} /\ now = Nothing /\ cursor = 0
    /\ budget = 0 /\ got = [n \in Node |-> 0]
    /\ lead = [m \in Machine |-> [n \in Node |-> 0]]

\* What a client's crafting list offers: the products of the machine.
Craftable == {Recipes[r].product : r \in DOMAIN Recipes}

Between ==
    \/ \E p \in Player : \/ \E k \in Craftable \cup {Nothing} : Request(p, k)
                         \/ \E m \in Machine \cup {Nothing} : Inspect(p, m)
    \/ \E m \in Machine : \/ \E s \in Slot : \/ TakeOut(m, s)
                                             \/ \E new \in Supply : Deliver(m, s, new)
                          \/ m \in Router /\ \E n \in Sites[m] : Build(m, n)

Frame ==
    \/ BeginFrame \/ BeginProduce \/ BeginPush \/ EndFrame
    \/ \E p \in Player : CraftItem(p)
    \/ \E m \in Machine : Visit(m)
    \/ ProduceSlot \/ TickDown \/ PushUnit \/ PushNextSlot \/ PushDone

Next == Between \/ Frame

Spec == Init /\ [][Next]_vars

\* The main loop goes on, and the timer of ProduceItems keeps elapsing.
FairSpec == Spec /\ WF_vars(Frame) /\ SF_vars(BeginProduce)

----------------------------------------------------------------------------
(* Properties                                                              *)

\* Types; no slot holds a stack of none.
TypeOK ==
    /\ box \in [Machine -> [Slot -> Stack \cup {Nothing}]]
    /\ target \in [Machine -> Kind \cup {Nothing}]
    /\ making \in [Machine -> Kind \cup {Nothing}]
    /\ ticks \in [Machine -> Nat] /\ left \in [Machine -> Nat]
    /\ task \in [Machine -> Tasks]
    /\ counter \in [Machine -> 0 .. 4]
    /\ belts \in [Machine -> SUBSET Node]
    /\ craft \in [Player -> Kind \cup {Nothing}]
    /\ open \in [Player -> Machine \cup {Nothing}]
    /\ stage \in {"net", "craft", "produce", "push"}
    /\ todo \subseteq Machine \cup Player
    /\ now \in Machine \cup {Nothing}
    /\ cursor \in 0 .. N
    /\ budget \in Nat
    /\ got \in [Node -> Nat] /\ lead \in [Machine -> [Node -> Nat]]

\* A machine that works on request is busy exactly while it is making
\* something: no request, failed attempt or emission leaves the task and the
\* product out of step (it would swallow requests or craft without one).
BusyMeansMaking ==
    \A m \in Producer : /\ m \in Automatic <=> task[m] = "auto"
                        /\ m \notin Automatic => (task[m] = "busy" <=> making[m] # Nothing)

\* A recipe that starts has had its reagents: at least what it needs of each
\* is gone from the container, and nothing else is.  (More can be gone: see
\* Pending.)
ReagentsPaid ==
    [][\A m \in Machine : making[m] = Nothing /\ making'[m] # Nothing =>
           \E r \in DOMAIN Recipes :
               /\ Recipes[r].product = making'[m] /\ Recipes[r].producer = Asset[m]
               /\ \A k \in Kind :
                      /\ HeldOf(m, k) - HeldOf(m, k)' >= Needs(r, k)
                      /\ Needs(r, k) = 0 => HeldOf(m, k)' = HeldOf(m, k)]_vars

\* PushItemsOnNodes leaves the reagents of an automatic machine in it.
ReagentsStay ==
    [][stage = "push" =>
           \A m \in Machine, k \in Kind :
               Filter[m] = "any" /\ Reagent(m, k) => HeldOf(m, k)' = HeldOf(m, k)]_vars

\* In one pass no belt gets two units, however many stacks there are.
EachBeltOnce == \A n \in Node : got[n] <= 1

\* While the belts stay, they are served in turns: none gets two units more
\* than another, over however many passes.
ServedInTurns == \A m \in Machine : \A a, b \in belts[m] : lead[m][a] - lead[m][b] <= 1

\* Something that is not fuel lies in the machine.
Occupied(m) == \E s \in Full(m) : Fuel[box[m][s].kind] = Nothing

\* While something lies in the machine, what it makes gets finished, and what
\* it was asked for gets started or refused.
KeepsWorking ==
    \A m \in Producer :
        (<>[]Occupied(m)) => /\ []<>(making[m] = Nothing)
                             /\ []<>(task[m] # "enqueued")
=============================================================================
