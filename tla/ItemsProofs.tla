---------------------------- MODULE ItemsProofs ----------------------------
(***************************************************************************)
(* Theorems about Items, for every number of players, containers, slots    *)
(* and items.  Ownership is exclusive whatever clients send; quantities,   *)
(* the ledger and that nothing is lost need the restraint that Gentle and  *)
(* Undisturbed name, and TLC shows what happens without it.                *)
(***************************************************************************)
EXTENDS ItemsRefinement, FiniteSetTheorems, WellFoundedInduction, TLAPS

\* The part of the type invariant that speaks of items, and the part that
\* speaks of players and of the frame.
ItemTypes == /\ life \in [Ent -> Lives]
             /\ kind \in [Ent -> Kind]
             /\ qty \in [Ent -> 0 .. Wrap - 1]
             /\ shown \in [Ent -> BOOLEAN]
             /\ held \in [Cell -> Ent \cup {NoEnt}]

FrameTypes == /\ open \in [Player -> Container \cup {NoContainer}]
              /\ cooling \in [Player -> BOOLEAN]
              /\ input \in [Player -> InputType]
              /\ packets \in [Player -> Nat]
              /\ stage \in Stages
              /\ todo \subseteq Holder
              /\ abandoned \subseteq Ent

Ownership == ExclusiveOwnership /\ SlotsHoldItems /\ ShownExist

\* The inductive invariant: ownership is preserved only together with the
\* fact that what slots refer to is hidden and exists, and what is shown
\* exists.
IInv == TypeOK /\ Ownership

\* The type invariant, split into what items and what the frame keep.
LEMMA Types == TypeOK <=> ItemTypes /\ FrameTypes
  BY DEF TypeOK, ItemTypes, FrameTypes

----------------------------------------------------------------------------
(* Arithmetic of quantities                                                *)

\* Unsigned arithmetic stays in range.
LEMMA ModRange ==
    ASSUME NEW x \in Int, NEW w \in Nat \ {0}
    PROVE  x % w \in 0 .. w - 1
  BY SMT

\* What a slot with room takes from a lying stack.
LEMMA ShareRange ==
    ASSUME ItemTypes, NEW e \in Ent, NEW t \in Ent, qty[t] < MaxQuantity[kind[e]]
    PROVE  LET n == Least(qty[e], MaxQuantity[kind[e]] - qty[t])
           IN  /\ qty[e] - n \in 0 .. Wrap - 1
               /\ qty[t] + n \in 0 .. Wrap - 1
  BY ItemsAssumption DEF ItemTypes, Least

\* What a player drops of a stack is a part of it.
LEMMA DroppedRange ==
    ASSUME NEW p, NEW q \in 1 .. Wrap - 1
    PROVE  DroppedCount(p, q) \in 0 .. q
  BY ItemsAssumption DEF DroppedCount

\* What a player drags onto a stack is a number of units, though not always a
\* part of the dragged stack: CTRL drags one off an empty stack too.
LEMMA SwappedInt ==
    ASSUME ItemTypes, NEW p \in Player, NEW a \in Ent, NEW b \in Ent
    PROVE  SwappedCount(p, a, b) \in Int
  <1>1. (MaxQuantity[kind[b]] - qty[b]) % Wrap \in 0 .. Wrap - 1
    <2>1. MaxQuantity[kind[b]] - qty[b] \in Int /\ Wrap \in Nat \ {0}
      BY ItemsAssumption DEF ItemTypes
    <2> QED
      BY <2>1, ModRange
  <1>2. /\ qty[a] \in 0 .. Wrap - 1
        /\ qty[a] \div 2 \in 0 .. qty[a]
        /\ Wrap \in Nat
    BY ItemsAssumption DEF ItemTypes
  <1> QED
    BY <1>1, <1>2 DEF SwappedCount, Least

\* What a player splits off a stack is a part of it.
LEMMA SplitRange ==
    ASSUME ItemTypes, NEW p \in Player, NEW a \in Ent, qty[a] > 0
    PROVE  SplitCount(p, a) \in 0 .. qty[a]
  BY ItemsAssumption DEF SplitCount, ItemTypes

----------------------------------------------------------------------------
(* The effects a system may have on the items.                             *)

\* An entity that holds nothing anywhere, and is not visible, is spawned
\* hidden into a cell; what the cell held may become visible.
LEMMA SpawnInCell ==
    ASSUME ItemTypes, Ownership, NEW c \in Cell, NEW te \in Fresh,
           life' = [life EXCEPT ![te] = "staged"],
           held' = [held EXCEPT ![c] = te],
           \/ shown' = [shown EXCEPT ![te] = FALSE]
           \/ held[c] \in Ent /\ shown' = [shown EXCEPT ![held[c]] = TRUE]
    PROVE  Ownership'
  <1> USE DEF ItemTypes, Ownership, Lives, Existing
  <1>1. te \in Ent /\ life[te] = "free" /\ ~shown[te] /\ te # NoEnt
    BY ItemsAssumption DEF Fresh, ShownExist
  <1>2. \A d \in Cell : held[d] # te
    BY DEF Fresh
  <1>3. ExclusiveOwnership'
    BY <1>1, <1>2 DEF ExclusiveOwnership
  <1>4. SlotsHoldItems'
    BY <1>1, <1>2 DEF SlotsHoldItems, ExclusiveOwnership
  <1>5. ShownExist'
    BY <1>1, <1>2, ItemsAssumption DEF ShownExist, SlotsHoldItems
  <1> QED
    BY <1>3, <1>4, <1>5

\* A lying item is hidden and stored in a cell.
LEMMA StoreOwns ==
    ASSUME ItemTypes, Ownership, NEW c \in Cell, NEW e \in Lying, Store(c, e)
    PROVE  ItemTypes' /\ Ownership'
  <1> USE DEF ItemTypes, Ownership, Lives, Existing, Store
  <1>1. e \in Ent /\ life[e] = "live" /\ shown[e]
    BY DEF Lying
  <1>2. \A d \in Cell : held[d] # e
    BY <1>1, ItemsAssumption DEF SlotsHoldItems
  <1>3. ItemTypes'
    BY <1>1
  <1>4. ExclusiveOwnership'
    BY <1>1, <1>2 DEF ExclusiveOwnership
  <1>5. SlotsHoldItems'
    BY <1>1, <1>2 DEF SlotsHoldItems
  <1>6. ShownExist'
    BY <1>1 DEF ShownExist
  <1> QED
    BY <1>3, <1>4, <1>5, <1>6

\* An item no cell refers to any more is despawned.
LEMMA DespawnOwns ==
    ASSUME ItemTypes, Ownership, NEW a \in Ent, Despawned(a),
           held' \in [Cell -> Ent \cup {NoEnt}],
           \A c \in Cell : held'[c] = held[c] \/ held'[c] = NoEnt,
           \A c \in Cell : held'[c] # a
    PROVE  Ownership'
  <1> USE DEF ItemTypes, Ownership, Lives, Existing, Despawned
  <1>1. ExclusiveOwnership'
    BY DEF ExclusiveOwnership
  <1>2. SlotsHoldItems'
    BY DEF SlotsHoldItems
  <1>3. ShownExist'
    BY DEF ShownExist
  <1> QED
    BY <1>1, <1>2, <1>3

\* Nothing an owner can see has changed.
LEMMA SameOwners ==
    ASSUME Ownership, UNCHANGED <<life, shown, held>>
    PROVE  Ownership'
  BY DEF Ownership, ExclusiveOwnership, SlotsHoldItems, ShownExist, Existing

----------------------------------------------------------------------------
(* The systems                                                             *)

\* PickItem and HarvestIntoContainers take one lying item without copying it.
LEMMA TakeIntoOwns ==
    ASSUME ItemTypes, Ownership, NEW h \in Holder, NEW e \in Lying, TakeInto(h, e)
    PROVE  ItemTypes' /\ Ownership'
  <1>1. PICK s \in Slot :
            /\ FirstRoom(h, e, s)
            /\ LET c == <<h, s>>
               IN  \/ HasData(held[c]) /\ Pour(e, held[c])
                   \/ ~Valid(held[c]) /\ Store(c, e)
                   \/ /\ Valid(held[c]) /\ ~HasData(held[c])
                      /\ UNCHANGED itemVars
    BY DEF TakeInto
  <1> DEFINE c == <<h, s>>
             t == held[c]
  <1>2. c \in Cell
    BY DEF Cell
  <1>3. e \in Ent /\ life[e] = "live" /\ shown[e]
    BY DEF Lying
  <1>4. CASE HasData(t) /\ Pour(e, t)
    <2>1. t \in Ent /\ t # e /\ qty[t] < MaxQuantity[kind[e]]
      BY <1>1, <1>2, <1>3, <1>4, ItemsAssumption
         DEF ItemTypes, Ownership, SlotsHoldItems, HasData, FirstRoom, Room
    <2> DEFINE n == Least(qty[e], MaxQuantity[kind[e]] - qty[t])
    <2>2. qty[e] - n \in 0 .. Wrap - 1 /\ qty[t] + n \in 0 .. Wrap - 1
      BY <1>3, <2>1, ShareRange
    <2>3. qty' = [qty EXCEPT ![e] = @ - n, ![t] = @ + n] /\ UNCHANGED <<kind, held>>
      BY <1>4 DEF Pour
    <2>4. qty' \in [Ent -> 0 .. Wrap - 1]
      <3> HIDE DEF n, t
      <3> QED  BY <1>3, <2>1, <2>2, <2>3 DEF ItemTypes
    <2>5. CASE Despawned(e)
      <3>1. ItemTypes'
        BY <1>3, <2>3, <2>4, <2>5 DEF ItemTypes, Despawned, Lives
      <3>2. \A d \in Cell : held'[d] # e
        BY <1>3, <2>3, ItemsAssumption DEF Ownership, SlotsHoldItems
      <3> QED
        BY <1>3, <2>3, <2>5, <3>1, <3>2, DespawnOwns DEF ItemTypes
    <2>6. CASE UNCHANGED <<life, shown>>
      BY <2>3, <2>4, <2>6, SameOwners DEF ItemTypes
    <2> QED
      BY <1>4, <2>5, <2>6 DEF Pour
  <1>5. CASE Store(c, e)
    BY <1>2, <1>5, StoreOwns
  <1>6. CASE UNCHANGED itemVars
    BY <1>6, SameOwners DEF itemVars, ItemTypes
  <1> QED
    BY <1>1, <1>4, <1>5, <1>6

\* A drop keeps every slot exclusive, also when a part stays behind.
LEMMA DropStackOwns ==
    ASSUME ItemTypes, FrameTypes, Ownership, NEW p \in Player,
           CanDrop(p), DropStack(p)
    PROVE  ItemTypes' /\ Ownership'
  <1> DEFINE c == DropCell(p)
             e == held[c]
             n == DroppedCount(p, qty[e])
  <1>1. c \in Cell
    BY DEF CanDrop, DropCell, Box, Cell, Holder, FrameTypes, InputType
  <1>2. e \in Ent /\ qty[e] \in 1 .. Wrap - 1 /\ n \in 1 .. qty[e]
    <2>1. e \in Ent /\ qty[e] \in 1 .. Wrap - 1 /\ n > 0
      BY <1>1, ItemsAssumption DEF CanDrop, HasData, ItemTypes
    <2> QED
      BY <2>1, DroppedRange
  <1>3. shown' = [shown EXCEPT ![e] = TRUE]
    BY DEF DropStack
  <1>4. CASE qty[e] - n > 0
    <2>1. PICK te \in Fresh :
              /\ life' = [life EXCEPT ![te] = "staged"]
              /\ kind' = [kind EXCEPT ![te] = kind[e]]
              /\ qty'  = [qty EXCEPT ![e] = @ - n, ![te] = n]
              /\ held' = [held EXCEPT ![c] = te]
      BY <1>4 DEF DropStack
    <2>2. ItemTypes'
      <3>1. te \in Ent /\ qty[e] - n \in 0 .. Wrap - 1 /\ n \in 0 .. Wrap - 1
        BY <1>2, ItemsAssumption DEF Fresh
      <3> HIDE DEF n, e, c
      <3> QED
        BY <1>1, <1>2, <1>3, <2>1, <3>1 DEF ItemTypes, Lives
    <2> QED
      BY <1>1, <1>2, <1>3, <2>1, <2>2, SpawnInCell
  <1>5. CASE ~(qty[e] - n > 0)
    <2>1. held' = [held EXCEPT ![c] = NoEnt] /\ UNCHANGED <<life, kind, qty>>
      BY <1>5 DEF DropStack
    <2>2. ItemTypes'
      BY <1>1, <1>2, <1>3, <2>1 DEF ItemTypes
    <2>3. ExclusiveOwnership'
      BY <1>1, <2>1, ItemsAssumption DEF ItemTypes, Ownership, ExclusiveOwnership
    <2>4. SlotsHoldItems'
      BY <1>1, <1>2, <1>3, <2>1, ItemsAssumption
         DEF ItemTypes, Ownership, ExclusiveOwnership, SlotsHoldItems, Existing
    <2>5. ShownExist'
      BY <1>1, <1>2, <1>3, <2>1, ItemsAssumption
         DEF ItemTypes, Ownership, SlotsHoldItems, ShownExist, Existing
    <2> QED
      BY <2>2, <2>3, <2>4, <2>5 DEF Ownership
  <1> QED
    BY <1>4, <1>5

\* Both ends of a drag are cells.
LEMMA SwapCells ==
    ASSUME FrameTypes, NEW p \in Player, CanSwap(p)
    PROVE  FromCell(p) \in Cell /\ ToCell(p) \in Cell
  <1>1. /\ input[p].from \in Slot /\ input[p].to \in Slot
        /\ input[p].storage \in BOOLEAN /\ input[p].toStorage \in BOOLEAN
        /\ open[p] \in Container \cup {NoContainer}
    BY DEF FrameTypes, InputType
  <1>2. input[p].storage \/ input[p].toStorage => open[p] \in Container
    BY <1>1 DEF CanSwap
  <1> QED
    BY <1>1, <1>2 DEF FromCell, ToCell, Box, Cell, Holder

\* Merging, splitting and exchanging slots keep every slot exclusive.
LEMMA MoveOwns ==
    ASSUME ItemTypes, FrameTypes, Ownership, NEW p \in Player,
           NEW from \in Cell, NEW to \in Cell, HasData(held[from]),
           MoveBetween(p, from, to)
    PROVE  ItemTypes' /\ Ownership'
  <1> DEFINE a == held[from]
             b == held[to]
  <1>1. a \in Ent /\ a # NoEnt
    BY ItemsAssumption DEF HasData, ItemTypes
  <1>2. CASE UNCHANGED itemVars
    BY <1>2, SameOwners DEF itemVars, ItemTypes
  <1>3. CASE /\ from # to /\ HasData(b) /\ qty[b] > 0
             /\ MergeStacks(p, from, a, b)
    <2> DEFINE n == SwappedCount(p, a, b)
    <2>1. b \in Ent /\ a # b
      BY <1>1, <1>3, ItemsAssumption
         DEF HasData, ItemTypes, Ownership, ExclusiveOwnership
    <2>2. /\ qty' = [qty EXCEPT ![a] = (@ - n) % Wrap,
                                ![b] = (@ + n) % Wrap]
          /\ kind' = kind
      BY <1>3 DEF MergeStacks
    <2>3. qty' \in [Ent -> 0 .. Wrap - 1]
      <3>1. qty[a] \in 0 .. Wrap - 1 /\ qty[b] \in 0 .. Wrap - 1 /\ Wrap \in Nat \ {0}
        BY <1>1, <2>1, ItemsAssumption DEF ItemTypes
      <3>2. n \in Int
        BY <1>1, <2>1, SwappedInt
      <3>3. (qty[a] - n) % Wrap \in 0 .. Wrap - 1
        <4>1. qty[a] - n \in Int
          BY <3>1, <3>2
        <4> QED
          BY <3>1, <4>1, ModRange
      <3>4. (qty[b] + n) % Wrap \in 0 .. Wrap - 1
        <4>1. qty[b] + n \in Int
          BY <3>1, <3>2
        <4> QED
          BY <3>1, <4>1, ModRange
      <3> HIDE DEF n, a, b
      <3> QED
        BY <1>1, <2>1, <2>2, <3>3, <3>4 DEF ItemTypes
    <2>4. CASE Despawned(a) /\ held' = [held EXCEPT ![from] = NoEnt]
      <3>1. ItemTypes'
        BY <1>1, <2>2, <2>3, <2>4 DEF ItemTypes, Despawned, Lives
      <3>2. \A d \in Cell : held'[d] # a
        BY <1>1, <2>4, ItemsAssumption DEF ItemTypes, Ownership, ExclusiveOwnership
      <3>3. \A d \in Cell : held'[d] = held[d] \/ held'[d] = NoEnt
        BY <2>4 DEF ItemTypes
      <3> QED
        BY <1>1, <2>4, <3>1, <3>2, <3>3, DespawnOwns DEF ItemTypes
    <2>5. CASE UNCHANGED <<life, shown, held>>
      BY <2>2, <2>3, <2>5, SameOwners DEF ItemTypes
    <2> QED
      BY <1>3, <2>4, <2>5 DEF MergeStacks
  <1>4. CASE from # to /\ qty[a] > 0 /\ SplitStack(p, to, a)
    <2> DEFINE n == SplitCount(p, a)
    <2>1. CASE UNCHANGED itemVars
      BY <2>1, SameOwners DEF itemVars, ItemTypes
    <2>2. CASE ~(qty[a] = n)
      <3>1. PICK te \in Fresh :
                /\ life'  = [life EXCEPT ![te] = "staged"]
                /\ kind'  = [kind EXCEPT ![te] = kind[a]]
                /\ shown' = [shown EXCEPT ![te] = FALSE]
                /\ qty'   = [qty EXCEPT ![a] = @ - n, ![te] = n]
                /\ held'  = [held EXCEPT ![to] = te]
        BY <1>4, <2>2 DEF SplitStack
      <3>2. ItemTypes'
        <4>1. te \in Ent /\ qty[a] - n \in 0 .. Wrap - 1 /\ n \in 0 .. Wrap - 1
          BY <1>1, <1>4, SplitRange, ItemsAssumption DEF Fresh, ItemTypes
        <4> HIDE DEF n, a
        <4> QED
          BY <1>1, <3>1, <4>1 DEF ItemTypes, Lives
      <3> QED
        BY <3>1, <3>2, SpawnInCell
    <2> QED
      BY <1>4, <2>1, <2>2 DEF SplitStack
  <1>5. CASE ExchangeCells(from, to)
    <2>1. held' = [held EXCEPT ![from] = held[to], ![to] = held[from]]
          /\ UNCHANGED <<life, kind, qty, shown>>
      BY <1>5 DEF ExchangeCells
    <2>2. ItemTypes'
      BY <2>1 DEF ItemTypes
    <2>3. ExclusiveOwnership'
      BY <2>1 DEF ItemTypes, Ownership, ExclusiveOwnership
    <2>4. SlotsHoldItems' /\ ShownExist'
      BY <2>1 DEF ItemTypes, Ownership, SlotsHoldItems, ShownExist, Existing
    <2> QED
      BY <2>2, <2>3, <2>4 DEF Ownership
  <1> QED
    BY <1>2, <1>3, <1>4, <1>5 DEF MoveBetween

\* Placing items despawns a used-up stack together with its slot.
LEMMA PlaceOwns ==
    ASSUME ItemTypes, FrameTypes, Ownership, NEW p \in Player,
           HasData(held[<<p, input[p].slot>>]),
           PlaceItems(p, held[<<p, input[p].slot>>])
    PROVE  ItemTypes' /\ Ownership'
  <1> DEFINE c == <<p, input[p].slot>>
             e == held[c]
  <1>1. c \in Cell
    BY DEF Cell, Holder, FrameTypes, InputType
  <1>2. e \in Ent
    BY <1>1, ItemsAssumption DEF HasData, ItemTypes
  <1>3. PICK n \in 0 .. input[p].places :
            LET left == (qty[e] - n) % Wrap
            IN  /\ qty' = [qty EXCEPT ![e] = left]
                /\ IF left = 0
                   THEN /\ Despawned(e)
                        /\ held' = [held EXCEPT ![c] = NoEnt]
                   ELSE UNCHANGED <<life, shown, held>>
                /\ UNCHANGED kind
    BY DEF PlaceItems
  <1>4. qty' \in [Ent -> 0 .. Wrap - 1]
    <2>1. qty[e] - n \in Int /\ Wrap \in Nat \ {0}
      BY <1>2, ItemsAssumption DEF ItemTypes
    <2>2. (qty[e] - n) % Wrap \in 0 .. Wrap - 1
      BY <2>1, ModRange
    <2> HIDE DEF e, c
    <2> QED
      BY <1>2, <1>3, <2>2 DEF ItemTypes
  <1>5. CASE Despawned(e) /\ held' = [held EXCEPT ![c] = NoEnt]
    <2>1. ItemTypes'
      BY <1>1, <1>2, <1>3, <1>4, <1>5 DEF ItemTypes, Despawned, Lives
    <2>2. \A d \in Cell : held'[d] # e
      BY <1>1, <1>2, <1>5, ItemsAssumption DEF ItemTypes, Ownership, ExclusiveOwnership
    <2>3. \A d \in Cell : held'[d] = held[d] \/ held'[d] = NoEnt
      BY <1>5 DEF ItemTypes
    <2> QED
      BY <1>2, <1>5, <2>1, <2>2, <2>3, DespawnOwns DEF ItemTypes
  <1>6. CASE UNCHANGED <<life, shown, held>>
    BY <1>3, <1>4, <1>6, SameOwners DEF ItemTypes
  <1> QED
    BY <1>3, <1>5, <1>6

\* Items a destroyed block spawns belong to no slot.
LEMMA DestroyOwns ==
    ASSUME ItemTypes, Ownership, NEW p \in Player, DestroyBlocks(p)
    PROVE  ItemTypes' /\ Ownership'
  <1>0. PICK S \in SUBSET Fresh : \E drops \in [S -> Kind] : Spawned(S, drops)
    BY DEF DestroyBlocks
  <1>1. PICK drops \in [S -> Kind] :
            /\ life'  = [e \in Ent |-> IF e \in S THEN "staged" ELSE life[e]]
            /\ kind'  = [e \in Ent |-> IF e \in S THEN drops[e] ELSE kind[e]]
            /\ qty'   = [e \in Ent |-> IF e \in S THEN 1 ELSE qty[e]]
            /\ shown' = [e \in Ent |-> e \in S \/ shown[e]]
            /\ UNCHANGED held
    BY <1>0 DEF Spawned
  <1>2. ItemTypes'
    <2>1. 1 \in 0 .. Wrap - 1
      BY ItemsAssumption
    <2>2. shown' \in [Ent -> BOOLEAN]
      BY <1>1 DEF ItemTypes
    <2> QED
      BY <1>1, <2>1, <2>2 DEF ItemTypes, Lives
  <1>3. \A c \in Cell : held[c] \notin S
    BY <1>1 DEF Fresh
  <1>4. ExclusiveOwnership'
    BY <1>1 DEF Ownership, ExclusiveOwnership
  <1>5. SlotsHoldItems'
    BY <1>1, <1>3 DEF ItemTypes, Ownership, SlotsHoldItems, Existing
  <1>6. ShownExist'
    BY <1>1 DEF ItemTypes, Ownership, ShownExist, Existing
  <1> QED
    BY <1>2, <1>4, <1>5, <1>6 DEF Ownership

\* The merge of a frame frees only ids that no slot refers to.
LEMMA MergeOwns ==
    ASSUME ItemTypes, FrameTypes, Ownership, Merge
    PROVE  ItemTypes' /\ FrameTypes' /\ Ownership'
  <1> DEFINE gone == {e \in Ent : life[e] = "dying"}
             k0 == CHOOSE k \in Kind : TRUE
  <1>1. /\ life' = [e \in Ent |-> CASE e \in gone -> "free"
                                    [] life[e] = "staged" -> "live"
                                    [] OTHER -> life[e]]
        /\ kind' = [e \in Ent |-> IF e \in gone THEN k0 ELSE kind[e]]
        /\ qty'  = [e \in Ent |-> IF e \in gone THEN 0 ELSE qty[e]]
        /\ UNCHANGED <<shown, held>>
    BY DEF Merge
  <1>2. \A e \in Ent : life'[e] = IF life[e] = "dying" THEN "free"
                                  ELSE IF life[e] = "staged" THEN "live"
                                  ELSE life[e]
    BY <1>1
  <1>3. life' \in [Ent -> Lives]
    <2>1. \A e \in Ent : life'[e] \in Lives
      BY <1>2 DEF ItemTypes, Lives
    <2> QED
      BY <1>1, <2>1
  <1>4. ItemTypes'
    <2>1. k0 \in Kind /\ 0 \in 0 .. Wrap - 1
      BY ItemsAssumption
    <2> HIDE DEF k0, gone
    <2> QED
      BY <1>1, <1>3, <2>1 DEF ItemTypes
  <1>5. \A e \in Ent : e \in Existing => e \in Existing'
    BY <1>2 DEF Existing
  <1>6. Ownership'
    BY <1>1, <1>4, <1>5 DEF ItemTypes, Ownership, ExclusiveOwnership, SlotsHoldItems, ShownExist
  <1>7. FrameTypes'
    <2>1. /\ input' = [p \in Player |->
                        [Idle(AnySlot) EXCEPT !.toStorage = input[p].toStorage]]
          /\ stage' = "net" /\ todo' = {} /\ packets' = [p \in Player |-> 0]
          /\ UNCHANGED <<open, cooling, abandoned>>
      BY DEF Merge
    <2>2. AnySlot \in Slot
      BY ItemsAssumption DEF AnySlot
    <2>3. \A p \in Player :
              [Idle(AnySlot) EXCEPT !.toStorage = input[p].toStorage] \in InputType
      <3> SUFFICES ASSUME NEW p \in Player
                   PROVE  [Idle(AnySlot) EXCEPT !.toStorage = input[p].toStorage] \in InputType
        OBVIOUS
      <3>1. input[p].toStorage \in BOOLEAN
        BY DEF FrameTypes, InputType
      <3> QED
        BY <2>2, <3>1 DEF Idle, InputType
    <2> QED
      BY <2>1, <2>3 DEF FrameTypes, Stages, Rank
  <1> QED
    BY <1>4, <1>6, <1>7

\* An item spawned between frames belongs to no slot.
LEMMA SpawnItemOwns ==
    ASSUME ItemTypes, FrameTypes, Ownership,
           NEW e \in Ent, NEW k \in Kind, NEW q \in SpawnQty, SpawnItem(e, k, q)
    PROVE  ItemTypes' /\ FrameTypes' /\ Ownership'
  <1>1. /\ e \in Fresh
        /\ life'  = [life EXCEPT ![e] = "live"]
        /\ kind'  = [kind EXCEPT ![e] = k]
        /\ qty'   = [qty EXCEPT ![e] = q]
        /\ shown' = [shown EXCEPT ![e] = TRUE]
        /\ UNCHANGED <<held, open, cooling, input, packets, stage, todo, abandoned>>
    BY DEF SpawnItem
  <1>2. ItemTypes'
    <2>1. q \in 0 .. Wrap - 1
      BY ItemsAssumption
    <2> QED
      BY <1>1, <2>1 DEF ItemTypes, Lives
  <1>3. FrameTypes'
    BY <1>1 DEF FrameTypes
  <1>4. \A c \in Cell : held[c] # e
    BY <1>1 DEF Fresh
  <1>5. Ownership'
    BY <1>1, <1>4
       DEF ItemTypes, Ownership, ExclusiveOwnership, SlotsHoldItems, ShownExist, Existing
  <1> QED
    BY <1>2, <1>3, <1>5

\* A departure takes slots away and adds none.
LEMMA LeaveOwns ==
    ASSUME ItemTypes, FrameTypes, Ownership, NEW p \in Player, Leave(p)
    PROVE  ItemTypes' /\ FrameTypes' /\ Ownership'
  <1>1. /\ abandoned' = abandoned \cup ({held[<<p, s>>] : s \in Slot} \ {NoEnt})
        /\ held' = [c \in Cell |-> IF c[1] = p THEN NoEnt ELSE held[c]]
        /\ open' = [open EXCEPT ![p] = NoContainer]
        /\ cooling' = [cooling EXCEPT ![p] = FALSE]
        /\ input' = [input EXCEPT ![p] = Idle(AnySlot)]
        /\ UNCHANGED <<life, kind, qty, shown, packets, stage, todo>>
    BY DEF Leave
  <1>2. ItemTypes'
    BY <1>1 DEF ItemTypes
  <1>3. FrameTypes'
    <2>1. Idle(AnySlot) \in InputType
      BY ItemsAssumption DEF AnySlot, Idle, InputType
    <2>2. \A s \in Slot : <<p, s>> \in Cell
      BY DEF Cell, Holder
    <2>3. abandoned' \subseteq Ent
      <3>1. \A s \in Slot : held[<<p, s>>] \in Ent \cup {NoEnt}
        BY <2>2 DEF ItemTypes
      <3> QED
        BY <1>1, <3>1 DEF FrameTypes
    <2> QED
      BY <1>1, <2>1, <2>3 DEF FrameTypes
  <1>4. Ownership'
    BY <1>1 DEF ItemTypes, Ownership, ExclusiveOwnership, SlotsHoldItems, ShownExist, Existing
  <1> QED
    BY <1>2, <1>3, <1>4

\* Activators that accumulate keep the type of a key state.  Each is named
\* first, as a Boolean term inside a record is beyond the provers.
LEMMA AccumulateTyped ==
    ASSUME NEW i \in InputType, NEW m \in InputType
    PROVE  \E a \in InputType :
               /\ a = Accumulate(i, m)
               /\ a.sprint = m.sprint /\ a.ctrl = m.ctrl
               /\ a.slot = m.slot /\ a.deletion = m.deletion
               /\ a.drop = (m.drop \/ i.drop) /\ a.swap = (m.swap \/ i.swap)
               /\ a.places = IF m.places > 0 THEN m.places ELSE i.places
  <1>1. PICK u \in BOOLEAN : u = (m.use \/ i.use)
    BY Zenon
  <1>2. PICK d \in BOOLEAN : d = (m.drop \/ i.drop)
    BY Zenon
  <1>3. PICK s \in BOOLEAN : s = (m.swap \/ i.swap)
    BY Zenon
  <1>4. PICK k \in BOOLEAN : k = (m.pick \/ i.pick)
    BY Zenon
  <1>5. PICK t \in BOOLEAN : t = (m.toStorage \/ i.toStorage)
    BY Zenon
  <1>6. (IF m.places > 0 THEN m.places ELSE i.places) \in Nat
    BY DEF InputType
  <1>7. PICK n \in Nat : n = (IF m.places > 0 THEN m.places ELSE i.places)
    BY <1>6, Zenon
  <1>8. Accumulate(i, m) =
            [m EXCEPT !.use = u, !.drop = d, !.swap = s, !.pick = k,
                      !.toStorage = t, !.places = n]
    BY <1>1, <1>2, <1>3, <1>4, <1>5, <1>7, Zenon DEF Accumulate
  <1>9. [m EXCEPT !.use = u, !.drop = d, !.swap = s, !.pick = k,
                  !.toStorage = t, !.places = n] \in InputType
    BY DEF InputType
  <1>10. PICK a \in InputType :
             a = [m EXCEPT !.use = u, !.drop = d, !.swap = s, !.pick = k,
                           !.toStorage = t, !.places = n]
    BY <1>9, Zenon
  <1>11. a.slot = m.slot /\ a.places = n
    BY <1>10 DEF InputType
  <1>12. a.sprint = m.sprint /\ a.ctrl = m.ctrl /\ a.deletion = m.deletion
    BY <1>10 DEF InputType
  <1>13. a.drop = d /\ a.swap = s
    BY <1>10 DEF InputType
  <1>14. a = Accumulate(i, m)
    BY <1>8, <1>10, Zenon
  <1> QED
    BY <1>2, <1>3, <1>7, <1>11, <1>12, <1>13, <1>14, Zenon

\* A packet leaves the key state well typed.
LEMMA KeystateTypes ==
    ASSUME FrameTypes, NEW p \in Player, NEW m \in Inputs, Keystate(p, m)
    PROVE  FrameTypes'
  <1>1. input[p] \in InputType /\ m \in InputType
    BY ItemsAssumption DEF FrameTypes
  <1>2. Accumulate(input[p], m) \in InputType
    BY <1>1, AccumulateTyped
  <1>3. packets[p] + 1 \in Nat
    BY DEF FrameTypes
  <1> QED
    BY <1>2, <1>3 DEF Keystate, FrameTypes

\* Systems work on players and containers only.
LEMMA ActingHolders == ASSUME NEW s PROVE Acting(s) \subseteq Holder
  BY DEF Acting, Holder

----------------------------------------------------------------------------
\* The inductive invariant holds before the first frame.
THEOREM IInvInit == Init => IInv
  <1> SUFFICES ASSUME Init PROVE IInv
    OBVIOUS
  <1>1. AnySlot \in Slot /\ (CHOOSE k \in Kind : TRUE) \in Kind /\ 0 \in 0 .. Wrap - 1
    BY ItemsAssumption DEF AnySlot
  <1>2. Idle(AnySlot) \in InputType
    BY <1>1 DEF Idle, InputType
  <1>3. ItemTypes
    BY <1>1 DEF Init, ItemTypes, Lives
  <1>4. FrameTypes
    BY <1>2 DEF Init, FrameTypes, Stages, Rank
  <1>5. Ownership
    BY DEF Init, Ownership, ExclusiveOwnership, SlotsHoldItems, ShownExist
  <1> QED
    BY <1>3, <1>4, <1>5, Types DEF IInv

\* Every system, packet, spawn and departure keeps the inductive invariant.
THEOREM IInvStep == IInv /\ [Next]_vars => IInv'
  <1> SUFFICES ASSUME ItemTypes, FrameTypes, Ownership, [Next]_vars
               PROVE  ItemTypes' /\ FrameTypes' /\ Ownership'
    BY Types DEF IInv, TypeOK, ItemTypes, FrameTypes, Ownership
  <1>1. CASE UNCHANGED vars
    BY <1>1, SameOwners DEF vars, ItemTypes, FrameTypes
  <1>2. ASSUME NEW p \in Player, PickItem(p)
        PROVE  ItemTypes' /\ FrameTypes' /\ Ownership'
    <2>1. FrameTypes'
      BY <1>2 DEF PickItem, Turn, FrameTypes
    <2>2. CASE \E e \in Lying : TakeInto(p, e)
      BY <2>1, <2>2, TakeIntoOwns DEF Holder
    <2>3. CASE UNCHANGED itemVars
      BY <2>1, <2>3, SameOwners DEF itemVars, ItemTypes
    <2> QED
      BY <1>2, <2>2, <2>3 DEF PickItem
  <1>3. ASSUME NEW p \in Player, DropItem(p)
        PROVE  ItemTypes' /\ FrameTypes' /\ Ownership'
    <2>1. CASE CanDrop(p)
      <3>1. /\ DropStack(p)
            /\ cooling' = [cooling EXCEPT ![p] = TRUE]
            /\ input' = [input EXCEPT ![p].drop = FALSE]
            /\ UNCHANGED <<open, stage, packets, abandoned>>
            /\ todo' = todo \ {p}
        BY <1>3, <2>1 DEF DropItem, Turn
      <3>2. [input[p] EXCEPT !.drop = FALSE] \in InputType
        <4>1. input[p] \in InputType
          BY DEF FrameTypes
        <4> QED
          BY <4>1 DEF InputType
      <3>3. FrameTypes'
        BY <3>1, <3>2 DEF FrameTypes
      <3> QED
        BY <2>1, <3>1, <3>3, DropStackOwns
    <2>2. CASE ~CanDrop(p)
      <3>1. UNCHANGED <<itemVars, cooling, input>>
        BY <1>3, <2>2 DEF DropItem
      <3>2. FrameTypes'
        BY <1>3, <3>1 DEF DropItem, Turn, FrameTypes
      <3> QED
        BY <3>1, <3>2, SameOwners DEF itemVars, ItemTypes
    <2> QED
      BY <2>1, <2>2
  <1>4. ASSUME NEW p \in Player, SwapItems(p)
        PROVE  ItemTypes' /\ FrameTypes' /\ Ownership'
    <2>1. FrameTypes'
      <3>1. (input[p].toStorage /\ input[p].storage /\ open[p] = NoContainer) \in BOOLEAN
        OBVIOUS
      <3>2. input' = [input EXCEPT ![p].toStorage =
                         @ /\ input[p].storage /\ open[p] = NoContainer]
            /\ UNCHANGED <<open, cooling, stage, packets, abandoned>>
            /\ todo' = todo \ {p}
        BY <1>4 DEF SwapItems, Turn
      <3>3. PICK b \in BOOLEAN : input' = [input EXCEPT ![p].toStorage = b]
        BY <3>1, <3>2, Zenon
      <3> QED
        BY <3>2, <3>3 DEF FrameTypes, InputType
    <2>2. CASE CanSwap(p)
      <3>1. FromCell(p) \in Cell /\ ToCell(p) \in Cell
        BY <2>2, SwapCells
      <3>2. HasData(held[FromCell(p)]) /\ MoveBetween(p, FromCell(p), ToCell(p))
        BY <1>4, <2>2 DEF SwapItems, CanSwap
      <3> QED
        BY <2>1, <3>1, <3>2, MoveOwns
    <2>3. CASE ~CanSwap(p)
      <3>1. UNCHANGED itemVars
        BY <1>4, <2>3 DEF SwapItems
      <3> QED
        BY <2>1, <3>1, SameOwners DEF itemVars, ItemTypes
    <2> QED
      BY <2>2, <2>3
  <1>5. ASSUME NEW p \in Player, UseItem(p)
        PROVE  ItemTypes' /\ FrameTypes' /\ Ownership'
    <2>1. FrameTypes'
      BY <1>5 DEF UseItem, Turn, FrameTypes
    <2>2. CASE DestroyBlocks(p)
      BY <2>1, <2>2, DestroyOwns
    <2>3. CASE /\ HasData(held[<<p, input[p].slot>>])
               /\ PlaceItems(p, held[<<p, input[p].slot>>])
      BY <2>1, <2>3, PlaceOwns
    <2>4. CASE UNCHANGED itemVars
      BY <2>1, <2>4, SameOwners DEF itemVars, ItemTypes
    <2> QED
      BY <1>5, <2>2, <2>3, <2>4 DEF UseItem
  <1>6. ASSUME NEW p \in Player, InspectContainers(p)
        PROVE  ItemTypes' /\ FrameTypes' /\ Ownership'
    <2>1. FrameTypes'
      BY <1>6 DEF InspectContainers, Turn, FrameTypes
    <2> QED
      BY <1>6, <2>1, SameOwners DEF InspectContainers, itemVars, ItemTypes
  <1>7. ASSUME NEW p \in Player, CoolDown(p)
        PROVE  ItemTypes' /\ FrameTypes' /\ Ownership'
    BY <1>7, SameOwners DEF CoolDown, itemVars, ItemTypes, FrameTypes
  <1>8. ASSUME NEW p \in Player, Leave(p)
        PROVE  ItemTypes' /\ FrameTypes' /\ Ownership'
    BY <1>8, LeaveOwns
  <1>9. ASSUME NEW p \in Player, NEW m \in Inputs, Keystate(p, m)
        PROVE  ItemTypes' /\ FrameTypes' /\ Ownership'
    BY <1>9, KeystateTypes, SameOwners DEF Keystate, itemVars, ItemTypes
  <1>10. ASSUME NEW h \in Container, HarvestIntoContainers(h)
         PROVE  ItemTypes' /\ FrameTypes' /\ Ownership'
    <2>1. FrameTypes'
      BY <1>10 DEF HarvestIntoContainers, Turn, FrameTypes
    <2>2. CASE \E e \in Lying : TakeInto(h, e)
      BY <2>1, <2>2, TakeIntoOwns DEF Holder
    <2>3. CASE UNCHANGED itemVars
      BY <2>1, <2>3, SameOwners DEF itemVars, ItemTypes
    <2> QED
      BY <1>10, <2>2, <2>3 DEF HarvestIntoContainers
  <1>11. ASSUME NEW e \in Ent, NEW k \in Kind, NEW q \in SpawnQty, SpawnItem(e, k, q)
         PROVE  ItemTypes' /\ FrameTypes' /\ Ownership'
    BY <1>11, SpawnItemOwns
  <1>12. CASE NextSystem
    <2>1. FrameTypes'
      BY <1>12, ActingHolders DEF NextSystem, FrameTypes
    <2> QED
      BY <1>12, <2>1, SameOwners DEF NextSystem, itemVars, ItemTypes
  <1>13. CASE Merge
    BY <1>13, MergeOwns
  <1> QED
    BY <1>1, <1>2, <1>3, <1>4, <1>5, <1>6, <1>7, <1>8, <1>9, <1>10, <1>11,
       <1>12, <1>13 DEF Next

\* The inductive invariant holds throughout.
THEOREM Invariant == Spec => []IInv
  BY IInvInit, IInvStep, PTL DEF Spec

\* Quantities stay unsigned, slots hold ids, players' inputs are key states:
\* the types hold however many players and packets there are.
THEOREM TypeCorrect == Spec => []TypeOK
  BY Invariant, PTL DEF IInv

\* No interleaving of pick, drop, swap, split, use and harvest puts the same
\* item into two slots.
THEOREM OwnershipIsExclusive == Spec => []ExclusiveOwnership
  BY Invariant, PTL DEF IInv, Ownership

\* Slots never refer to a despawned item nor to one lying in the world.
THEOREM SlotsAreLive == Spec => []SlotsHoldItems
  BY Invariant, PTL DEF IInv, Ownership

\* The tracker never shows an item that is being deleted.
THEOREM ShownAreAlive == Spec => []ShownExist
  BY Invariant, PTL DEF IInv, Ownership

----------------------------------------------------------------------------
(* What the systems may rely on: who still acts, and what was pressed.     *)

\* A client presses one thing per frame, and no SPRINT while it drags; or any
\* number of packets drop and drag without SPRINT.
Gentle ==
    \/ /\ PacketCap <= 1
       /\ \A m \in Inputs : /\ m.swap => ~m.sprint /\ m.places = 0
                            /\ m.drop => m.places = 0
    \/ \A m \in Inputs : ~m.sprint /\ m.places = 0

\* There is one player, who does not drop and drag in one frame; or there are
\* any number, who press no modifier key.
Solo == /\ PacketCap <= 1 /\ \A p, q \in Player : p = q
        /\ \A m \in Inputs : ~(m.drop /\ m.swap)
Undisturbed == Solo \/ \A m \in Inputs : ~m.sprint /\ ~m.ctrl

\* What a player has pressed comes from a packet of this frame.
PressedBy(p, m) ==
    /\ input[p].sprint = m.sprint /\ input[p].ctrl = m.ctrl
    /\ PacketCap <= 1 => /\ input[p].drop => m.drop
                         /\ input[p].swap => m.swap
                         /\ input[p].places = m.places

\* Without a packet nothing is pressed, and who acts has pressed the key.
KeysInv ==
    \A p \in Player :
        /\ packets[p] = 0 => ~input[p].drop /\ ~input[p].swap /\ input[p].places = 0
        /\ \E m \in Inputs \cup {Idle(AnySlot)} : PressedBy(p, m)
        /\ input[p].places > 0 => \E m \in Inputs : m.places > 0
        /\ stage = "drop" /\ p \in todo => input[p].drop
        /\ stage = "swap" /\ p \in todo => input[p].swap

\* What two states must share of a player for his keys to be the same.
SameKeys(p) ==
    /\ packets'[p] = packets[p]
    /\ input'[p].sprint = input[p].sprint /\ input'[p].ctrl = input[p].ctrl
    /\ input'[p].drop => input[p].drop
    /\ input'[p].swap = input[p].swap /\ input'[p].places = input[p].places

LEMMA SameKeysKeep ==
    ASSUME KeysInv, \A p \in Player : SameKeys(p),
           \A p \in Player : stage' \in {"drop", "swap"} /\ p \in todo' =>
               /\ stage' = stage /\ p \in todo /\ (stage = "drop" => input'[p] = input[p])
    PROVE  KeysInv'
  <1> SUFFICES ASSUME NEW p \in Player
               PROVE  /\ packets'[p] = 0 => ~input'[p].drop /\ ~input'[p].swap /\ input'[p].places = 0
                      /\ \E m \in Inputs \cup {Idle(AnySlot)} : PressedBy(p, m)'
                      /\ input'[p].places > 0 => \E m \in Inputs : m.places > 0
                      /\ stage' = "drop" /\ p \in todo' => input'[p].drop
                      /\ stage' = "swap" /\ p \in todo' => input'[p].swap
    BY DEF KeysInv
  <1>1. SameKeys(p)
    OBVIOUS
  <1>2. PICK m \in Inputs \cup {Idle(AnySlot)} : PressedBy(p, m)
    BY DEF KeysInv
  <1>3. PressedBy(p, m)'
    BY <1>1, <1>2 DEF SameKeys, PressedBy
  <1>4. packets'[p] = 0 => ~input'[p].drop /\ ~input'[p].swap /\ input'[p].places = 0
    BY <1>1 DEF SameKeys, KeysInv
  <1>5. input'[p].places > 0 => \E k \in Inputs : k.places > 0
    BY <1>1 DEF SameKeys, KeysInv
  <1>6. /\ stage' = "drop" /\ p \in todo' => input'[p].drop
        /\ stage' = "swap" /\ p \in todo' => input'[p].swap
    BY <1>1 DEF SameKeys, KeysInv
  <1> QED
    BY <1>3, <1>4, <1>5, <1>6

LEMMA IdleKeys == /\ Idle(AnySlot) \in InputType
                  /\ ~Idle(AnySlot).drop /\ ~Idle(AnySlot).swap
                  /\ ~Idle(AnySlot).sprint /\ ~Idle(AnySlot).ctrl
                  /\ Idle(AnySlot).places = 0
  <1>1. AnySlot \in Slot
    BY ItemsAssumption DEF AnySlot
  <1> QED
    BY <1>1 DEF Idle, InputType

LEMMA InitKeys == Init => KeysInv
  <1> SUFFICES ASSUME Init, NEW p \in Player
               PROVE  /\ ~input[p].drop /\ ~input[p].swap /\ input[p].places = 0
                      /\ PressedBy(p, Idle(AnySlot)) /\ stage = "net"
    BY DEF KeysInv
  <1>1. input[p] = Idle(AnySlot) /\ stage = "net"
    BY DEF Init
  <1> QED
    BY <1>1, IdleKeys DEF PressedBy

\* The keys, system by system.
LEMMA StepKeys == IInv /\ KeysInv /\ [Next]_vars => KeysInv'
  <1> SUFFICES ASSUME FrameTypes, KeysInv, [Next]_vars PROVE KeysInv'
    BY Types DEF IInv
  <1>1. CASE UNCHANGED <<input, packets, stage, todo>>
    <2>1. \A p \in Player : SameKeys(p)
      BY <1>1 DEF SameKeys
    <2> QED
      BY <1>1, <2>1, SameKeysKeep
  <1>2. CASE UNCHANGED <<input, packets, stage>> /\ \E h \in todo : todo' = todo \ {h}
    <2>1. \A p \in Player : SameKeys(p)
      BY <1>2 DEF SameKeys
    <2> QED
      BY <1>2, <2>1, SameKeysKeep
  <1>3. ASSUME NEW p \in Player, DropItem(p), CanDrop(p) PROVE KeysInv'
    <2>1. /\ input' = [input EXCEPT ![p].drop = FALSE]
          /\ UNCHANGED <<stage, packets>> /\ stage = "drop" /\ todo' = todo \ {p}
      BY <1>3 DEF DropItem, Turn
    <2>2. \A q \in Player : SameKeys(q)
      <3> SUFFICES ASSUME NEW q \in Player PROVE SameKeys(q)
        OBVIOUS
      <3>1. input[q] \in InputType /\ input'[q] = IF q = p THEN [input[q] EXCEPT !.drop = FALSE] ELSE input[q]
        BY <2>1 DEF FrameTypes
      <3> QED
        BY <2>1, <3>1 DEF SameKeys, InputType
    <2>3. \A q \in Player : q \in todo' => q \in todo /\ input'[q] = input[q]
      BY <2>1 DEF FrameTypes
    <2> QED
      BY <2>1, <2>2, <2>3, SameKeysKeep
  <1>4. ASSUME NEW p \in Player, SwapItems(p) PROVE KeysInv'
    <2>1. /\ UNCHANGED <<stage, packets>> /\ stage = "swap" /\ todo' = todo \ {p}
          /\ input' = [input EXCEPT ![p].toStorage =
                           @ /\ input[p].storage /\ open[p] = NoContainer]
      BY <1>4 DEF SwapItems, Turn
    <2>2. \A q \in Player : SameKeys(q)
      <3> SUFFICES ASSUME NEW q \in Player PROVE SameKeys(q)
        OBVIOUS
      <3>1. PICK b \in BOOLEAN : b = (input[p].toStorage /\ input[p].storage /\ open[p] = NoContainer)
        BY Zenon
      <3>2. input' = [input EXCEPT ![p].toStorage = b]
        BY <2>1, <3>1, Zenon
      <3>3. input[q] \in InputType /\ input'[q] = IF q = p THEN [input[q] EXCEPT !.toStorage = b] ELSE input[q]
        BY <3>2 DEF FrameTypes
      <3> QED
        BY <2>1, <3>3 DEF SameKeys, InputType
    <2> QED
      BY <2>1, <2>2, SameKeysKeep
  <1>5. ASSUME NEW p \in Player, NEW m \in Inputs, Keystate(p, m) PROVE KeysInv'
    <2>1. /\ stage = "net" /\ stage' = "net" /\ packets[p] < PacketCap
          /\ input' = [input EXCEPT ![p] = Accumulate(@, m)]
          /\ packets' = [packets EXCEPT ![p] = @ + 1]
      BY <1>5 DEF Keystate
    <2>2. input[p] \in InputType /\ m \in InputType /\ packets[p] \in Nat
      BY ItemsAssumption DEF FrameTypes
    <2>3. PICK i \in InputType :
              /\ i = Accumulate(input[p], m)
              /\ i.sprint = m.sprint /\ i.ctrl = m.ctrl
              /\ i.drop = (m.drop \/ input[p].drop) /\ i.swap = (m.swap \/ input[p].swap)
              /\ i.places = IF m.places > 0 THEN m.places ELSE input[p].places
      BY <2>2, AccumulateTyped
    <2>5. input'[p] = i /\ packets'[p] > 0
      BY <2>1, <2>2, <2>3 DEF FrameTypes
    <2>6. PressedBy(p, m)'
      <3>1. PacketCap <= 1 => packets[p] = 0
        BY <2>1, <2>2, ItemsAssumption
      <3> QED
        BY <2>2, <2>3, <2>5, <3>1 DEF PressedBy, KeysInv, InputType
    <2>7. input'[p].places > 0 => \E k \in Inputs : k.places > 0
      BY <2>3, <2>5 DEF KeysInv
    <2>8. ASSUME NEW q \in Player, q # p
          PROVE  /\ packets'[q] = packets[q] /\ input'[q] = input[q]
                 /\ \E k \in Inputs \cup {Idle(AnySlot)} : PressedBy(q, k)'
      <3>1. packets'[q] = packets[q] /\ input'[q] = input[q]
        BY <2>1, <2>8 DEF FrameTypes
      <3> QED
        BY <3>1 DEF KeysInv, PressedBy
    <2> QED
      BY <2>1, <2>5, <2>6, <2>7, <2>8 DEF KeysInv
  <1>6. ASSUME NEW p \in Player, Leave(p) PROVE KeysInv'
    <2>1. /\ stage = "net" /\ stage' = "net" /\ packets' = packets
          /\ input' = [input EXCEPT ![p] = Idle(AnySlot)]
      BY <1>6 DEF Leave
    <2>2. input'[p] = Idle(AnySlot) /\ PressedBy(p, Idle(AnySlot))'
      BY <2>1, IdleKeys DEF FrameTypes, PressedBy
    <2>3. ASSUME NEW q \in Player, q # p
          PROVE  /\ packets'[q] = packets[q] /\ input'[q] = input[q]
                 /\ \E k \in Inputs \cup {Idle(AnySlot)} : PressedBy(q, k)'
      <3>1. packets'[q] = packets[q] /\ input'[q] = input[q]
        BY <2>1, <2>3 DEF FrameTypes
      <3> QED
        BY <3>1 DEF KeysInv, PressedBy
    <2> QED
      BY <2>1, <2>2, <2>3, IdleKeys DEF KeysInv
  <1>7. CASE NextSystem
    <2>1. UNCHANGED <<input, packets>> /\ todo' = Acting(stage')
      BY <1>7 DEF NextSystem
    <2>2. /\ stage' = "drop" => todo' = {p \in Player : input[p].drop}
          /\ stage' = "swap" => todo' = {p \in Player : input[p].swap}
      BY <2>1 DEF Acting
    <2>3. ASSUME NEW p \in Player
          PROVE  \E m \in Inputs \cup {Idle(AnySlot)} : PressedBy(p, m)'
      BY <2>1 DEF KeysInv, PressedBy
    <2> QED
      BY <2>1, <2>2, <2>3 DEF KeysInv
  <1>8. CASE Merge
    <2> SUFFICES ASSUME NEW p \in Player
                 PROVE  /\ ~input'[p].drop /\ ~input'[p].swap /\ input'[p].places = 0
                        /\ PressedBy(p, Idle(AnySlot))' /\ stage' = "net"
      BY DEF KeysInv
    <2>1. stage' = "net" /\ input'[p] = [Idle(AnySlot) EXCEPT !.toStorage = input[p].toStorage]
      BY <1>8 DEF Merge
    <2> QED
      BY <2>1, IdleKeys DEF PressedBy, InputType
  <1>9. ASSUME NEW p \in Player, \/ PickItem(p) \/ UseItem(p) \/ InspectContainers(p)
                                 \/ DropItem(p) /\ ~CanDrop(p)
        PROVE  KeysInv'
    BY <1>2, <1>9 DEF PickItem, UseItem, InspectContainers, DropItem, Turn
  <1>10. ASSUME NEW h \in Container, HarvestIntoContainers(h) PROVE KeysInv'
    BY <1>2, <1>10 DEF HarvestIntoContainers, Turn
  <1>11. ASSUME NEW e \in Ent, NEW k \in Kind, NEW q \in SpawnQty, SpawnItem(e, k, q) PROVE KeysInv'
    BY <1>1, <1>11 DEF SpawnItem
  <1>12. ASSUME NEW p \in Player, CoolDown(p) PROVE KeysInv'
    BY <1>1, <1>12 DEF CoolDown
  <1> QED
    BY <1>1, <1>3, <1>4, <1>5, <1>6, <1>7, <1>8, <1>9, <1>10, <1>11, <1>12 DEF Next, vars

\* What the keys of a gentle client have in common.
LEMMA GentleKeys ==
    ASSUME FrameTypes, KeysInv, Gentle, NEW p \in Player
    PROVE  /\ input[p].swap => ~input[p].sprint
           /\ input[p].places > 0 => ~input[p].drop /\ ~input[p].swap
  <1>1. PICK m \in Inputs \cup {Idle(AnySlot)} : PressedBy(p, m)
    BY DEF KeysInv
  <1>2. input[p] \in InputType /\ m \in InputType
    BY IdleKeys, ItemsAssumption DEF FrameTypes
  <1>3. CASE PacketCap <= 1 /\ \A k \in Inputs : /\ k.swap => ~k.sprint /\ k.places = 0
                                                 /\ k.drop => k.places = 0
    BY <1>1, <1>2, <1>3, IdleKeys DEF PressedBy, InputType
  <1>4. CASE \A k \in Inputs : ~k.sprint /\ k.places = 0
    BY <1>1, <1>2, <1>4, IdleKeys DEF PressedBy, KeysInv, InputType
  <1> QED
    BY <1>3, <1>4 DEF Gentle

\* What the keys of undisturbed players have in common.
LEMMA UndisturbedKeys ==
    ASSUME KeysInv, NEW p \in Player
    PROVE  /\ Solo => ~(input[p].drop /\ input[p].swap)
           /\ Undisturbed /\ ~Solo => ~input[p].sprint /\ ~input[p].ctrl
  <1>1. PICK m \in Inputs \cup {Idle(AnySlot)} : PressedBy(p, m)
    BY DEF KeysInv
  <1> QED
    BY <1>1, IdleKeys DEF Solo, Undisturbed, PressedBy

----------------------------------------------------------------------------
(* Quantities                                                              *)

\* A stack that exists holds a unit at least and no more than its kind
\* allows; what does not exist holds nothing.
Stacked(e) ==
    /\ e \in Existing => qty[e] \in 1 .. MaxQuantity[kind[e]]
    /\ e \notin Existing => qty[e] = 0
GoodStacks == \A e \in Ent : Stacked(e)

\* The cell holds what it held, and no less of it.
Spared(c) ==
    HasData(held[c]) => /\ held'[c] = held[c] /\ HasData(held[c])'
                        /\ qty'[held[c]] >= qty[held[c]]

\* A player who is going to place items in this frame has them selected.
Awaits(p) == \/ stage \in {"net", "pick", "drop", "swap"}
             \/ stage = "use" /\ p \in todo
Affords(p) ==
    input[p].places > 0 /\ ~input[p].deletion =>
        /\ HasData(held[<<p, input[p].slot>>])
        /\ input[p].places <= qty[held[<<p, input[p].slot>>]]
AffordInv == \A p \in Player : Awaits(p) => Affords(p)

\* Nothing happens to the quantities.
LEMMA SameStacks ==
    ASSUME GoodStacks, UNCHANGED <<life, kind, qty>>
    PROVE  GoodStacks'
  BY DEF GoodStacks, Stacked, Existing

\* Two stacks change, and the others do not.
LEMMA TwoStacks ==
    ASSUME GoodStacks, NEW a \in Ent, NEW b \in Ent, Stacked(a)', Stacked(b)',
           \A e \in Ent \ {a, b} : /\ life'[e] = life[e] /\ kind'[e] = kind[e]
                                   /\ qty'[e] = qty[e]
    PROVE  GoodStacks'
  <1> SUFFICES ASSUME NEW e \in Ent PROVE Stacked(e)'
    BY DEF GoodStacks
  <1>1. CASE e # a /\ e # b
    BY <1>1 DEF GoodStacks, Stacked, Existing
  <1> QED
    BY <1>1

\* What a despawn changes.
LEMMA DespawnedFacts ==
    ASSUME ItemTypes, NEW a \in Ent, Despawned(a)
    PROVE  /\ life'[a] = "dying" /\ a \notin Existing'
           /\ \A e \in Ent \ {a} : life'[e] = life[e]
  BY DEF ItemTypes, Despawned, Existing

\* Pouring a lying stack into a held one.
LEMMA TakeIntoGood ==
    ASSUME ItemTypes, Ownership, GoodStacks, NEW h \in Holder, NEW e \in Lying, TakeInto(h, e)
    PROVE  GoodStacks' /\ \A c \in Cell : Spared(c)
  <1>1. PICK s \in Slot :
            /\ FirstRoom(h, e, s)
            /\ LET c == <<h, s>>
               IN  \/ HasData(held[c]) /\ Pour(e, held[c])
                   \/ ~Valid(held[c]) /\ Store(c, e)
                   \/ /\ Valid(held[c]) /\ ~HasData(held[c])
                      /\ UNCHANGED itemVars
    BY DEF TakeInto
  <1> DEFINE c == <<h, s>>
  <1>2. PICK t : t = held[c] /\ c \in Cell
    BY DEF Cell
  <1>3. e \in Ent /\ life[e] = "live" /\ shown[e] /\ e \in Existing
    BY DEF Lying, Existing
  <1>4. \A d \in Cell : held[d] # e
    BY <1>3, ItemsAssumption DEF Ownership, SlotsHoldItems
  <1>5. CASE HasData(t) /\ Pour(e, t)
    <2>1. t \in Ent /\ t # e /\ qty[t] < MaxQuantity[kind[e]] /\ kind[t] = kind[e] /\ t \in Existing
      BY <1>1, <1>2, <1>3, <1>5, ItemsAssumption
         DEF ItemTypes, Ownership, SlotsHoldItems, HasData, FirstRoom, Room
    <2>2. PICK n \in Int : /\ n = Least(qty[e], MaxQuantity[kind[e]] - qty[t])
                           /\ n \in 1 .. qty[e] /\ qty[t] + n <= MaxQuantity[kind[e]]
      <3>1. /\ qty[e] \in 1 .. MaxQuantity[kind[e]] /\ qty[t] \in 1 .. MaxQuantity[kind[e]]
            /\ MaxQuantity[kind[e]] \in Nat
        BY <1>3, <2>1, ItemsAssumption DEF GoodStacks, Stacked, ItemTypes
      <3> QED
        BY <2>1, <3>1 DEF Least
    <2>3. /\ qty' = [qty EXCEPT ![e] = @ - n, ![t] = @ + n]
          /\ UNCHANGED <<kind, held>>
          /\ IF qty[e] = n THEN Despawned(e) ELSE UNCHANGED <<life, shown>>
      BY <1>5, <2>2 DEF Pour
    <2>4. /\ qty'[e] = qty[e] - n /\ qty'[t] = qty[t] + n
          /\ \A d \in Ent \ {e, t} : qty'[d] = qty[d]
      BY <1>3, <2>1, <2>3 DEF ItemTypes
    <2>5. /\ qty[e] \in 1 .. MaxQuantity[kind[e]] /\ qty[t] \in 1 .. MaxQuantity[kind[e]]
          /\ MaxQuantity[kind[e]] \in Nat
      BY <1>3, <2>1, ItemsAssumption DEF GoodStacks, Stacked, ItemTypes
    <2>6. /\ \A d \in Ent \ {e} : life'[d] = life[d]
          /\ e \in Existing' <=> qty[e] # n
      <3>1. CASE qty[e] = n
        BY <1>3, <2>3, <3>1, DespawnedFacts
      <3>2. CASE qty[e] # n
        BY <1>3, <2>3, <3>2 DEF Existing
      <3> QED
        BY <3>1, <3>2
    <2>7. Stacked(e)'
      BY <2>2, <2>3, <2>4, <2>5, <2>6 DEF Stacked
    <2>8. Stacked(t)'
      <3>1. t \in Existing'
        BY <2>1, <2>6 DEF Existing
      <3> QED
        BY <2>1, <2>2, <2>3, <2>4, <2>5, <3>1 DEF Stacked
    <2>9. GoodStacks'
      BY <1>3, <2>1, <2>3, <2>4, <2>6, <2>7, <2>8, TwoStacks
    <2>10. \A d \in Cell : Spared(d)
      <3> SUFFICES ASSUME NEW d \in Cell, HasData(held[d])
                   PROVE  /\ held'[d] = held[d] /\ HasData(held[d])'
                          /\ qty'[held[d]] >= qty[held[d]]
        BY DEF Spared
      <3>1. held'[d] = held[d] /\ held[d] \in Ent \ {e} /\ qty[held[d]] \in Int
        BY <1>4, <2>3 DEF ItemTypes, HasData
      <3>2. HasData(held[d])'
        BY <2>6, <3>1 DEF HasData
      <3>3. qty'[held[d]] >= qty[held[d]]
        BY <2>1, <2>2, <2>4, <2>5, <3>1
      <3> QED
        BY <3>1, <3>2, <3>3
    <2> QED
      BY <2>9, <2>10
  <1>6. CASE ~Valid(t) /\ Store(c, e)
    <2>1. GoodStacks'
      BY <1>6, SameStacks DEF Store
    <2>2. \A d \in Cell : Spared(d)
      <3> SUFFICES ASSUME NEW d \in Cell, HasData(held[d])
                   PROVE  /\ held'[d] = held[d] /\ HasData(held[d])'
                          /\ qty'[held[d]] >= qty[held[d]]
        BY DEF Spared
      <3>1. d # c /\ held[d] \in Ent
        BY <1>2, <1>6 DEF HasData, Valid, ItemTypes
      <3>2. held'[d] = held[d] /\ life' = life /\ qty' = qty
        BY <1>2, <1>6, <3>1 DEF Store, ItemTypes
      <3> QED
        BY <3>1, <3>2 DEF HasData, ItemTypes
    <2> QED
      BY <2>1, <2>2
  <1>7. CASE UNCHANGED itemVars
    <2>1. GoodStacks'
      BY <1>7, SameStacks DEF itemVars
    <2> QED
      BY <1>7, <2>1 DEF Spared, HasData, itemVars, ItemTypes
  <1> QED
    BY <1>1, <1>2, <1>5, <1>6, <1>7

\* An empty id that becomes a stack of a kind, spawned from a part of
\* another one.
LEMMA SplitGood ==
    ASSUME ItemTypes, GoodStacks, NEW a \in Ent, a \in Existing, NEW te \in Fresh,
           NEW n \in Int, n \in 1 .. qty[a] - 1,
           life' = [life EXCEPT ![te] = "staged"],
           kind' = [kind EXCEPT ![te] = kind[a]],
           qty'  = [qty EXCEPT ![a] = @ - n, ![te] = n]
    PROVE  GoodStacks'
  <1>1. te \in Ent /\ te # a /\ te \notin Existing
    BY DEF Fresh, Existing
  <1>2. /\ life'[te] = "staged" /\ kind'[te] = kind[a] /\ qty'[te] = n
        /\ life'[a] = life[a] /\ kind'[a] = kind[a] /\ qty'[a] = qty[a] - n
        /\ \A e \in Ent \ {a, te} : life'[e] = life[e] /\ kind'[e] = kind[e] /\ qty'[e] = qty[e]
    BY <1>1 DEF ItemTypes
  <1>3. qty[a] \in 1 .. MaxQuantity[kind[a]] /\ MaxQuantity[kind[a]] \in Nat
    BY ItemsAssumption DEF GoodStacks, Stacked, ItemTypes
  <1>4. Stacked(te)' /\ Stacked(a)'
    BY <1>1, <1>2, <1>3 DEF Stacked, Existing
  <1> QED
    BY <1>1, <1>2, <1>4, TwoStacks

\* Dropping takes one item out of the cell, and no more units than it has.
LEMMA DropGood ==
    ASSUME ItemTypes, FrameTypes, Ownership, GoodStacks, NEW p \in Player,
           CanDrop(p), DropStack(p)
    PROVE  GoodStacks' /\ \A c \in Cell \ {DropCell(p)} : Spared(c)
  <1> DEFINE c == DropCell(p)
             e == held[c]
             n == DroppedCount(p, qty[e])
  <1>1. c \in Cell
    BY DEF CanDrop, DropCell, Box, Cell, Holder, FrameTypes, InputType
  <1>2. e \in Ent /\ qty[e] \in 1 .. Wrap - 1 /\ n \in 1 .. qty[e]
    <2>1. e \in Ent /\ qty[e] \in 1 .. Wrap - 1 /\ n > 0
      BY <1>1, ItemsAssumption DEF CanDrop, HasData, ItemTypes
    <2> QED
      BY <2>1, DroppedRange
  <1>3. e \in Existing
    BY <1>1, <1>2, ItemsAssumption DEF Ownership, SlotsHoldItems
  <1>4. \A d \in Cell \ {c} : held[d] # e
    BY <1>1, <1>2, ItemsAssumption DEF Ownership, ExclusiveOwnership
  <1>5. CASE qty[e] - n > 0
    <2>1. PICK te \in Fresh :
              /\ life' = [life EXCEPT ![te] = "staged"]
              /\ kind' = [kind EXCEPT ![te] = kind[e]]
              /\ qty'  = [qty EXCEPT ![e] = @ - n, ![te] = n]
              /\ held' = [held EXCEPT ![c] = te]
      BY <1>5 DEF DropStack
    <2>2. n \in Int /\ n \in 1 .. qty[e] - 1
      BY <1>2, <1>5
    <2> HIDE DEF n, e, c
    <2>3. GoodStacks'
      BY <1>2, <1>3, <2>1, <2>2, SplitGood
    <2>4. ASSUME NEW d \in Cell \ {c}, HasData(held[d])
          PROVE  /\ held'[d] = held[d] /\ HasData(held[d])'
                 /\ qty'[held[d]] >= qty[held[d]]
      <3>1. held[d] \in Ent \ {e, te} /\ te \in Ent
        BY <1>4, <2>1, <2>4 DEF Fresh, HasData, ItemTypes
      <3>2. /\ held'[d] = held[d] /\ life'[held[d]] = life[held[d]]
            /\ qty'[held[d]] = qty[held[d]] /\ qty[held[d]] \in Int
        BY <2>1, <3>1 DEF ItemTypes
      <3> QED
        BY <2>4, <3>2 DEF HasData
    <2> QED
      BY <2>3, <2>4 DEF Spared, c
  <1>6. CASE ~(qty[e] - n > 0)
    <2>1. held' = [held EXCEPT ![c] = NoEnt] /\ UNCHANGED <<life, kind, qty>>
      BY <1>6 DEF DropStack
    <2>2. GoodStacks'
      BY <2>1, SameStacks
    <2>3. \A d \in Cell \ {c} : Spared(d)
      BY <2>1 DEF Spared, HasData, ItemTypes
    <2> QED
      BY <2>2, <2>3
  <1> QED
    BY <1>5, <1>6

\* Units dragged onto a stack fit there and come from the dragged one.
LEMMA SwappedFits ==
    ASSUME ItemTypes, NEW p \in Player, NEW a \in Ent, NEW b \in Ent, kind[a] = kind[b],
           qty[a] \in 1 .. MaxQuantity[kind[b]], qty[b] \in 1 .. MaxQuantity[kind[b]]
    PROVE  /\ SwappedCount(p, a, b) \in 0 .. qty[a]
           /\ qty[b] + SwappedCount(p, a, b) <= MaxQuantity[kind[b]]
  <1> DEFINE room == (MaxQuantity[kind[b]] - qty[b]) % Wrap
             x == CASE input[p].sprint -> qty[a] \div 2
                    [] ~input[p].sprint /\ input[p].ctrl -> 1
                    [] OTHER -> qty[a]
  <1>1. MaxQuantity[kind[b]] \in 1 .. Wrap - 1 /\ Wrap \in Nat
    BY ItemsAssumption DEF ItemTypes
  <1>2. MaxQuantity[kind[b]] - qty[b] \in 0 .. Wrap - 1
    BY <1>1
  <1>3. room = MaxQuantity[kind[b]] - qty[b]
    BY <1>1, <1>2
  <1>4. x \in 0 .. qty[a]
    <2>1. qty[a] \div 2 \in 0 .. qty[a] /\ 1 \in 0 .. qty[a] /\ qty[a] \in 0 .. qty[a]
      OBVIOUS
    <2> QED
      BY <2>1
  <1>5. SwappedCount(p, a, b) = Least(x, room)
    BY DEF SwappedCount
  <1> HIDE DEF room, x
  <1> QED
    BY <1>1, <1>2, <1>3, <1>4, <1>5 DEF Least

\* Dragging without SPRINT merges, splits or exchanges whole units.
LEMMA MoveGood ==
    ASSUME ItemTypes, FrameTypes, Ownership, GoodStacks, NEW p \in Player, ~input[p].sprint,
           NEW from \in Cell, NEW to \in Cell, HasData(held[from]),
           MoveBetween(p, from, to)
    PROVE  GoodStacks' /\ \A c \in Cell \ {from, to} : Spared(c)
  <1>1. PICK a, b : /\ a = held[from] /\ b = held[to]
                    /\ a \in Ent /\ a \in Existing
    <2>1. held[from] \in Ent /\ held[from] # NoEnt
      BY ItemsAssumption DEF HasData, ItemTypes
    <2> QED
      BY <2>1 DEF Ownership, SlotsHoldItems
  <1>2. ASSUME NEW c \in Cell \ {from, to}, HasData(held[c])
        PROVE  held[c] \in Ent \ {a} /\ (b \in Ent => held[c] # b) /\ qty[held[c]] \in Int
    BY <1>1, <1>2, ItemsAssumption DEF HasData, ItemTypes, Ownership, ExclusiveOwnership
  <1>3. /\ qty[a] \in 1 .. MaxQuantity[kind[a]]
        /\ MaxQuantity[kind[a]] \in 1 .. Wrap - 1 /\ Wrap \in Nat
    BY <1>1, ItemsAssumption DEF GoodStacks, Stacked, ItemTypes
  <1>4. CASE UNCHANGED itemVars
    <2>1. GoodStacks'
      BY <1>4, SameStacks DEF itemVars
    <2> QED
      BY <1>4, <2>1 DEF Spared, HasData, itemVars, ItemTypes
  <1>5. CASE /\ from # to /\ HasData(b) /\ kind[a] = kind[b] /\ qty[b] > 0
             /\ MergeStacks(p, from, a, b)
    <2>1. b \in Ent /\ a # b /\ b \in Existing
      BY <1>1, <1>5, ItemsAssumption
         DEF HasData, ItemTypes, Ownership, ExclusiveOwnership, SlotsHoldItems
    <2>2. qty[b] \in 1 .. MaxQuantity[kind[a]]
      BY <1>5, <2>1 DEF GoodStacks, Stacked
    <2>3. PICK n \in Int : /\ n = SwappedCount(p, a, b) /\ n \in 0 .. qty[a]
                           /\ qty[b] + n <= MaxQuantity[kind[a]]
      BY <1>1, <1>3, <1>5, <2>1, <2>2, SwappedFits
    <2>4. /\ qty' = [qty EXCEPT ![a] = (@ - n) % Wrap, ![b] = (@ + n) % Wrap]
          /\ IF qty[a] = n
             THEN Despawned(a) /\ held' = [held EXCEPT ![from] = NoEnt]
             ELSE UNCHANGED <<life, shown, held>>
          /\ UNCHANGED kind
      BY <1>5, <2>3 DEF MergeStacks
    <2>5. (qty[a] - n) % Wrap = qty[a] - n /\ (qty[b] + n) % Wrap = qty[b] + n
      <3>1. qty[a] - n \in 0 .. Wrap - 1 /\ qty[b] + n \in 0 .. Wrap - 1
        BY <1>3, <2>2, <2>3
      <3> QED
        BY <1>3, <3>1
    <2>6. /\ qty'[a] = qty[a] - n /\ qty'[b] = qty[b] + n
          /\ \A e \in Ent \ {a, b} : qty'[e] = qty[e]
      BY <1>1, <2>1, <2>4, <2>5 DEF ItemTypes
    <2>7. /\ \A e \in Ent \ {a} : life'[e] = life[e]
          /\ a \in Existing' <=> qty[a] # n
      <3>1. CASE qty[a] = n
        BY <1>1, <2>4, <3>1, DespawnedFacts
      <3>2. CASE qty[a] # n
        BY <1>1, <2>4, <3>2 DEF Existing
      <3> QED
        BY <3>1, <3>2
    <2>8. Stacked(a)'
      BY <1>3, <2>3, <2>4, <2>6, <2>7 DEF Stacked
    <2>9. Stacked(b)'
      <3>1. b \in Existing'
        BY <2>1, <2>7 DEF Existing
      <3>2. MaxQuantity[kind[b]]' = MaxQuantity[kind[a]]
        BY <1>5, <2>4
      <3> QED
        BY <1>3, <2>2, <2>3, <2>6, <3>1, <3>2 DEF Stacked
    <2>10. GoodStacks'
      BY <1>1, <2>1, <2>4, <2>6, <2>7, <2>8, <2>9, TwoStacks
    <2>11. ASSUME NEW c \in Cell \ {from, to} PROVE Spared(c)
      <3>1. held'[c] = held[c]
        BY <2>4 DEF ItemTypes
      <3> QED
        BY <1>2, <2>6, <2>7, <3>1 DEF Spared, HasData
    <2> QED
      BY <2>10, <2>11
  <1>6. CASE from # to /\ input[p].ctrl /\ SplitStack(p, to, a)
    <2>1. SplitCount(p, a) = 1
      BY <1>6 DEF SplitCount
    <2>2. CASE qty[a] = 1
      BY <1>4, <1>6, <2>1, <2>2 DEF SplitStack
    <2>3. CASE qty[a] # 1
      <3>1. PICK te \in Fresh :
                /\ life'  = [life EXCEPT ![te] = "staged"]
                /\ kind'  = [kind EXCEPT ![te] = kind[a]]
                /\ qty'   = [qty EXCEPT ![a] = @ - 1, ![te] = 1]
                /\ held'  = [held EXCEPT ![to] = te]
        BY <1>6, <2>1, <2>3 DEF SplitStack
      <3>2. 1 \in Int /\ 1 \in 1 .. qty[a] - 1
        BY <1>3, <2>3
      <3>3. GoodStacks'
        BY <1>1, <3>1, <3>2, SplitGood
      <3>4. ASSUME NEW c \in Cell \ {from, to}, HasData(held[c])
            PROVE  held'[c] = held[c] /\ HasData(held[c])' /\ qty'[held[c]] >= qty[held[c]]
        <4>1. te \in Ent /\ held[c] # te /\ held'[c] = held[c]
          BY <3>1 DEF Fresh, ItemTypes
        <4>2. life'[held[c]] = life[held[c]] /\ qty'[held[c]] = qty[held[c]]
          BY <1>1, <1>2, <3>1, <3>4, <4>1 DEF ItemTypes
        <4> QED
          BY <1>2, <3>4, <4>1, <4>2 DEF HasData
      <3> QED
        BY <3>3, <3>4 DEF Spared
    <2> QED
      BY <2>2, <2>3
  <1>7. CASE ExchangeCells(from, to)
    <2>1. held' = [held EXCEPT ![from] = held[to], ![to] = held[from]]
          /\ UNCHANGED <<life, kind, qty, shown>>
      BY <1>7 DEF ExchangeCells
    <2>2. GoodStacks'
      BY <2>1, SameStacks
    <2> QED
      BY <2>1, <2>2 DEF Spared, HasData, ItemTypes
  <1>8. input[p].ctrl \/ input[p].sprint => input[p].ctrl
    OBVIOUS
  <1> QED
    BY <1>1, <1>4, <1>5, <1>6, <1>7, <1>8 DEF MoveBetween

\* Placing takes no more than the stack has.
LEMMA PlaceGood ==
    ASSUME ItemTypes, FrameTypes, Ownership, GoodStacks, NEW p \in Player,
           ~input[p].deletion, input[p].places > 0 => Affords(p),
           HasData(held[<<p, input[p].slot>>]),
           PlaceItems(p, held[<<p, input[p].slot>>])
    PROVE  GoodStacks' /\ \A c \in Cell \ {<<p, input[p].slot>>} : Spared(c)
  <1> DEFINE c == <<p, input[p].slot>>
  <1>1. PICK e \in Ent : e = held[c] /\ c \in Cell /\ e \in Existing
    <2>1. c \in Cell
      BY DEF Cell, Holder, FrameTypes, InputType
    <2>2. held[c] \in Ent /\ held[c] # NoEnt
      BY <2>1, ItemsAssumption DEF HasData, ItemTypes
    <2> QED
      BY <2>1, <2>2 DEF Ownership, SlotsHoldItems
  <1>2. /\ qty[e] \in 1 .. MaxQuantity[kind[e]]
        /\ MaxQuantity[kind[e]] \in 1 .. Wrap - 1 /\ Wrap \in Nat
    BY <1>1, ItemsAssumption DEF GoodStacks, Stacked, ItemTypes
  <1>3. PICK n \in 0 .. input[p].places :
            LET left == (qty[e] - n) % Wrap
            IN  /\ qty' = [qty EXCEPT ![e] = left]
                /\ IF left = 0
                   THEN /\ Despawned(e)
                        /\ held' = [held EXCEPT ![c] = NoEnt]
                   ELSE UNCHANGED <<life, shown, held>>
                /\ UNCHANGED kind
    BY <1>1 DEF PlaceItems
  <1>4. n \in Int /\ n \in 0 .. qty[e]
    <2>1. input[p].places \in Nat
      BY DEF FrameTypes, InputType
    <2> QED
      BY <1>1, <1>2, <1>3, <2>1 DEF Affords
  <1>5. (qty[e] - n) % Wrap = qty[e] - n
    <2>1. qty[e] - n \in 0 .. Wrap - 1
      BY <1>2, <1>4
    <2> QED
      BY <1>2, <2>1
  <1>6. /\ qty'[e] = qty[e] - n /\ kind' = kind
        /\ \A d \in Ent \ {e} : qty'[d] = qty[d]
    BY <1>3, <1>5 DEF ItemTypes
  <1>7. /\ \A d \in Ent \ {e} : life'[d] = life[d]
        /\ e \in Existing' <=> qty[e] # n
    <2>1. CASE qty[e] - n = 0
      BY <1>2, <1>3, <1>4, <1>5, <2>1, DespawnedFacts
    <2>2. CASE qty[e] - n # 0
      BY <1>1, <1>2, <1>3, <1>4, <1>5, <2>2 DEF Existing
    <2> QED
      BY <1>2, <1>4, <2>1, <2>2
  <1>8. Stacked(e)'
    BY <1>2, <1>4, <1>6, <1>7 DEF Stacked
  <1>9. GoodStacks'
    BY <1>6, <1>7, <1>8, TwoStacks
  <1>10. ASSUME NEW d \in Cell \ {c}, HasData(held[d])
         PROVE  held'[d] = held[d] /\ HasData(held[d])' /\ qty'[held[d]] >= qty[held[d]]
    <2>1. held'[d] = held[d]
      BY <1>3 DEF ItemTypes
    <2>2. held[d] \in Ent \ {e} /\ qty[held[d]] \in Int
      BY <1>1, <1>10, ItemsAssumption DEF HasData, ItemTypes, Ownership, ExclusiveOwnership
    <2> QED
      BY <1>6, <1>7, <1>10, <2>1, <2>2 DEF HasData
  <1> QED
    BY <1>9, <1>10 DEF Spared

\* What a destroyed block leaves is a stack of one.
LEMMA DestroyGood ==
    ASSUME ItemTypes, Ownership, GoodStacks, NEW p \in Player, DestroyBlocks(p)
    PROVE  GoodStacks' /\ \A c \in Cell : Spared(c)
  <1>0. PICK S \in SUBSET Fresh : \E drops \in [S -> Kind] : Spawned(S, drops)
    BY DEF DestroyBlocks
  <1>1. PICK drops \in [S -> Kind] :
            /\ life'  = [e \in Ent |-> IF e \in S THEN "staged" ELSE life[e]]
            /\ kind'  = [e \in Ent |-> IF e \in S THEN drops[e] ELSE kind[e]]
            /\ qty'   = [e \in Ent |-> IF e \in S THEN 1 ELSE qty[e]]
            /\ UNCHANGED held
    BY <1>0 DEF Spawned
  <1>2. \A e \in Ent \ S : life'[e] = life[e] /\ kind'[e] = kind[e] /\ qty'[e] = qty[e]
    BY <1>1
  <1>3. ASSUME NEW e \in Ent PROVE Stacked(e)'
    <2>1. CASE e \in S
      <3>1. life'[e] = "staged" /\ kind'[e] \in Kind /\ qty'[e] = 1
        BY <1>1, <2>1
      <3> QED
        BY <3>1, ItemsAssumption DEF Stacked, Existing
    <2>2. CASE e \notin S
      BY <1>2, <2>2 DEF GoodStacks, Stacked, Existing
    <2> QED
      BY <2>1, <2>2
  <1>4. ASSUME NEW c \in Cell, HasData(held[c])
        PROVE  held'[c] = held[c] /\ HasData(held[c])' /\ qty'[held[c]] >= qty[held[c]]
    <2>1. held[c] \in Ent /\ held[c] \notin S /\ held'[c] = held[c] /\ qty[held[c]] \in Int
      BY <1>1, <1>4 DEF Fresh, HasData, ItemTypes
    <2> QED
      BY <1>2, <1>4, <2>1 DEF HasData
  <1> QED
    BY <1>3, <1>4 DEF GoodStacks, Spared

\* A player awaits his turn to use what he has selected as long as his cells
\* are spared and his keys are the same.
LEMMA SparedAfford ==
    ASSUME NEW p \in Player, FrameTypes, ItemTypes,
           Awaits(p)' => Awaits(p) \/ input[p].places = 0 \/ Affords(p),
           Awaits(p) => Affords(p),
           input'[p].places = input[p].places, input'[p].deletion = input[p].deletion,
           input'[p].slot = input[p].slot,
           input[p].places > 0 => Spared(<<p, input[p].slot>>),
           qty' \in [Ent -> 0 .. Wrap - 1], NoEnt \notin Ent, Wrap \in Nat
    PROVE  Awaits(p)' => Affords(p)'
  <1> SUFFICES ASSUME Awaits(p)', input[p].places > 0, ~input[p].deletion
               PROVE  /\ HasData(held[<<p, input[p].slot>>])'
                      /\ input'[p].places <= qty'[held'[<<p, input'[p].slot>>]]
    BY DEF Affords
  <1> DEFINE c == <<p, input[p].slot>>
  <1>1. input[p].places \in Nat /\ c \in Cell
    BY DEF FrameTypes, InputType, Cell, Holder
  <1>2. HasData(held[c]) /\ input[p].places <= qty[held[c]]
    BY <1>1 DEF Affords
  <1>3. held'[c] = held[c] /\ HasData(held[c])' /\ qty'[held[c]] >= qty[held[c]]
    BY <1>2 DEF Spared
  <1>4. held[c] \in Ent
    BY <1>1, <1>2 DEF HasData, ItemTypes
  <1>5. qty[held[c]] \in Int /\ qty'[held[c]] \in Int
    BY <1>4 DEF ItemTypes
  <1> QED
    BY <1>1, <1>2, <1>3, <1>5

\* The quantities of a gentle game.
StackInv == IInv /\ KeysInv /\ GoodStacks /\ AffordInv

\* Nobody's turn comes, and no keys change.
LEMMA SparedAll ==
    ASSUME ItemTypes, FrameTypes, ItemTypes', AffordInv,
           UNCHANGED <<input, stage>>, todo' \subseteq todo,
           \A p \in Player : Awaits(p)' /\ input[p].places > 0 => Spared(<<p, input[p].slot>>)
    PROVE  AffordInv'
  <1> SUFFICES ASSUME NEW p \in Player, Awaits(p)' PROVE Affords(p)'
    BY DEF AffordInv
  <1>1. Awaits(p) /\ Affords(p)
    BY DEF Awaits, AffordInv
  <1>2. CASE input[p].places > 0
    <2>1. qty' \in [Ent -> 0 .. Wrap - 1] /\ NoEnt \notin Ent /\ Wrap \in Nat
      BY ItemsAssumption DEF ItemTypes
    <2> QED
      BY <1>1, <1>2, <2>1, SparedAfford
  <1>3. CASE ~(input[p].places > 0)
    BY <1>3 DEF Affords
  <1> QED
    BY <1>2, <1>3

LEMMA NothingSpared ==
    ASSUME ItemTypes, UNCHANGED <<life, qty, held>>, NEW c \in Cell
    PROVE  Spared(c)
  BY DEF Spared, HasData, ItemTypes

LEMMA OwnCell ==
    ASSUME FrameTypes, NEW p \in Player
    PROVE  <<p, input[p].slot>> \in Cell
  BY DEF FrameTypes, InputType, Cell, Holder

\* No one but a player himself reaches into his inventory.
LEMMA ForeignCells ==
    ASSUME FrameTypes, NEW p \in Player, NEW q \in Player, p # q
    PROVE  /\ DropCell(p) # <<q, input[q].slot>>
           /\ FromCell(p) # <<q, input[q].slot>> /\ ToCell(p) # <<q, input[q].slot>>
  <1>1. open[p] # q
    BY ItemsAssumption DEF FrameTypes
  <1> QED
    BY <1>1 DEF DropCell, FromCell, ToCell, Box

\* Every step of a gentle game keeps the quantities.
LEMMA StepStacks == Gentle /\ StackInv /\ [Next]_vars => StackInv'
  <1> SUFFICES ASSUME Gentle, IInv, KeysInv, GoodStacks, AffordInv, [Next]_vars
               PROVE  GoodStacks' /\ AffordInv'
    BY IInvStep, StepKeys DEF StackInv
  <1>1. /\ ItemTypes /\ FrameTypes /\ Ownership
        /\ ItemTypes' /\ FrameTypes' /\ Ownership'
    BY IInvStep DEF IInv, TypeOK, ItemTypes, FrameTypes, Ownership
  <1> HIDE DEF IInv
  <1>2. CASE UNCHANGED <<life, kind, qty, held>> /\ UNCHANGED <<input, stage>> /\ todo' \subseteq todo
    <2>1. GoodStacks'
      BY <1>2, SameStacks
    <2>2. AffordInv'
      BY <1>1, <1>2, SparedAll, NothingSpared, OwnCell
    <2> QED
      BY <2>1, <2>2
  <1>3. ASSUME NEW h \in Holder, NEW e \in Lying, TakeInto(h, e),
               UNCHANGED <<input, stage>>, todo' \subseteq todo
        PROVE  GoodStacks' /\ AffordInv'
    <2>1. GoodStacks' /\ \A c \in Cell : Spared(c)
      BY <1>1, <1>3, TakeIntoGood
    <2> QED
      BY <1>1, <1>3, <2>1, SparedAll, OwnCell
  <1>4. ASSUME NEW p \in Player, PickItem(p) PROVE GoodStacks' /\ AffordInv'
    BY <1>2, <1>3, <1>4 DEF PickItem, Turn, itemVars, Holder
  <1>5. ASSUME NEW h \in Container, HarvestIntoContainers(h) PROVE GoodStacks' /\ AffordInv'
    BY <1>2, <1>3, <1>5 DEF HarvestIntoContainers, Turn, itemVars, Holder
  <1>6. ASSUME NEW p \in Player, DropItem(p), CanDrop(p) PROVE GoodStacks' /\ AffordInv'
    <2>1. /\ stage = "drop" /\ p \in todo /\ stage' = stage /\ todo' \subseteq todo
          /\ DropStack(p) /\ input' = [input EXCEPT ![p].drop = FALSE]
      BY <1>6 DEF DropItem, Turn
    <2>2. GoodStacks' /\ \A c \in Cell \ {DropCell(p)} : Spared(c)
      BY <1>1, <1>6, <2>1, DropGood
    <2>3. ~(input[p].places > 0) /\ input[p].places \in Nat
      BY <1>1, <2>1, GentleKeys DEF KeysInv, FrameTypes, InputType
    <2>4. ASSUME NEW q \in Player, Awaits(q)' PROVE Affords(q)'
      <3>1. input'[q] = IF q = p THEN [input[q] EXCEPT !.drop = FALSE] ELSE input[q]
        BY <1>1, <2>1 DEF FrameTypes
      <3>2. /\ input'[q].places = input[q].places /\ input'[q].deletion = input[q].deletion
            /\ input'[q].slot = input[q].slot
        <4>1. input[q] \in InputType
          BY <1>1 DEF FrameTypes
        <4> QED
          BY <3>1, <4>1 DEF InputType
      <3>3. Awaits(q) /\ Affords(q)
        BY <2>1 DEF Awaits, AffordInv
      <3>4. input[q].places > 0 => Spared(<<q, input[q].slot>>)
        BY <1>1, <2>2, <2>3, ForeignCells, OwnCell
      <3>5. qty' \in [Ent -> 0 .. Wrap - 1] /\ NoEnt \notin Ent /\ Wrap \in Nat
        BY <1>1, ItemsAssumption DEF ItemTypes
      <3> QED
        BY <1>1, <2>4, <3>2, <3>3, <3>4, <3>5, SparedAfford
    <2> QED
      BY <2>2, <2>4 DEF AffordInv
  <1>7. ASSUME NEW p \in Player, DropItem(p), ~CanDrop(p) PROVE GoodStacks' /\ AffordInv'
    BY <1>2, <1>7 DEF DropItem, Turn, itemVars
  <1>8. ASSUME NEW p \in Player, SwapItems(p) PROVE GoodStacks' /\ AffordInv'
    <2>1. /\ stage = "swap" /\ p \in todo /\ stage' = stage /\ todo' \subseteq todo
          /\ input' = [input EXCEPT ![p].toStorage =
                           @ /\ input[p].storage /\ open[p] = NoContainer]
      BY <1>8 DEF SwapItems, Turn
    <2>2. ~(input[p].places > 0) /\ ~input[p].sprint
      BY <1>1, <2>1, GentleKeys DEF KeysInv, FrameTypes, InputType
    <2>3. GoodStacks' /\ \A c \in Cell \ {FromCell(p), ToCell(p)} : Spared(c)
      <3>1. CASE CanSwap(p)
        <4>1. FromCell(p) \in Cell /\ ToCell(p) \in Cell
          BY <1>1, <3>1, SwapCells
        <4>2. HasData(held[FromCell(p)]) /\ MoveBetween(p, FromCell(p), ToCell(p))
          BY <1>8, <3>1 DEF SwapItems, CanSwap
        <4> QED
          BY <1>1, <2>2, <4>1, <4>2, MoveGood
      <3>2. CASE ~CanSwap(p)
        <4>1. UNCHANGED itemVars
          BY <1>8, <3>2 DEF SwapItems
        <4> QED
          BY <1>1, <4>1, SameStacks, NothingSpared DEF itemVars
      <3> QED
        BY <3>1, <3>2
    <2>4. PICK b \in BOOLEAN : input' = [input EXCEPT ![p].toStorage = b]
      <3>1. PICK b \in BOOLEAN : b = (input[p].toStorage /\ input[p].storage /\ open[p] = NoContainer)
        BY Zenon
      <3> QED
        BY <2>1, <3>1, Zenon
    <2>5. ASSUME NEW q \in Player, Awaits(q)' PROVE Affords(q)'
      <3>1. input'[q] = IF q = p THEN [input[q] EXCEPT !.toStorage = b] ELSE input[q]
        BY <1>1, <2>4 DEF FrameTypes
      <3>2. /\ input'[q].places = input[q].places /\ input'[q].deletion = input[q].deletion
            /\ input'[q].slot = input[q].slot
        <4>1. input[q] \in InputType
          BY <1>1 DEF FrameTypes
        <4> QED
          BY <3>1, <4>1 DEF InputType
      <3>3. Awaits(q) /\ Affords(q)
        BY <2>1 DEF Awaits, AffordInv
      <3>4. input[q].places > 0 => Spared(<<q, input[q].slot>>)
        BY <1>1, <2>2, <2>3, ForeignCells, OwnCell
      <3>5. qty' \in [Ent -> 0 .. Wrap - 1] /\ NoEnt \notin Ent /\ Wrap \in Nat
        BY <1>1, ItemsAssumption DEF ItemTypes
      <3> QED
        BY <1>1, <2>5, <3>2, <3>3, <3>4, <3>5, SparedAfford
    <2> QED
      BY <2>3, <2>5 DEF AffordInv
  <1>9. ASSUME NEW p \in Player, UseItem(p) PROVE GoodStacks' /\ AffordInv'
    <2>1. /\ stage = "use" /\ p \in todo /\ stage' = stage /\ todo' = todo \ {p}
          /\ input' = input
      BY <1>9 DEF UseItem, Turn
    <2>2. Awaits(p) /\ ~Awaits(p)'
      BY <2>1 DEF Awaits
    <2>3. CASE DestroyBlocks(p)
      <3>1. GoodStacks' /\ \A c \in Cell : Spared(c)
        BY <1>1, <2>3, DestroyGood
      <3> QED
        BY <1>1, <2>1, <3>1, SparedAll, OwnCell
    <2>4. CASE /\ ~input[p].deletion /\ HasData(held[<<p, input[p].slot>>])
               /\ PlaceItems(p, held[<<p, input[p].slot>>])
      <3>1. Affords(p)
        BY <2>2 DEF AffordInv
      <3>2. GoodStacks' /\ \A c \in Cell \ {<<p, input[p].slot>>} : Spared(c)
        BY <1>1, <2>4, <3>1, PlaceGood
      <3>3. ASSUME NEW q \in Player, Awaits(q)' PROVE Spared(<<q, input[q].slot>>)
        BY <1>1, <2>2, <3>2, <3>3, OwnCell
      <3> QED
        BY <1>1, <2>1, <3>2, <3>3, SparedAll
    <2>5. CASE UNCHANGED itemVars
      BY <1>2, <2>1, <2>5 DEF itemVars
    <2> QED
      BY <1>9, <2>3, <2>4, <2>5 DEF UseItem
  <1>10. ASSUME NEW p \in Player, InspectContainers(p) \/ CoolDown(p) PROVE GoodStacks' /\ AffordInv'
    BY <1>2, <1>10 DEF InspectContainers, CoolDown, Turn, itemVars
  <1>11. ASSUME NEW p \in Player, Leave(p) PROVE GoodStacks' /\ AffordInv'
    <2>1. /\ stage = "net" /\ stage' = stage /\ todo' = todo
          /\ held' = [c \in Cell |-> IF c[1] = p THEN NoEnt ELSE held[c]]
          /\ input' = [input EXCEPT ![p] = Idle(AnySlot)]
          /\ UNCHANGED <<life, kind, qty>>
      BY <1>11 DEF Leave
    <2>2. ASSUME NEW q \in Player, Awaits(q)' PROVE Affords(q)'
      <3>1. CASE q = p
        BY <1>1, <2>1, <3>1, IdleKeys DEF Affords, FrameTypes
      <3>2. CASE q # p
        <4>1. input'[q] = input[q] /\ <<q, input[q].slot>> \in Cell
          BY <1>1, <2>1, <3>2, OwnCell DEF FrameTypes
        <4>2. held'[<<q, input[q].slot>>] = held[<<q, input[q].slot>>]
          BY <2>1, <3>2, <4>1
        <4>3. Awaits(q)
          BY <2>1 DEF Awaits
        <4> QED
          BY <2>1, <4>1, <4>2, <4>3 DEF AffordInv, Affords, HasData
      <3> QED
        BY <3>1, <3>2
    <2> QED
      BY <2>1, <2>2, SameStacks DEF AffordInv
  <1>12. ASSUME NEW p \in Player, NEW m \in Inputs, Keystate(p, m) PROVE GoodStacks' /\ AffordInv'
    <2>1. /\ stage = "net" /\ stage' = stage /\ todo' = todo /\ UNCHANGED itemVars
          /\ Affordable(p, m) /\ packets[p] < PacketCap
          /\ input' = [input EXCEPT ![p] = Accumulate(@, m)]
      BY <1>12 DEF Keystate
    <2>2. input[p] \in InputType /\ m \in InputType /\ packets[p] \in Nat
      BY <1>1, ItemsAssumption DEF FrameTypes
    <2>3. PICK i \in InputType :
              /\ i = Accumulate(input[p], m)
              /\ i.slot = m.slot /\ i.deletion = m.deletion
              /\ i.places = IF m.places > 0 THEN m.places ELSE input[p].places
      BY <2>2, AccumulateTyped
    <2>4. input'[p] = i /\ \A q \in Player \ {p} : input'[q] = input[q]
      BY <1>1, <2>1, <2>3 DEF FrameTypes
    <2>5. ~(m.places > 0) => input[p].places = 0
      <3>1. CASE PacketCap <= 1
        BY <2>1, <2>2, <3>1, ItemsAssumption DEF KeysInv
      <3>2. CASE \A k \in Inputs : k.places = 0
        BY <2>2, <3>2 DEF KeysInv, InputType
      <3> QED
        BY <3>1, <3>2 DEF Gentle
    <2>6. Affords(p)'
      <3> SUFFICES ASSUME i.places > 0, ~i.deletion
                   PROVE  /\ HasData(held[<<p, i.slot>>])'
                          /\ i.places <= qty'[held'[<<p, i.slot>>]]
        BY <2>4 DEF Affords
      <3>1. i.places = m.places /\ m.places > 0
        BY <2>2, <2>3, <2>5
      <3> QED
        BY <2>1, <2>3, <3>1 DEF Affordable, itemVars, HasData
    <2>7. ASSUME NEW q \in Player \ {p} PROVE Affords(q)'
      <3>1. Awaits(q)
        BY <2>1 DEF Awaits
      <3> QED
        BY <2>1, <2>4, <3>1 DEF AffordInv, Affords, HasData, itemVars
    <2> QED
      BY <2>1, <2>6, <2>7, SameStacks DEF AffordInv, itemVars
  <1>13. ASSUME NEW e \in Ent, NEW k \in Kind, NEW q \in SpawnQty, SpawnItem(e, k, q)
         PROVE  GoodStacks' /\ AffordInv'
    <2>1. /\ e \in Fresh /\ q <= MaxQuantity[k]
          /\ life'  = [life EXCEPT ![e] = "live"]
          /\ kind'  = [kind EXCEPT ![e] = k]
          /\ qty'   = [qty EXCEPT ![e] = q]
          /\ UNCHANGED <<held, input, stage, todo>>
      BY <1>13 DEF SpawnItem
    <2>2. Stacked(e)'
      <3>1. q \in Nat /\ q >= 1 /\ MaxQuantity[k] \in Nat
        BY ItemsAssumption
      <3> QED
        BY <1>1, <2>1, <3>1 DEF Stacked, ItemTypes, Existing
    <2>3. \A d \in Ent \ {e} : life'[d] = life[d] /\ kind'[d] = kind[d] /\ qty'[d] = qty[d]
      BY <1>1, <2>1 DEF ItemTypes
    <2>4. GoodStacks'
      BY <2>2, <2>3, TwoStacks
    <2>5. \A c \in Cell : Spared(c)
      BY <1>1, <2>1, <2>3 DEF Spared, HasData, ItemTypes, Fresh
    <2> QED
      BY <1>1, <2>1, <2>4, <2>5, SparedAll, OwnCell
  <1>14. CASE NextSystem
    <2>1. UNCHANGED <<itemVars, input>> /\ todo = {} /\ todo' = Acting(stage')
          /\ stage \in Stages /\ stage' \in Stages /\ Rank[stage] < Rank[stage']
      BY <1>1, <1>14 DEF NextSystem, FrameTypes
    <2>2. ASSUME NEW p \in Player, Awaits(p)' PROVE Affords(p)'
      <3>1. Awaits(p)
        BY <2>1, <2>2 DEF Awaits, Stages, Rank
      <3> QED
        BY <2>1, <3>1 DEF AffordInv, Affords, HasData, itemVars
    <2> QED
      BY <2>1, <2>2, SameStacks DEF AffordInv, itemVars
  <1>15. CASE Merge
    <2>1. /\ input' = [p \in Player |->
                        [Idle(AnySlot) EXCEPT !.toStorage = input[p].toStorage]]
          /\ life' = [e \in Ent |-> CASE life[e] = "dying" -> "free"
                                      [] life[e] = "staged" -> "live"
                                      [] OTHER -> life[e]]
          /\ \A e \in Ent : life[e] # "dying" => kind'[e] = kind[e] /\ qty'[e] = qty[e]
          /\ \A e \in Ent : life[e] = "dying" => qty'[e] = 0
      BY <1>15 DEF Merge
    <2>2. \A e \in Ent : Stacked(e)'
      BY <2>1 DEF GoodStacks, Stacked, Existing
    <2>3. \A p \in Player : Affords(p)'
      BY <2>1, IdleKeys DEF Affords, InputType
    <2> QED
      BY <2>2, <2>3 DEF GoodStacks, AffordInv
  <1> QED
    BY <1>2, <1>4, <1>5, <1>6, <1>7, <1>8, <1>9, <1>10, <1>11, <1>12, <1>13, <1>14, <1>15
       DEF Next, vars

LEMMA InitStacks == Init => StackInv
  <1> SUFFICES ASSUME Init PROVE GoodStacks /\ AffordInv
    BY IInvInit, InitKeys DEF StackInv
  <1>1. GoodStacks
    BY DEF Init, GoodStacks, Stacked, Existing
  <1>2. \A p \in Player : input[p].places = 0
    BY IdleKeys DEF Init
  <1> QED
    BY <1>1, <1>2 DEF AffordInv, Affords

\* No stack ever outgrows its kind nor wraps around, whatever is picked up,
\* poured, dragged, split or placed in one frame, as long as clients are
\* gentle: the halves of a stack of one, which SPRINT makes, are what breaks
\* it.
THEOREM StacksBounded == Gentle /\ Spec => []StackBound
  <1>1. StackInv => StackBound
    <2> SUFFICES ASSUME IInv, GoodStacks, NEW e \in Ent, e \in Existing
                 PROVE  qty[e] <= MaxQuantity[kind[e]]
      BY DEF StackInv, StackBound, Existing
    <2>1. kind[e] \in Kind
      BY DEF IInv, TypeOK
    <2> QED
      BY <2>1, ItemsAssumption DEF GoodStacks, Stacked
  <1>2. ASSUME Gentle PROVE Spec => []StackBound
    <2>1. StackInv /\ [Next]_vars => StackInv'
      BY <1>2, StepStacks
    <2> QED
      BY <1>1, <2>1, InitStacks, PTL DEF Spec
  <1> QED
    BY <1>2

----------------------------------------------------------------------------
(* Nothing is lost                                                         *)

\* Until the only player has dragged, nothing in his slots was spawned in
\* this frame.
NoneStaged == \A e \in Ent : life[e] # "staged"
Calm ==
    /\ stage \in {"net", "pick"} => NoneStaged
    /\ stage = "drop" => /\ todo \subseteq Player
                         /\ NoneStaged \/ (todo = {} /\ \A p \in Player : ~input[p].swap)
    /\ stage = "swap" => todo \subseteq Player /\ (NoneStaged \/ todo = {})

\* A split lands on no item that was spawned in this frame.
LEMMA SplitsAreFree ==
    ASSUME Undisturbed, KeysInv, Solo => Calm, NEW p \in Player,
           stage = "swap", p \in todo, input[p].ctrl \/ input[p].sprint
    PROVE  NoneStaged
  BY UndisturbedKeys DEF Calm

LEMMA InitCalm == Init => Calm
  BY DEF Init, Calm, NoneStaged

\* Only drops, drags and destroyed blocks spawn within a frame.
LEMMA StepCalm == Solo /\ IInv /\ KeysInv /\ Calm /\ [Next]_vars => Calm'
  <1> SUFFICES ASSUME Solo, ItemTypes, FrameTypes, KeysInv, Calm, [Next]_vars PROVE Calm'
    BY Types DEF IInv
  <1>1. CASE UNCHANGED <<life, stage, todo, input>>
    BY <1>1 DEF Calm, NoneStaged
  <1>2. ASSUME stage' = stage, stage \notin {"net", "pick", "drop", "swap"} PROVE Calm'
    BY <1>2 DEF Calm
  <1>3. ASSUME NEW p \in Player, PickItem(p) PROVE Calm'
    <2>1. stage = "pick" /\ stage' = "pick" /\ NoneStaged
      BY <1>3 DEF PickItem, Turn, Calm
    <2>2. CASE \E e \in Lying : TakeInto(p, e)
      <3>1. \E e \in Lying : life' = life \/ life' = [life EXCEPT ![e] = "dying"]
        BY <2>2 DEF TakeInto, Pour, Store, Despawned, itemVars
      <3> QED
        BY <2>1, <3>1 DEF Calm, NoneStaged, ItemTypes
    <2>3. CASE UNCHANGED itemVars
      BY <2>1, <2>3 DEF Calm, NoneStaged, itemVars
    <2> QED
      BY <1>3, <2>2, <2>3 DEF PickItem
  <1>4. ASSUME NEW p \in Player, DropItem(p) PROVE Calm'
    <2>1. /\ stage = "drop" /\ stage' = "drop" /\ p \in todo /\ todo' = todo \ {p}
          /\ todo \subseteq Player /\ input[p].drop
      BY <1>4 DEF DropItem, Turn, Calm, KeysInv
    <2>2. todo' = {} /\ ~input[p].swap
      BY <2>1, UndisturbedKeys DEF Solo
    <2>3. input'[p].swap = input[p].swap
      <3>1. input[p] \in InputType
        BY DEF FrameTypes
      <3>2. input'[p] = input[p] \/ input'[p] = [input[p] EXCEPT !.drop = FALSE]
        BY <1>4 DEF DropItem, FrameTypes
      <3> QED
        BY <3>1, <3>2 DEF InputType
    <2> QED
      BY <2>1, <2>2, <2>3 DEF Calm, Solo
  <1>5. ASSUME NEW p \in Player, SwapItems(p) PROVE Calm'
    <2>1. /\ stage = "swap" /\ stage' = "swap" /\ p \in todo /\ todo' = todo \ {p}
          /\ todo \subseteq Player
      BY <1>5 DEF SwapItems, Turn, Calm
    <2> QED
      BY <2>1 DEF Calm, Solo
  <1>6. ASSUME NEW p \in Player, \/ CoolDown(p) \/ Leave(p)
                                 \/ \E m \in Inputs : Keystate(p, m)
        PROVE  Calm'
    <2>1. stage = "net" /\ stage' = "net" /\ life' = life
      BY <1>6 DEF CoolDown, Leave, Keystate, itemVars
    <2> QED
      BY <2>1 DEF Calm, NoneStaged
  <1>7. ASSUME NEW e \in Ent, NEW k \in Kind, NEW q \in SpawnQty, SpawnItem(e, k, q) PROVE Calm'
    BY <1>7 DEF SpawnItem, Calm, NoneStaged, ItemTypes
  <1>8. CASE NextSystem
    <2>1. /\ life' = life /\ input' = input /\ todo = {} /\ todo' = Acting(stage')
          /\ stage \in Stages /\ Rank[stage] < Rank[stage']
          /\ stage' \in Stages /\ (stage' = "merge" \/ todo' # {})
      BY <1>8 DEF NextSystem, FrameTypes, itemVars
    <2>2. /\ stage' = "drop" => stage \in {"net", "pick"}
          /\ stage' = "swap" => stage \in {"net", "pick", "drop"}
          /\ stage' = "pick" => stage = "net"
          /\ stage' # "net"
      BY <2>1 DEF Stages, Rank
    <2>3. /\ stage' = "drop" => todo' \subseteq Player
          /\ stage' = "swap" => todo' = {p \in Player : input[p].swap}
      BY <2>1 DEF Acting
    <2> QED
      BY <2>1, <2>2, <2>3 DEF Calm, NoneStaged
  <1>9. CASE Merge
    <2>1. stage' = "net" /\ life' = [e \in Ent |-> CASE life[e] = "dying" -> "free"
                                                     [] life[e] = "staged" -> "live"
                                                     [] OTHER -> life[e]]
      BY <1>9 DEF Merge
    <2> QED
      BY <2>1 DEF Calm, NoneStaged
  <1>10. ASSUME NEW p \in Player, UseItem(p) \/ InspectContainers(p) PROVE Calm'
    BY <1>2, <1>10 DEF UseItem, InspectContainers, Turn
  <1>11. ASSUME NEW h \in Container, HarvestIntoContainers(h) PROVE Calm'
    BY <1>2, <1>11 DEF HarvestIntoContainers, Turn
  <1> QED
    BY <1>1, <1>3, <1>4, <1>5, <1>6, <1>7, <1>8, <1>9, <1>10, <1>11 DEF Next, vars

\* An item stays where it was, or is despawned.
LEMMA SameFound ==
    ASSUME NothingLost, \A e \in Ent : e \in Existing' => e \in Existing /\ shown'[e] = shown[e],
           held' = held, abandoned' = abandoned
    PROVE  NothingLost'
  BY DEF NothingLost, Existing

LEMMA TakeIntoFound ==
    ASSUME ItemTypes, Ownership, NothingLost, NEW h \in Holder, NEW e \in Lying,
           TakeInto(h, e), abandoned' = abandoned
    PROVE  NothingLost'
  <1>1. PICK s \in Slot :
            \/ HasData(held[<<h, s>>]) /\ Pour(e, held[<<h, s>>])
            \/ ~Valid(held[<<h, s>>]) /\ Store(<<h, s>>, e)
            \/ UNCHANGED itemVars
    BY DEF TakeInto
  <1>2. PICK c \in Cell : c = <<h, s>>
    BY DEF Cell
  <1>3. e \in Ent
    BY DEF Lying
  <1>4. ASSUME HasData(held[c]) /\ Pour(e, held[c]) PROVE NothingLost'
    <2>1. held' = held /\ (Despawned(e) \/ UNCHANGED <<life, shown>>)
      BY <1>4 DEF Pour
    <2>2. \A x \in Ent : x \in Existing' => x \in Existing /\ shown'[x] = shown[x]
      BY <1>3, <2>1, DespawnedFacts DEF Existing, Despawned, ItemTypes
    <2> QED
      BY <2>1, <2>2, SameFound
  <1>5. ASSUME ~Valid(held[c]), Store(c, e) PROVE NothingLost'
    <2>1. held[c] = NoEnt
      BY <1>5 DEF Valid, Ownership, SlotsHoldItems, Existing
    <2>2. /\ held'[c] = e /\ life' = life
          /\ \A d \in Cell \ {c} : held'[d] = held[d]
          /\ \A x \in Ent \ {e} : shown'[x] = shown[x]
      BY <1>3, <1>5 DEF Store, ItemTypes
    <2> QED
      BY <1>3, <2>1, <2>2, ItemsAssumption DEF NothingLost, Existing
  <1>6. CASE UNCHANGED itemVars
    BY <1>6, SameFound DEF itemVars, Existing
  <1> QED
    BY <1>1, <1>2, <1>4, <1>5, <1>6

LEMMA DropFound ==
    ASSUME ItemTypes, FrameTypes, Ownership, NothingLost, NEW p \in Player,
           CanDrop(p), DropStack(p), abandoned' = abandoned
    PROVE  NothingLost'
  <1>1. PICK c \in Cell : c = DropCell(p)
    BY DEF CanDrop, DropCell, Box, Cell, Holder, FrameTypes, InputType
  <1>2. PICK e \in Ent : e = held[c]
    BY <1>1, ItemsAssumption DEF CanDrop, HasData, ItemTypes
  <1>3. shown' = [shown EXCEPT ![e] = TRUE]
    BY <1>1, <1>2 DEF DropStack
  <1>4. \/ \E te \in Fresh : /\ life' = [life EXCEPT ![te] = "staged"]
                             /\ held' = [held EXCEPT ![c] = te]
        \/ held' = [held EXCEPT ![c] = NoEnt] /\ life' = life
    BY <1>1, <1>2 DEF DropStack
  <1>5. \A x \in Ent : shown[x] => shown'[x]
    BY <1>3 DEF ItemTypes
  <1>6. shown'[e] = TRUE
    BY <1>2, <1>3 DEF ItemTypes
  <1>7. ASSUME NEW x \in Ent, x \in Existing'
        PROVE  \/ x \in Existing /\ \A d \in Cell : held[d] = x => x = e \/ held'[d] = x
               \/ \E d \in Cell : held'[d] = x
    <2>1. CASE held' = [held EXCEPT ![c] = NoEnt] /\ life' = life
      BY <1>2, <1>7, <2>1 DEF ItemTypes, Existing
    <2>2. ASSUME NEW te \in Fresh, life' = [life EXCEPT ![te] = "staged"],
                 held' = [held EXCEPT ![c] = te]
          PROVE  \/ x \in Existing /\ \A d \in Cell : held[d] = x => x = e \/ held'[d] = x
                 \/ \E d \in Cell : held'[d] = x
      <3>1. CASE x = te
        BY <2>2, <3>1 DEF ItemTypes
      <3>2. CASE x # te
        BY <1>2, <1>7, <2>2, <3>2 DEF ItemTypes, Existing
      <3> QED
        BY <3>1, <3>2
    <2> QED
      BY <1>4, <2>1, <2>2
  <1> QED
    BY <1>5, <1>6, <1>7 DEF NothingLost, Existing

\* Dragging loses nothing, as a split finds an empty slot.
LEMMA MoveFound ==
    ASSUME ItemTypes, FrameTypes, Ownership, NothingLost, NEW p \in Player,
           NEW from \in Cell, NEW to \in Cell, HasData(held[from]),
           input[p].ctrl \/ input[p].sprint => NoneStaged,
           MoveBetween(p, from, to), abandoned' = abandoned
    PROVE  NothingLost'
  <1>1. PICK a \in Ent, b \in Ent \cup {NoEnt} : a = held[from] /\ b = held[to]
    BY ItemsAssumption DEF HasData, ItemTypes
  <1>2. CASE UNCHANGED itemVars
    BY <1>2, SameFound DEF itemVars, Existing
  <1>3. ASSUME MergeStacks(p, from, a, b) PROVE NothingLost'
    <2>1. CASE UNCHANGED <<life, shown, held>>
      BY <2>1, SameFound DEF Existing
    <2>2. CASE Despawned(a) /\ held' = [held EXCEPT ![from] = NoEnt]
      <3>1. \A x \in Ent : x \in Existing' => x \in Existing /\ x # a /\ shown'[x] = shown[x]
        BY <1>1, <2>2, DespawnedFacts DEF Existing, Despawned, ItemTypes
      <3>2. \A d \in Cell : held[d] # a => held'[d] = held[d]
        BY <1>1, <2>2 DEF ItemTypes
      <3> QED
        BY <3>1, <3>2 DEF NothingLost, Existing
    <2> QED
      BY <1>3, <2>1, <2>2 DEF MergeStacks
  <1>4. ASSUME input[p].ctrl \/ input[p].sprint, ~HasData(b), SplitStack(p, to, a)
        PROVE  NothingLost'
    <2>1. b \notin Ent
      <3>1. b \in Ent => b \in Existing
        BY <1>1, ItemsAssumption DEF Ownership, SlotsHoldItems
      <3> QED
        BY <1>4, <3>1, ItemsAssumption DEF NoneStaged, Existing, HasData
    <2>2. ASSUME NEW te \in Fresh,
                 life'  = [life EXCEPT ![te] = "staged"],
                 shown' = [shown EXCEPT ![te] = FALSE],
                 held'  = [held EXCEPT ![to] = te]
          PROVE  NothingLost'
      <3>1. /\ held'[to] = te
            /\ \A d \in Cell : held[d] \in Ent => held'[d] = held[d]
        BY <1>1, <2>1, <2>2 DEF ItemTypes
      <3>2. \A x \in Ent : x # te => shown'[x] = shown[x] /\ (x \in Existing' <=> x \in Existing)
        BY <2>2 DEF ItemTypes, Existing
      <3> QED
        BY <3>1, <3>2 DEF NothingLost, Existing
    <2> QED
      BY <1>2, <1>4, <2>2 DEF SplitStack
  <1>5. ASSUME ExchangeCells(from, to) PROVE NothingLost'
    <2>1. /\ held' = [held EXCEPT ![from] = held[to], ![to] = held[from]]
          /\ life' = life /\ shown' = shown
      BY <1>5 DEF ExchangeCells
    <2>2. \A d \in Cell : \E c \in Cell : held'[c] = held[d]
      <3> SUFFICES ASSUME NEW d \in Cell PROVE \E c \in Cell : held'[c] = held[d]
        OBVIOUS
      <3>1. CASE d = from
        BY <2>1, <3>1 DEF ItemTypes
      <3>2. CASE d = to /\ d # from
        BY <2>1, <3>2 DEF ItemTypes
      <3>3. CASE d # to /\ d # from
        BY <2>1, <3>3 DEF ItemTypes
      <3> QED
        BY <3>1, <3>2, <3>3
    <2> QED
      BY <2>1, <2>2 DEF NothingLost, Existing
  <1> QED
    BY <1>1, <1>2, <1>3, <1>4, <1>5 DEF MoveBetween

LEMMA PlaceFound ==
    ASSUME ItemTypes, FrameTypes, NothingLost, NEW p \in Player,
           HasData(held[<<p, input[p].slot>>]),
           PlaceItems(p, held[<<p, input[p].slot>>]), abandoned' = abandoned
    PROVE  NothingLost'
  <1>1. PICK c \in Cell, e \in Ent : c = <<p, input[p].slot>> /\ e = held[c]
    <2>1. <<p, input[p].slot>> \in Cell
      BY OwnCell
    <2> QED
      BY <2>1, ItemsAssumption DEF HasData, ItemTypes
  <1>2. \/ Despawned(e) /\ held' = [held EXCEPT ![c] = NoEnt]
        \/ UNCHANGED <<life, shown, held>>
    BY <1>1 DEF PlaceItems
  <1>3. CASE Despawned(e) /\ held' = [held EXCEPT ![c] = NoEnt]
    <2>1. \A x \in Ent : x \in Existing' => x \in Existing /\ x # e /\ shown'[x] = shown[x]
      BY <1>1, <1>3, DespawnedFacts DEF Existing, Despawned, ItemTypes
    <2>2. \A d \in Cell : held[d] # e => held'[d] = held[d]
      BY <1>1, <1>3 DEF ItemTypes
    <2> QED
      BY <2>1, <2>2 DEF NothingLost, Existing
  <1>4. CASE UNCHANGED <<life, shown, held>>
    BY <1>4, SameFound DEF Existing
  <1> QED
    BY <1>2, <1>3, <1>4

\* Every step of an undisturbed game keeps every item in reach.
LEMMA StepFound ==
    ASSUME Undisturbed, IInv, KeysInv, Solo => Calm, NothingLost, [Next]_vars
    PROVE  NothingLost'
  <1>1. ItemTypes /\ FrameTypes /\ Ownership
    BY Types DEF IInv
  <1>2. CASE UNCHANGED <<life, shown, held, abandoned>>
    BY <1>2, SameFound DEF Existing
  <1>3. ASSUME NEW p \in Player, PickItem(p) PROVE NothingLost'
    BY <1>1, <1>2, <1>3, TakeIntoFound DEF PickItem, Turn, itemVars, Holder
  <1>4. ASSUME NEW h \in Container, HarvestIntoContainers(h) PROVE NothingLost'
    BY <1>1, <1>2, <1>4, TakeIntoFound DEF HarvestIntoContainers, Turn, itemVars, Holder
  <1>5. ASSUME NEW p \in Player, DropItem(p) PROVE NothingLost'
    BY <1>1, <1>2, <1>5, DropFound DEF DropItem, Turn, itemVars
  <1>6. ASSUME NEW p \in Player, SwapItems(p) PROVE NothingLost'
    <2>1. stage = "swap" /\ p \in todo /\ abandoned' = abandoned
      BY <1>6 DEF SwapItems, Turn
    <2>2. CASE CanSwap(p)
      <3>1. FromCell(p) \in Cell /\ ToCell(p) \in Cell
        BY <1>1, <2>2, SwapCells
      <3>2. HasData(held[FromCell(p)]) /\ MoveBetween(p, FromCell(p), ToCell(p))
        BY <1>6, <2>2 DEF SwapItems, CanSwap
      <3>3. input[p].ctrl \/ input[p].sprint => NoneStaged
        BY <2>1, SplitsAreFree
      <3> QED
        BY <1>1, <2>1, <3>1, <3>2, <3>3, MoveFound
    <2>3. CASE ~CanSwap(p)
      BY <1>2, <1>6, <2>1, <2>3 DEF SwapItems, itemVars
    <2> QED
      BY <2>2, <2>3
  <1>7. ASSUME NEW p \in Player, UseItem(p) PROVE NothingLost'
    <2>1. abandoned' = abandoned
      BY <1>7 DEF UseItem, Turn
    <2>2. CASE DestroyBlocks(p)
      <3>1. PICK S \in SUBSET Fresh :
                /\ life'  = [e \in Ent |-> IF e \in S THEN "staged" ELSE life[e]]
                /\ shown' = [e \in Ent |-> e \in S \/ shown[e]]
                /\ held' = held
        BY <2>2 DEF DestroyBlocks, Spawned
      <3>2. \A e \in Ent : e \in Existing' => shown'[e] \/ e \in Existing
        BY <3>1 DEF Existing
      <3>3. \A e \in Ent : shown[e] => shown'[e]
        BY <3>1
      <3> QED
        BY <2>1, <3>1, <3>2, <3>3 DEF NothingLost, Existing
    <2>3. CASE /\ HasData(held[<<p, input[p].slot>>])
               /\ PlaceItems(p, held[<<p, input[p].slot>>])
      BY <1>1, <2>1, <2>3, PlaceFound
    <2>4. CASE UNCHANGED itemVars
      BY <1>2, <2>1, <2>4 DEF itemVars
    <2> QED
      BY <1>7, <2>2, <2>3, <2>4 DEF UseItem
  <1>8. ASSUME NEW p \in Player, Leave(p) PROVE NothingLost'
    <2>1. /\ abandoned' = abandoned \cup ({held[<<p, s>>] : s \in Slot} \ {NoEnt})
          /\ held' = [c \in Cell |-> IF c[1] = p THEN NoEnt ELSE held[c]]
          /\ UNCHANGED <<life, shown>>
      BY <1>8 DEF Leave
    <2>2. ASSUME NEW c \in Cell, held[c] \in Ent
          PROVE  held'[c] = held[c] \/ held[c] \in abandoned'
      <3>1. CASE c[1] = p
        <4>1. PICK s \in Slot : c = <<p, s>>
          BY <3>1 DEF Cell
        <4> QED
          BY <2>1, <2>2, <4>1, ItemsAssumption
      <3>2. CASE c[1] # p
        BY <2>1, <3>2
      <3> QED
        BY <3>1, <3>2
    <2> QED
      BY <2>1, <2>2 DEF NothingLost, Existing
  <1>9. ASSUME NEW e \in Ent, NEW k \in Kind, NEW q \in SpawnQty, SpawnItem(e, k, q)
        PROVE  NothingLost'
    <2>1. /\ life'  = [life EXCEPT ![e] = "live"] /\ shown' = [shown EXCEPT ![e] = TRUE]
          /\ UNCHANGED <<held, abandoned>>
      BY <1>9 DEF SpawnItem
    <2>2. \A x \in Ent : x # e => shown'[x] = shown[x] /\ (x \in Existing' <=> x \in Existing)
      BY <1>1, <2>1 DEF ItemTypes, Existing
    <2>3. shown'[e] = TRUE
      BY <1>1, <2>1 DEF ItemTypes
    <2> QED
      BY <2>1, <2>2, <2>3 DEF NothingLost, Existing
  <1>10. CASE Merge
    <2>1. /\ life' = [e \in Ent |-> CASE life[e] = "dying" -> "free"
                                      [] life[e] = "staged" -> "live"
                                      [] OTHER -> life[e]]
          /\ UNCHANGED <<shown, held, abandoned>>
      BY <1>10 DEF Merge
    <2> QED
      BY <2>1, SameFound DEF Existing
  <1>11. ASSUME NEW p \in Player, \/ InspectContainers(p) \/ CoolDown(p)
                                  \/ \E m \in Inputs : Keystate(p, m)
         PROVE  NothingLost'
    BY <1>2, <1>11 DEF InspectContainers, CoolDown, Keystate, Turn, itemVars
  <1> QED
    BY <1>2, <1>3, <1>4, <1>5, <1>6, <1>7, <1>8, <1>9, <1>10, <1>11
       DEF Next, NextSystem, vars, itemVars

\* An item that exists is lying somewhere, or in a slot, or with someone who
\* has left: none drops out of the world between two systems, as long as
\* nobody splits a stack onto what another system has just spawned.
THEOREM NothingIsLost == Undisturbed /\ Spec => []NothingLost
  <1> DEFINE Inv == IInv /\ KeysInv /\ (Solo => Calm) /\ NothingLost
  <1>1. Init => Inv
    <2>1. Init => NothingLost
      BY DEF Init, NothingLost, Existing
    <2> QED
      BY <2>1, IInvInit, InitKeys, InitCalm
  <1>2. ASSUME Undisturbed PROVE Spec => []NothingLost
    <2>1. Inv /\ [Next]_vars => Inv'
      <3> SUFFICES ASSUME Inv, [Next]_vars PROVE Inv'
        OBVIOUS
      <3>1. IInv' /\ KeysInv'
        BY IInvStep, StepKeys
      <3>2. Solo => Calm'
        BY StepCalm
      <3>3. NothingLost'
        BY <1>2, StepFound
      <3> QED
        BY <3>1, <3>2, <3>3 DEF Solo
    <2> QED
      BY <1>1, <2>1, PTL DEF Spec
  <1> QED
    BY <1>2

----------------------------------------------------------------------------
(* The ledger                                                              *)

\* What the ledger reads off a stack.
Located(x) ==
    /\ x \notin Existing => /\ Place[x] = Nowhere /\ Amount[x] = 0
                            /\ Sort[x] = CHOOSE k \in Kind : TRUE
    /\ x \in Existing => Sort[x] = kind[x] /\ Amount[x] = qty[x]
    /\ x \in Existing /\ shown[x] => Place[x] = World
    /\ x \in Existing /\ ~shown[x] => /\ \A c \in Cell : held[c] = x => Place[x] = c
                                      /\ (\A c \in Cell : held[c] # x) => Place[x] = Gone

\* A place is computed from the life, the visibility and the slots.
WhereIs(lives, shows, holds, x) ==
    IF lives[x] \notin {"staged", "live"} THEN Nowhere
    ELSE IF shows[x] THEN World
    ELSE IF \E c \in Cell : holds[c] = x THEN CHOOSE c \in Cell : holds[c] = x
    ELSE Gone

LEMMA Whereabouts ==
    ASSUME NEW lives, NEW shows, NEW holds, NEW x,
           \A c, d \in Cell : holds[c] = x /\ holds[d] = x => c = d
    PROVE  LET w == WhereIs(lives, shows, holds, x)
               exists == lives[x] \in {"staged", "live"}
           IN  /\ ~exists => w = Nowhere
               /\ exists /\ shows[x] => w = World
               /\ exists /\ ~shows[x] => /\ \A c \in Cell : holds[c] = x => w = c
                                         /\ (\A c \in Cell : holds[c] # x) => w = Gone
  BY DEF WhereIs

LEMMA LocatedNow == ASSUME Ownership, NEW x \in Ent PROVE Located(x)
  <1>1. Place[x] = WhereIs(life, shown, held, x)
    BY DEF Place, Somewhere, WhereIs, Existing
  <1>2. \A c, d \in Cell : held[c] = x /\ held[d] = x => c = d
    BY ItemsAssumption DEF Ownership, ExclusiveOwnership
  <1>3. /\ Sort[x] = IF x \in Existing THEN kind[x] ELSE CHOOSE k \in Kind : TRUE
        /\ Amount[x] = IF x \in Existing THEN qty[x] ELSE 0
    BY DEF Sort, Amount
  <1>4. x \in Existing <=> life[x] \in {"staged", "live"}
    BY DEF Existing
  <1> QED
    BY <1>1, <1>2, <1>3, <1>4, Whereabouts DEF Located

LEMMA LocatedNext == ASSUME Ownership', NEW x \in Ent PROVE Located(x)'
  <1>1. Place'[x] = WhereIs(life', shown', held', x)
    BY DEF Place, Somewhere, WhereIs, Existing
  <1>2. \A c, d \in Cell : held'[c] = x /\ held'[d] = x => c = d
    BY ItemsAssumption DEF Ownership, ExclusiveOwnership
  <1>3. /\ Sort'[x] = IF x \in Existing' THEN kind'[x] ELSE CHOOSE k \in Kind : TRUE
        /\ Amount'[x] = IF x \in Existing' THEN qty'[x] ELSE 0
    BY DEF Sort, Amount
  <1>4. x \in Existing' <=> life'[x] \in {"staged", "live"}
    BY DEF Existing
  <1> QED
    BY <1>1, <1>2, <1>3, <1>4, Whereabouts DEF Located

LEMMA LedgerFunctions ==
    /\ Place = [x \in Ent |-> Place[x]] /\ Place' = [x \in Ent |-> Place'[x]]
    /\ Sort = [x \in Ent |-> Sort[x]] /\ Sort' = [x \in Ent |-> Sort'[x]]
    /\ Amount = [x \in Ent |-> Amount[x]] /\ Amount' = [x \in Ent |-> Amount'[x]]
  BY DEF Place, Sort, Amount

\* Of two entities the ledger may change, of the others not.
Stays(x) == Place'[x] = Place[x] /\ Sort'[x] = Sort[x] /\ Amount'[x] = Amount[x]
Elsewhere(a, b) == \A x \in Ent \ {a, b} : Stays(x)

\* Nothing has happened to a stack.
Untouched(x) ==
    /\ x \in Existing' <=> x \in Existing
    /\ x \in Existing => /\ shown'[x] = shown[x]
                         /\ kind'[x] = kind[x] /\ qty'[x] = qty[x]
    /\ \A c \in Cell : held'[c] = x <=> held[c] = x

LEMMA UntouchedSame ==
    ASSUME Ownership, Ownership', NEW x \in Ent, Untouched(x)
    PROVE  Stays(x)
  <1>1. Located(x) /\ Located(x)'
    BY LocatedNow, LocatedNext
  <1> QED
    BY <1>1 DEF Located, Untouched, Stays

\* An entry of the ledger, or none.
Entry == Ledger!LedgerNext \/ UNCHANGED <<Place, Sort, Amount>>

LEMMA NoEntry ==
    ASSUME Ownership, Ownership', \A x \in Ent : Untouched(x) PROVE Entry
  <1>1. \A x \in Ent : Stays(x)
    BY UntouchedSame
  <1> QED
    BY <1>1, LedgerFunctions DEF Entry, Stays

\* The entries, from what they say of each stack.
LEMMA MoveEntry ==
    ASSUME NEW a \in Ent, NEW to \in Cell \cup {World}, Place[a] # Nowhere, Place[a] # Gone,
           to = World \/ \A x \in Ent : Place[x] # to,
           Place'[a] = to, Sort'[a] = Sort[a], Amount'[a] = Amount[a], Elsewhere(a, a)
    PROVE  Entry
  <1>1. Place' = [Place EXCEPT ![a] = to] /\ Sort' = Sort /\ Amount' = Amount
    BY LedgerFunctions DEF Elsewhere, Stays
  <1>2. Ledger!Move(a, to)
    BY <1>1 DEF Ledger!Move, Ledger!Exists, Ledger!Empty
  <1> QED
    BY <1>2 DEF Entry, Ledger!LedgerNext

LEMMA ExchangeEntry ==
    ASSUME NEW a \in Ent, NEW b \in Ent, Place[a] \in Cell, Place[b] \in Cell,
           Place'[a] = Place[b], Place'[b] = Place[a], Sort'[a] = Sort[a], Sort'[b] = Sort[b],
           Amount'[a] = Amount[a], Amount'[b] = Amount[b], Elsewhere(a, b)
    PROVE  Entry
  <1>1. /\ Place' = [Place EXCEPT ![a] = Place[b], ![b] = Place[a]]
        /\ Sort' = Sort /\ Amount' = Amount
    BY LedgerFunctions DEF Elsewhere, Stays
  <1>2. Ledger!Exchange(a, b)
    BY <1>1 DEF Ledger!Exchange
  <1> QED
    BY <1>2 DEF Entry, Ledger!LedgerNext

LEMMA TransferEntry ==
    ASSUME NEW a \in Ent, NEW b \in Ent, a # b, NEW n \in 1 .. Wrap - 1,
           Place[a] # Nowhere, Place[b] # Nowhere, Sort[a] = Sort[b], n \in 1 .. Amount[a],
           Amount'[a] = Amount[a] - n, Amount'[b] = Amount[b] + n,
           Place'[a] = IF n = Amount[a] THEN Nowhere ELSE Place[a], Place'[b] = Place[b],
           Sort'[a] = IF n = Amount[a] THEN CHOOSE k \in Kind : TRUE ELSE Sort[a],
           Sort'[b] = Sort[b], Elsewhere(a, b)
    PROVE  Entry
  <1>1. /\ Amount' = [Amount EXCEPT ![a] = @ - n, ![b] = @ + n]
        /\ Place' = [Place EXCEPT ![a] = IF n = Amount[a] THEN Nowhere ELSE @]
        /\ Sort' = [Sort EXCEPT ![a] = IF n = Amount[a] THEN CHOOSE k \in Kind : TRUE ELSE @]
    <2>1. Amount' = [Amount EXCEPT ![a] = @ - n, ![b] = @ + n]
      BY LedgerFunctions DEF Elsewhere, Stays
    <2>2. Place' = [Place EXCEPT ![a] = IF n = Amount[a] THEN Nowhere ELSE @]
      BY LedgerFunctions DEF Elsewhere, Stays
    <2>3. Sort' = [Sort EXCEPT ![a] = IF n = Amount[a] THEN CHOOSE k \in Kind : TRUE ELSE @]
      BY LedgerFunctions DEF Elsewhere, Stays
    <2> QED
      BY <2>1, <2>2, <2>3
  <1>2. Ledger!Transfer(a, b, n)
    BY <1>1 DEF Ledger!Transfer, Ledger!Exists, Ledger!Blank
  <1> QED
    BY <1>2 DEF Entry, Ledger!LedgerNext

LEMMA DivideEntry ==
    ASSUME NEW a \in Ent, NEW b \in Ent, a # b, NEW n \in 1 .. Wrap - 1,
           Place[a] # Nowhere, Place[b] = Nowhere, n \in 1 .. Amount[a] - 1,
           Amount'[a] = Amount[a] - n, Amount'[b] = n,
           Sort'[a] = Sort[a], Sort'[b] = Sort[a],
           \/ /\ Place'[b] \in Cell /\ \A x \in Ent : Place[x] # Place'[b]
              /\ Place'[a] = Place[a]
           \/ Place[a] \in Cell /\ Place'[b] = Place[a] /\ Place'[a] = World,
           Elsewhere(a, b)
    PROVE  Entry
  <1>1. /\ Amount' = [Amount EXCEPT ![a] = @ - n, ![b] = n]
        /\ Sort' = [Sort EXCEPT ![b] = Sort[a]]
    BY LedgerFunctions DEF Elsewhere, Stays
  <1>2. \/ \E c \in Cell : Ledger!Empty(c) /\ Place' = [Place EXCEPT ![b] = c]
        \/ Place[a] \in Cell /\ Place' = [Place EXCEPT ![b] = Place[a], ![a] = World]
    <2>1. CASE /\ Place'[b] \in Cell /\ \A x \in Ent : Place[x] # Place'[b]
               /\ Place'[a] = Place[a]
      <3>1. Place' = [Place EXCEPT ![b] = Place'[b]]
        BY <2>1, LedgerFunctions DEF Elsewhere, Stays
      <3> QED
        BY <2>1, <3>1 DEF Ledger!Empty
    <2>2. CASE Place[a] \in Cell /\ Place'[b] = Place[a] /\ Place'[a] = World
      BY <2>2, LedgerFunctions DEF Elsewhere, Stays
    <2> QED
      BY <2>1, <2>2
  <1>3. Ledger!Divide(a, b, n)
    BY <1>1, <1>2 DEF Ledger!Divide, Ledger!Exists
  <1> QED
    BY <1>3 DEF Entry, Ledger!LedgerNext

LEMMA ConsumeEntry ==
    ASSUME NEW a \in Ent, NEW n \in 1 .. Wrap - 1, Place[a] \in Cell, n \in 1 .. Amount[a],
           Amount'[a] = Amount[a] - n,
           Place'[a] = IF n = Amount[a] THEN Nowhere ELSE Place[a],
           Sort'[a] = IF n = Amount[a] THEN CHOOSE k \in Kind : TRUE ELSE Sort[a],
           Elsewhere(a, a)
    PROVE  Entry
  <1>1. Amount' = [Amount EXCEPT ![a] = @ - n]
    BY LedgerFunctions DEF Elsewhere, Stays
  <1>2. Place' = [Place EXCEPT ![a] = IF n = Amount[a] THEN Nowhere ELSE @]
    BY LedgerFunctions DEF Elsewhere, Stays
  <1>3. Sort' = [Sort EXCEPT ![a] = IF n = Amount[a] THEN CHOOSE k \in Kind : TRUE ELSE @]
    BY LedgerFunctions DEF Elsewhere, Stays
  <1>4. Ledger!Consume(a, n)
    BY <1>1, <1>2, <1>3 DEF Ledger!Consume, Ledger!Blank
  <1> QED
    BY <1>4 DEF Entry, Ledger!LedgerNext

Appears(x, k, q) ==
    Place[x] = Nowhere /\ Place'[x] = World /\ Sort'[x] = k /\ Amount'[x] = q

LEMMA CreateEntry ==
    ASSUME NEW S \in SUBSET Ent, NEW kinds \in [S -> Kind], NEW q \in 1 .. Wrap - 1,
           \A x \in S : Appears(x, kinds[x], q), \A x \in Ent \ S : Stays(x)
    PROVE  Entry
  <1>1. /\ Place' = [x \in Ent |-> IF x \in S THEN World ELSE Place[x]]
        /\ Sort' = [x \in Ent |-> IF x \in S THEN kinds[x] ELSE Sort[x]]
        /\ Amount' = [x \in Ent |-> IF x \in S THEN q ELSE Amount[x]]
    BY LedgerFunctions DEF Appears, Stays
  <1>2. Ledger!Create(S, kinds, q)
    BY <1>1 DEF Ledger!Create, Ledger!Exists, Appears
  <1> QED
    BY <1>2 DEF Entry, Ledger!LedgerNext

\* A cell is the place of what it holds, and of nothing else.
LEMMA PlaceNow ==
    ASSUME Ownership, NEW x \in Ent
    PROVE  /\ x \notin Existing => Place[x] = Nowhere
           /\ x \in Existing => Place[x] # Nowhere
           /\ \A c \in Cell : held[c] = x <=> Place[x] = c
           /\ x \in Existing /\ shown[x] => Place[x] = World
  <1>1. Located(x)
    BY LocatedNow
  <1>2. \A c \in Cell : held[c] = x => x \in Existing /\ ~shown[x]
    BY ItemsAssumption DEF Ownership, SlotsHoldItems
  <1>3. \A c \in Cell : c # Nowhere /\ c # World /\ c # Gone
    BY PlacesAssumption
  <1> QED
    BY <1>1, <1>2, <1>3, PlacesAssumption DEF Located

LEMMA PlaceNext ==
    ASSUME Ownership', NEW x \in Ent
    PROVE  /\ x \notin Existing' => Place'[x] = Nowhere
           /\ x \in Existing' => Place'[x] # Nowhere
           /\ \A c \in Cell : held'[c] = x <=> Place'[x] = c
           /\ x \in Existing' /\ shown'[x] => Place'[x] = World
  <1>1. Located(x)'
    BY LocatedNext
  <1>2. \A c \in Cell : held'[c] = x => x \in Existing' /\ ~shown'[x]
    BY ItemsAssumption DEF Ownership, SlotsHoldItems
  <1>3. \A c \in Cell : c # Nowhere /\ c # World /\ c # Gone
    BY PlacesAssumption
  <1> QED
    BY <1>1, <1>2, <1>3, PlacesAssumption DEF Located

\* What the ledger says of the kind and the units of a stack.
LEMMA ReadNow ==
    ASSUME NEW x \in Ent
    PROVE  /\ Sort[x] = IF x \in Existing THEN kind[x] ELSE CHOOSE k \in Kind : TRUE
           /\ Amount[x] = IF x \in Existing THEN qty[x] ELSE 0
  BY DEF Sort, Amount

LEMMA ReadNext ==
    ASSUME NEW x \in Ent
    PROVE  /\ Sort'[x] = IF x \in Existing' THEN kind'[x] ELSE CHOOSE k \in Kind : TRUE
           /\ Amount'[x] = IF x \in Existing' THEN qty'[x] ELSE 0
  BY DEF Sort, Amount

\* Units poured from one stack onto another, as Pour and MergeStacks do it.
SamePlace(x) == shown'[x] = shown[x] /\ \A c \in Cell : held'[c] = x <=> held[c] = x
Poured(a, b, n) ==
    /\ n \in 1 .. qty[a] /\ qty'[a] = qty[a] - n /\ qty'[b] = qty[b] + n /\ kind' = kind
    /\ a \in Existing' <=> qty[a] # n
    /\ b \in Existing'
    /\ qty[a] # n => SamePlace(a)
    /\ SamePlace(b)
    /\ \A x \in Ent \ {a, b} : Untouched(x)

LEMMA PourEntry ==
    ASSUME Ownership, Ownership', NEW a \in Ent, NEW b \in Ent, a # b,
           a \in Existing, b \in Existing, kind[a] = kind[b], qty[a] \in 1 .. Wrap - 1,
           NEW n, Poured(a, b, n)
    PROVE  Entry
  <1> USE DEF Poured, SamePlace
  <1>1. Elsewhere(a, b)
    BY UntouchedSame DEF Elsewhere, Stays
  <1>2. Located(a) /\ Located(a)' /\ Located(b) /\ Located(b)'
    BY LocatedNow, LocatedNext
  <1>3. Place[a] # Nowhere /\ Place[b] # Nowhere
    BY PlaceNow
  <1>4. Sort[a] = Sort[b] /\ Sort'[b] = Sort[b] /\ Amount[a] = qty[a]
    BY ReadNow, ReadNext
  <1>5. Amount'[a] = Amount[a] - n /\ Amount'[b] = Amount[b] + n
    <2>1. Amount'[b] = qty'[b] /\ Amount[b] = qty[b]
      BY ReadNow, ReadNext
    <2>2. Amount'[a] = IF qty[a] # n THEN qty'[a] ELSE 0
      BY ReadNext
    <2> QED
      BY <1>4, <2>1, <2>2
  <1>6. Place'[b] = Place[b]
    BY <1>2 DEF Located
  <1>7. Place'[a] = IF n = Amount[a] THEN Nowhere ELSE Place[a]
    BY <1>2, <1>4 DEF Located
  <1>8. Sort'[a] = IF n = Amount[a] THEN CHOOSE k \in Kind : TRUE ELSE Sort[a]
    BY <1>4, ReadNow, ReadNext
  <1>9. n \in 1 .. Wrap - 1
    BY ItemsAssumption
  <1> QED
    BY <1>1, <1>3, <1>4, <1>5, <1>6, <1>7, <1>8, <1>9, TransferEntry

\* Taking an item into a slot is a transfer, a move, or nothing.
LEMMA TakeIntoEntry ==
    ASSUME ItemTypes, Ownership, Ownership', GoodStacks,
           NEW h \in Holder, NEW e \in Lying, TakeInto(h, e)
    PROVE  Entry
  <1>1. PICK s \in Slot :
            /\ FirstRoom(h, e, s)
            /\ LET c == <<h, s>>
               IN  \/ HasData(held[c]) /\ Pour(e, held[c])
                   \/ ~Valid(held[c]) /\ Store(c, e)
                   \/ /\ Valid(held[c]) /\ ~HasData(held[c])
                      /\ UNCHANGED itemVars
    BY DEF TakeInto
  <1>2. PICK c \in Cell : c = <<h, s>>
    BY DEF Cell
  <1>3. e \in Ent /\ life[e] = "live" /\ shown[e] /\ e \in Existing
    BY DEF Lying, Existing
  <1>4. \A d \in Cell : held[d] # e
    BY <1>3, ItemsAssumption DEF Ownership, SlotsHoldItems
  <1>5. ASSUME HasData(held[c]), Pour(e, held[c]) PROVE Entry
    <2>1. PICK t \in Ent : t = held[c] /\ t # e /\ t \in Existing
      BY <1>4, <1>5, ItemsAssumption DEF ItemTypes, HasData, Ownership, SlotsHoldItems
    <2>2. qty[t] < MaxQuantity[kind[e]] /\ kind[t] = kind[e]
      BY <1>1, <1>2, <1>5, <2>1 DEF FirstRoom, Room
    <2>3. /\ qty[e] \in 1 .. MaxQuantity[kind[e]] /\ qty[t] \in 1 .. MaxQuantity[kind[e]]
          /\ MaxQuantity[kind[e]] \in 1 .. Wrap - 1
      BY <1>3, <2>1, <2>2, ItemsAssumption DEF GoodStacks, Stacked, ItemTypes
    <2>4. PICK n \in 1 .. qty[e] : n = Least(qty[e], MaxQuantity[kind[e]] - qty[t])
      BY <2>2, <2>3 DEF Least
    <2>5. /\ qty' = [qty EXCEPT ![e] = @ - n, ![t] = @ + n]
          /\ UNCHANGED <<kind, held>>
          /\ IF qty[e] = n THEN Despawned(e) ELSE UNCHANGED <<life, shown>>
      BY <1>5, <2>1, <2>4 DEF Pour
    <2>6. /\ qty'[e] = qty[e] - n /\ qty'[t] = qty[t] + n
          /\ \A d \in Ent \ {e, t} : qty'[d] = qty[d]
      BY <1>3, <2>1, <2>5 DEF ItemTypes
    <2>7. /\ \A d \in Ent \ {e} : life'[d] = life[d] /\ shown'[d] = shown[d]
          /\ e \in Existing' <=> qty[e] # n
      <3>1. CASE qty[e] = n
        BY <1>3, <2>5, <3>1, DespawnedFacts DEF Despawned, ItemTypes
      <3>2. CASE qty[e] # n
        BY <1>3, <2>5, <3>2 DEF Existing
      <3> QED
        BY <3>1, <3>2
    <2>8. t \in Existing' /\ \A d \in Ent \ {e, t} : Untouched(d)
      BY <2>1, <2>5, <2>6, <2>7 DEF Untouched, Existing
    <2>9. qty[e] \in 1 .. Wrap - 1
      BY <2>3, ItemsAssumption
    <2>10. (qty[e] # n => SamePlace(e)) /\ SamePlace(t)
      BY <2>1, <2>5, <2>7 DEF SamePlace
    <2>11. Poured(e, t, n)
      BY <2>5, <2>6, <2>7, <2>8, <2>10 DEF Poured
    <2> QED
      BY <1>3, <2>1, <2>2, <2>9, <2>11, PourEntry
  <1>6. ASSUME ~Valid(held[c]), Store(c, e) PROVE Entry
    <2>1. held[c] = NoEnt
      BY <1>6 DEF Valid, Ownership, SlotsHoldItems, Existing
    <2>2. /\ held' = [held EXCEPT ![c] = e] /\ shown' = [shown EXCEPT ![e] = FALSE]
          /\ UNCHANGED <<life, kind, qty>>
      BY <1>6 DEF Store
    <2>3. held'[c] = e /\ \A d \in Cell \ {c} : held'[d] = held[d]
      BY <2>2 DEF ItemTypes
    <2>4. \A x \in Ent \ {e} : Untouched(x)
      BY <2>1, <2>2, <2>3, ItemsAssumption DEF Untouched, Existing, ItemTypes
    <2>5. Elsewhere(e, e)
      BY <2>4, UntouchedSame DEF Elsewhere, Stays
    <2>6. Place[e] = World /\ Place'[e] = c
      BY <1>3, <2>3, PlaceNow, PlaceNext
    <2>7. Sort'[e] = Sort[e] /\ Amount'[e] = Amount[e]
      BY <1>3, <2>2, ReadNow, ReadNext DEF Existing
    <2>8. \A x \in Ent : Place[x] # c
      BY <2>1, PlaceNow, ItemsAssumption
    <2> QED
      BY <1>3, <2>5, <2>6, <2>7, <2>8, MoveEntry, PlacesAssumption
  <1>7. CASE UNCHANGED itemVars
    <2>1. \A x \in Ent : Untouched(x)
      BY <1>7 DEF Untouched, Existing, itemVars
    <2> QED
      BY <2>1, NoEntry
  <1> QED
    BY <1>1, <1>2, <1>5, <1>6, <1>7

\* What is dropped lies in the world; what stays in the slot is a new stack.
LEMMA DropEntry ==
    ASSUME ItemTypes, FrameTypes, Ownership, Ownership', GoodStacks, NEW p \in Player,
           CanDrop(p), DropStack(p)
    PROVE  Entry
  <1>1. PICK c \in Cell : c = DropCell(p)
    BY DEF CanDrop, DropCell, Box, Cell, Holder, FrameTypes, InputType
  <1>2. PICK e \in Ent : e = held[c]
    BY <1>1, ItemsAssumption DEF CanDrop, HasData, ItemTypes
  <1>3. e \in Existing /\ \A d \in Cell : held[d] = e => d = c
    BY <1>2, ItemsAssumption DEF Ownership, SlotsHoldItems, ExclusiveOwnership
  <1>4. PICK n \in 1 .. qty[e] : n = DroppedCount(p, qty[e])
    <2>1. qty[e] \in 1 .. Wrap - 1 /\ DroppedCount(p, qty[e]) > 0
      BY <1>1, <1>2, ItemsAssumption DEF CanDrop, HasData, ItemTypes
    <2> QED
      BY <2>1, DroppedRange
  <1>5. qty[e] \in 1 .. Wrap - 1 /\ Wrap \in Nat
    BY <1>1, <1>2, ItemsAssumption DEF CanDrop, HasData, ItemTypes
  <1>6. shown' = [shown EXCEPT ![e] = TRUE]
    BY <1>1, <1>2 DEF DropStack
  <1>7. Place[e] = c /\ Sort[e] = kind[e] /\ Amount[e] = qty[e]
    BY <1>2, <1>3, PlaceNow, ReadNow
  <1>8. CASE qty[e] - n > 0
    <2>1. PICK te \in Fresh :
              /\ life' = [life EXCEPT ![te] = "staged"]
              /\ kind' = [kind EXCEPT ![te] = kind[e]]
              /\ qty'  = [qty EXCEPT ![e] = @ - n, ![te] = n]
              /\ held' = [held EXCEPT ![c] = te]
      BY <1>1, <1>2, <1>4, <1>8 DEF DropStack
    <2>2. te \in Ent /\ te # e /\ te \notin Existing /\ \A d \in Cell : held[d] # te
      BY <1>3 DEF Fresh, Existing
    <2>3. /\ held'[c] = te /\ \A d \in Cell \ {c} : held'[d] = held[d]
          /\ kind'[te] = kind[e] /\ kind'[e] = kind[e] /\ qty'[e] = qty[e] - n /\ qty'[te] = n
          /\ shown'[e] = TRUE
      BY <1>6, <2>1, <2>2 DEF ItemTypes
    <2>4. e \in Existing' /\ te \in Existing'
      BY <1>3, <2>1, <2>2 DEF ItemTypes, Existing
    <2>5. \A x \in Ent \ {e, te} : Untouched(x)
      BY <1>2, <1>6, <2>1, <2>2, <2>3 DEF Untouched, Existing, ItemTypes
    <2>6. Elsewhere(e, te)
      BY <2>5, UntouchedSame DEF Elsewhere, Stays
    <2>7. Place[te] = Nowhere /\ Place'[te] = c /\ Place'[e] = World
      BY <2>2, <2>3, <2>4, PlaceNow, PlaceNext
    <2>8. /\ Sort'[e] = kind[e] /\ Sort'[te] = kind[e]
          /\ Amount'[e] = qty[e] - n /\ Amount'[te] = n
      BY <2>2, <2>3, <2>4, ReadNext
    <2>9. n \in 1 .. Wrap - 1 /\ n \in 1 .. Amount[e] - 1
      BY <1>5, <1>7, <1>8
    <2>10. Place[e] # Nowhere
      BY <1>3, PlaceNow
    <2> QED
      BY <1>7, <2>2, <2>6, <2>7, <2>8, <2>9, <2>10, DivideEntry
  <1>9. CASE ~(qty[e] - n > 0)
    <2>1. held' = [held EXCEPT ![c] = NoEnt] /\ UNCHANGED <<life, kind, qty>>
      BY <1>1, <1>2, <1>4, <1>9 DEF DropStack
    <2>2. \A x \in Ent \ {e} : Untouched(x)
      BY <1>2, <1>6, <2>1, ItemsAssumption DEF Untouched, Existing, ItemTypes
    <2>3. Elsewhere(e, e)
      BY <2>2, UntouchedSame DEF Elsewhere, Stays
    <2>4. e \in Existing' /\ shown'[e]
      BY <1>3, <1>6, <2>1 DEF Existing, ItemTypes
    <2>5. Place'[e] = World /\ Sort'[e] = Sort[e] /\ Amount'[e] = Amount[e]
      BY <1>3, <1>7, <2>1, <2>4, PlaceNext, ReadNow, ReadNext
    <2>6. Place[e] # Nowhere /\ Place[e] # Gone
      BY <1>7, PlacesAssumption
    <2> QED
      BY <2>3, <2>5, <2>6, MoveEntry
  <1> QED
    BY <1>8, <1>9

\* Dragging is a transfer, a division, an exchange, a move or nothing.
LEMMA MoveBetweenEntry ==
    ASSUME ItemTypes, FrameTypes, Ownership, Ownership', GoodStacks,
           NEW p \in Player, ~input[p].sprint, input[p].ctrl => NoneStaged,
           NEW from \in Cell, NEW to \in Cell, HasData(held[from]),
           MoveBetween(p, from, to)
    PROVE  Entry
  <1>1. PICK a \in Ent, b \in Ent \cup {NoEnt} : a = held[from] /\ b = held[to]
    BY ItemsAssumption DEF HasData, ItemTypes
  <1>2. a \in Existing /\ \A d \in Cell : held[d] = a => d = from
    BY <1>1, ItemsAssumption DEF Ownership, SlotsHoldItems, ExclusiveOwnership
  <1>3. b \in Ent => b \in Existing /\ \A d \in Cell : held[d] = b => d = to
    BY <1>1, ItemsAssumption DEF Ownership, SlotsHoldItems, ExclusiveOwnership
  <1>4. /\ qty[a] \in 1 .. MaxQuantity[kind[a]]
        /\ MaxQuantity[kind[a]] \in 1 .. Wrap - 1 /\ Wrap \in Nat
    BY <1>2, ItemsAssumption DEF GoodStacks, Stacked, ItemTypes
  <1>5. Place[a] = from /\ Sort[a] = kind[a] /\ Amount[a] = qty[a]
    BY <1>1, <1>2, PlaceNow, ReadNow
  <1>6. CASE UNCHANGED itemVars
    <2>1. \A x \in Ent : Untouched(x)
      BY <1>6 DEF Untouched, Existing, itemVars
    <2> QED
      BY <2>1, NoEntry
  <1>7. ASSUME from # to, HasData(b), kind[a] = kind[b], qty[b] > 0, MergeStacks(p, from, a, b)
        PROVE  Entry
    <2>1. b \in Ent /\ a # b
      BY <1>1, <1>2, <1>7, ItemsAssumption DEF HasData
    <2>2. qty[b] \in 1 .. MaxQuantity[kind[a]]
      BY <1>3, <1>7, <2>1 DEF GoodStacks, Stacked
    <2>3. PICK n \in Int : /\ n = SwappedCount(p, a, b) /\ n \in 0 .. qty[a]
                           /\ qty[b] + n <= MaxQuantity[kind[a]]
      BY <1>4, <1>7, <2>1, <2>2, SwappedFits
    <2>4. /\ qty' = [qty EXCEPT ![a] = (@ - n) % Wrap, ![b] = (@ + n) % Wrap]
          /\ IF qty[a] = n
             THEN Despawned(a) /\ held' = [held EXCEPT ![from] = NoEnt]
             ELSE UNCHANGED <<life, shown, held>>
          /\ kind' = kind
      BY <1>7, <2>3 DEF MergeStacks
    <2>5. (qty[a] - n) % Wrap = qty[a] - n /\ (qty[b] + n) % Wrap = qty[b] + n
      <3>1. qty[a] - n \in 0 .. Wrap - 1 /\ qty[b] + n \in 0 .. Wrap - 1
        BY <1>4, <2>2, <2>3
      <3> QED
        BY <1>4, <3>1
    <2>6. /\ qty'[a] = qty[a] - n /\ qty'[b] = qty[b] + n
          /\ \A e \in Ent \ {a, b} : qty'[e] = qty[e]
      BY <2>1, <2>4, <2>5 DEF ItemTypes
    <2>7. /\ \A e \in Ent \ {a} : life'[e] = life[e] /\ shown'[e] = shown[e]
          /\ a \in Existing' <=> qty[a] # n
          /\ \A d \in Cell \ {from} : held'[d] = held[d]
          /\ held'[from] = IF qty[a] = n THEN NoEnt ELSE a
      <3>1. CASE qty[a] = n
        BY <1>1, <2>4, <3>1, DespawnedFacts DEF Despawned, ItemTypes
      <3>2. CASE qty[a] # n
        BY <1>1, <1>2, <2>4, <3>2 DEF Existing
      <3> QED
        BY <3>1, <3>2
    <2>8. \A x \in Ent \ {a} : \A d \in Cell : held'[d] = x <=> held[d] = x
      BY <1>1, <2>7, ItemsAssumption
    <2>9. b \in Existing' /\ \A x \in Ent \ {a, b} : Untouched(x)
      BY <1>3, <2>1, <2>4, <2>6, <2>7, <2>8 DEF Untouched, Existing
    <2>10. qty[a] # n => SamePlace(a)
      BY <2>4 DEF SamePlace
    <2>11. SamePlace(b)
      BY <2>1, <2>7, <2>8 DEF SamePlace
    <2>12. qty[a] \in 1 .. Wrap - 1
      BY <1>4
    <2>13. CASE n = 0
      <3>1. Untouched(a)
        BY <1>2, <1>4, <2>4, <2>6, <2>7, <2>10, <2>13 DEF Untouched, SamePlace
      <3>2. Untouched(b)
        BY <1>3, <2>1, <2>2, <2>4, <2>6, <2>9, <2>11, <2>13 DEF Untouched, SamePlace
      <3> QED
        BY <2>9, <3>1, <3>2, NoEntry
    <2>14. CASE n # 0
      <3>1. n \in 1 .. qty[a]
        BY <1>4, <2>3, <2>14
      <3>2. Poured(a, b, n)
        BY <2>4, <2>6, <2>7, <2>9, <2>10, <2>11, <3>1 DEF Poured
      <3> QED
        BY <1>2, <1>3, <1>7, <2>1, <2>12, <3>2, PourEntry
    <2> QED
      BY <2>13, <2>14
  <1>8. ASSUME from # to, input[p].ctrl, ~HasData(b), SplitStack(p, to, a) PROVE Entry
    <2>1. SplitCount(p, a) = 1
      BY <1>8 DEF SplitCount
    <2>2. b \notin Ent
      BY <1>3, <1>8, ItemsAssumption DEF NoneStaged, Existing, HasData
    <2>3. CASE qty[a] = 1
      BY <1>6, <1>8, <2>1, <2>3 DEF SplitStack
    <2>4. CASE qty[a] # 1
      <3>1. PICK te \in Fresh :
                /\ life'  = [life EXCEPT ![te] = "staged"]
                /\ kind'  = [kind EXCEPT ![te] = kind[a]]
                /\ shown' = [shown EXCEPT ![te] = FALSE]
                /\ qty'   = [qty EXCEPT ![a] = @ - 1, ![te] = 1]
                /\ held'  = [held EXCEPT ![to] = te]
        BY <1>8, <2>1, <2>4 DEF SplitStack
      <3>2. te \in Ent /\ te # a /\ te \notin Existing /\ \A d \in Cell : held[d] # te
        BY <1>2 DEF Fresh, Existing
      <3>3. /\ held'[to] = te /\ \A d \in Cell \ {to} : held'[d] = held[d]
            /\ kind'[te] = kind[a] /\ kind'[a] = kind[a] /\ qty'[a] = qty[a] - 1 /\ qty'[te] = 1
        BY <3>1, <3>2 DEF ItemTypes
      <3>4. a \in Existing' /\ te \in Existing'
        BY <1>2, <3>1, <3>2 DEF ItemTypes, Existing
      <3>5. \A x \in Ent \ {te} : \A d \in Cell : held'[d] = x <=> held[d] = x
        <4> SUFFICES ASSUME NEW x \in Ent \ {te}, NEW d \in Cell
                     PROVE  held'[d] = x <=> held[d] = x
          OBVIOUS
        <4>1. CASE d = to
          BY <1>1, <2>2, <3>3, <4>1
        <4>2. CASE d # to
          BY <3>3, <4>2
        <4> QED
          BY <4>1, <4>2
      <3>6. \A x \in Ent \ {a, te} : Untouched(x)
        <4>1. \A x \in Ent \ {a, te} : /\ life'[x] = life[x] /\ shown'[x] = shown[x]
                                        /\ kind'[x] = kind[x] /\ qty'[x] = qty[x]
          BY <3>1, <3>2 DEF ItemTypes
        <4> QED
          BY <3>5, <4>1 DEF Untouched, Existing
      <3>7. Elsewhere(a, te)
        BY <3>6, UntouchedSame DEF Elsewhere, Stays
      <3>8. Place[te] = Nowhere /\ Place'[te] = to /\ Place'[a] = from
        BY <1>1, <1>8, <3>2, <3>3, PlaceNow, PlaceNext
      <3>9. /\ Sort'[a] = kind[a] /\ Sort'[te] = kind[a]
            /\ Amount'[a] = qty[a] - 1 /\ Amount'[te] = 1
        BY <3>2, <3>3, <3>4, ReadNext
      <3>10. 1 \in 1 .. Wrap - 1 /\ 1 \in 1 .. Amount[a] - 1
        BY <1>4, <1>5, <2>4
      <3>11. Place[a] # Nowhere /\ \A x \in Ent : Place[x] # to
        BY <1>1, <1>2, <2>2, PlaceNow
      <3> QED
        BY <1>5, <3>2, <3>7, <3>8, <3>9, <3>10, <3>11, DivideEntry
    <2> QED
      BY <2>3, <2>4
  <1>9. ASSUME from # to, ExchangeCells(from, to) PROVE Entry
    <2>1. /\ held' = [held EXCEPT ![from] = held[to], ![to] = held[from]]
          /\ UNCHANGED <<life, kind, qty, shown>>
      BY <1>9 DEF ExchangeCells
    <2>2. held'[from] = b /\ held'[to] = a /\ \A d \in Cell \ {from, to} : held'[d] = held[d]
      BY <1>1, <1>9, <2>1 DEF ItemTypes
    <2>3. \A x \in Ent \ {a, b} : Untouched(x)
      BY <1>1, <2>1, <2>2 DEF Untouched, Existing
    <2>4. Elsewhere(a, b)
      BY <2>3, UntouchedSame DEF Elsewhere, Stays
    <2>5. Existing' = Existing
      BY <2>1 DEF Existing
    <2>6. Place'[a] = to /\ Sort'[a] = Sort[a] /\ Amount'[a] = Amount[a]
      <3>1. Place'[a] = to
        BY <2>2, PlaceNext
      <3>2. Sort'[a] = Sort[a] /\ Amount'[a] = Amount[a]
        BY <2>1, <2>5 DEF Sort, Amount
      <3> QED
        BY <3>1, <3>2
    <2>7. CASE b \in Ent
      <3>1. Place[b] = to /\ Place'[b] = from /\ Sort'[b] = Sort[b] /\ Amount'[b] = Amount[b]
        <4>1. Place[b] = to
          BY <1>1, <2>7, PlaceNow
        <4>2. Place'[b] = from
          BY <2>2, <2>7, PlaceNext
        <4>3. Sort'[b] = Sort[b] /\ Amount'[b] = Amount[b]
          BY <2>1, <2>5, <2>7 DEF Sort, Amount
        <4> QED
          BY <4>1, <4>2, <4>3
      <3> QED
        BY <1>5, <2>4, <2>6, <2>7, <3>1, ExchangeEntry
    <2>8. CASE b \notin Ent
      <3>1. Elsewhere(a, a)
        BY <2>4, <2>8 DEF Elsewhere, Stays
      <3>2. \A x \in Ent : Place[x] # to
        BY <1>1, <2>8, PlaceNow
      <3>3. Place[a] # Nowhere /\ Place[a] # Gone
        BY <1>5, PlacesAssumption
      <3> QED
        BY <2>6, <3>1, <3>2, <3>3, MoveEntry
    <2> QED
      BY <2>7, <2>8
  <1> QED
    BY <1>1, <1>6, <1>7, <1>8, <1>9 DEF MoveBetween

\* Placing items uses up units of the selected stack.
LEMMA PlaceItemsEntry ==
    ASSUME ItemTypes, FrameTypes, Ownership, Ownership', GoodStacks, NEW p \in Player,
           HasData(held[<<p, input[p].slot>>]),
           input[p].places <= qty[held[<<p, input[p].slot>>]],
           PlaceItems(p, held[<<p, input[p].slot>>])
    PROVE  Entry
  <1>1. PICK c \in Cell, e \in Ent : c = <<p, input[p].slot>> /\ e = held[c]
    <2>1. <<p, input[p].slot>> \in Cell
      BY OwnCell
    <2> QED
      BY <2>1, ItemsAssumption DEF HasData, ItemTypes
  <1>2. e \in Existing /\ \A d \in Cell : held[d] = e => d = c
    BY <1>1, ItemsAssumption DEF Ownership, SlotsHoldItems, ExclusiveOwnership
  <1>3. /\ qty[e] \in 1 .. Wrap - 1 /\ Wrap \in Nat
        /\ input[p].places \in Nat /\ input[p].places <= qty[e]
    BY <1>1, <1>2, ItemsAssumption DEF GoodStacks, Stacked, ItemTypes, FrameTypes, InputType
  <1>4. PICK n \in 0 .. input[p].places :
            /\ qty' = [qty EXCEPT ![e] = (qty[e] - n) % Wrap]
            /\ IF (qty[e] - n) % Wrap = 0
               THEN Despawned(e) /\ held' = [held EXCEPT ![c] = NoEnt]
               ELSE UNCHANGED <<life, shown, held>>
            /\ kind' = kind
    BY <1>1 DEF PlaceItems
  <1>5. (qty[e] - n) % Wrap = qty[e] - n /\ n \in 0 .. qty[e]
    <2>1. qty[e] - n \in 0 .. Wrap - 1 /\ n \in 0 .. qty[e]
      BY <1>3
    <2> QED
      BY <1>3, <2>1
  <1>6. qty'[e] = qty[e] - n /\ \A x \in Ent \ {e} : qty'[x] = qty[x]
    BY <1>4, <1>5 DEF ItemTypes
  <1>7. /\ \A x \in Ent \ {e} : life'[x] = life[x] /\ shown'[x] = shown[x]
        /\ e \in Existing' <=> qty[e] # n
        /\ \A d \in Cell \ {c} : held'[d] = held[d]
        /\ held'[c] = IF qty[e] = n THEN NoEnt ELSE e
        /\ qty[e] # n => shown'[e] = shown[e]
    <2>1. CASE qty[e] = n
      <3>1. (qty[e] - n) % Wrap = 0
        BY <1>3, <1>5, <2>1
      <3>2. Despawned(e) /\ held' = [held EXCEPT ![c] = NoEnt]
        BY <1>4, <3>1
      <3> QED
        BY <2>1, <3>2, DespawnedFacts DEF Despawned, ItemTypes
    <2>2. CASE qty[e] # n
      <3>1. (qty[e] - n) % Wrap # 0
        BY <1>3, <1>5, <2>2
      <3>2. UNCHANGED <<life, shown, held>>
        BY <1>4, <3>1
      <3> QED
        BY <1>1, <1>2, <2>2, <3>2 DEF Existing
    <2> QED
      BY <2>1, <2>2
  <1>8. \A x \in Ent \ {e} : \A d \in Cell : held'[d] = x <=> held[d] = x
    BY <1>1, <1>7, ItemsAssumption
  <1>9. \A x \in Ent \ {e} : Untouched(x)
    BY <1>4, <1>6, <1>7, <1>8 DEF Untouched, Existing
  <1>10. CASE n = 0
    <2>1. Untouched(e)
      <3>1. qty'[e] = qty[e] /\ kind'[e] = kind[e] /\ qty[e] # n
        BY <1>3, <1>4, <1>6, <1>10
      <3>2. \A d \in Cell : held'[d] = held[d]
        BY <1>1, <1>7, <3>1
      <3> QED
        BY <1>2, <1>7, <3>1, <3>2 DEF Untouched
    <2> QED
      BY <1>9, <2>1, NoEntry
  <1>11. CASE n # 0
    <2>1. Elsewhere(e, e)
      BY <1>9, UntouchedSame DEF Elsewhere, Stays
    <2>2. Place[e] = c /\ Sort[e] = kind[e] /\ Amount[e] = qty[e]
      BY <1>1, <1>2, PlaceNow, ReadNow
    <2>3. Place'[e] = IF n = Amount[e] THEN Nowhere ELSE Place[e]
      BY <1>7, <2>2, PlaceNext
    <2>4. Sort'[e] = IF n = Amount[e] THEN CHOOSE k \in Kind : TRUE ELSE Sort[e]
      BY <1>4, <1>7, <2>2, ReadNext
    <2>5. Amount'[e] = Amount[e] - n
      <3>1. Amount'[e] = IF qty[e] # n THEN qty'[e] ELSE 0
        BY <1>7, ReadNext
      <3> QED
        BY <1>3, <1>6, <2>2, <3>1
    <2>6. n \in 1 .. Wrap - 1 /\ n \in 1 .. Amount[e]
      BY <1>3, <1>5, <1>11, <2>2
    <2> QED
      BY <2>1, <2>2, <2>3, <2>4, <2>5, <2>6, ConsumeEntry
  <1> QED
    BY <1>10, <1>11

\* New stacks in the world, each of its own kind, of one size.
LEMMA AppearEntry ==
    ASSUME ItemTypes, Ownership, Ownership', NEW S \in SUBSET Fresh,
           NEW kinds \in [S -> Kind], NEW q \in 1 .. Wrap - 1,
           \A x \in S : x \in Existing' /\ shown'[x] /\ kind'[x] = kinds[x] /\ qty'[x] = q,
           \A x \in Ent \ S : /\ life'[x] = life[x] /\ shown'[x] = shown[x]
                              /\ kind'[x] = kind[x] /\ qty'[x] = qty[x],
           held' = held
    PROVE  Entry
  <1>1. S \subseteq Ent /\ \A x \in S : x \notin Existing
    BY DEF Fresh, Existing
  <1>2. ASSUME NEW x \in S
        PROVE  Appears(x, kinds[x], q)
    BY <1>1, PlaceNow, PlaceNext, ReadNext DEF Appears
  <1>3. \A x \in Ent \ S : Untouched(x)
    BY DEF Untouched, Existing
  <1>4. \A x \in Ent \ S : Stays(x)
    BY <1>3, UntouchedSame
  <1>5. S \in SUBSET Ent
    BY <1>1
  <1> QED
    BY <1>2, <1>4, <1>5, CreateEntry

\* A departure puts what the player holds out of reach, and nothing else.
LEMMA LeaveEntry ==
    ASSUME ItemTypes, Ownership, Ownership', NEW p \in Player, Leave(p)
    PROVE  Entry
  <1>1. /\ held' = [c \in Cell |-> IF c[1] = p THEN NoEnt ELSE held[c]]
        /\ UNCHANGED <<life, kind, qty, shown>>
    BY DEF Leave
  <1>2. Existing' = Existing
    BY <1>1 DEF Existing
  <1>3. ASSUME NEW x \in Ent
        PROVE  /\ Place'[x] = IF \E c \in Cell : Place[x] = c /\ c[1] = p
                              THEN Gone ELSE Place[x]
               /\ Sort'[x] = Sort[x] /\ Amount'[x] = Amount[x]
    <2>1. Sort'[x] = Sort[x] /\ Amount'[x] = Amount[x]
      BY <1>1, <1>2, ReadNow, ReadNext
    <2>2. ASSUME NEW c \in Cell, Place[x] = c, c[1] = p PROVE Place'[x] = Gone
      <3>1. held[c] = x /\ x \in Existing /\ ~shown[x]
        BY <2>2, PlaceNow, ItemsAssumption DEF Ownership, SlotsHoldItems
      <3>2. \A d \in Cell : held[d] = x => d = c
        BY <3>1, ItemsAssumption DEF Ownership, ExclusiveOwnership
      <3>3. \A d \in Cell : held'[d] # x
        BY <1>1, <2>2, <3>2, ItemsAssumption
      <3> QED
        BY <1>1, <1>2, <3>1, <3>3, LocatedNext DEF Located
    <2>3. ASSUME ~ \E c \in Cell : Place[x] = c /\ c[1] = p PROVE Place'[x] = Place[x]
      <3>1. \A d \in Cell : held[d] = x => d[1] # p
        BY <2>3, PlaceNow
      <3>2. \A d \in Cell : held'[d] = x <=> held[d] = x
        BY <1>1, <3>1, ItemsAssumption
      <3>3. Untouched(x)
        BY <1>1, <1>2, <3>2 DEF Untouched
      <3> QED
        BY <3>3, UntouchedSame DEF Stays
    <2> QED
      BY <2>1, <2>2, <2>3
  <1>4. /\ Place' = [x \in Ent |-> IF \E c \in Cell : Place[x] = c /\ c[1] = p
                                   THEN Gone ELSE Place[x]]
        /\ Sort' = Sort /\ Amount' = Amount
    BY <1>3, LedgerFunctions
  <1>5. Ledger!Depart(p)
    BY <1>4 DEF Ledger!Depart
  <1> QED
    BY <1>5 DEF Entry, Ledger!LedgerNext

\* Every step of an undisturbed game of gentle clients is an entry or none.
LEMMA StepEntry ==
    ASSUME Gentle, Undisturbed, IInv, IInv', KeysInv, GoodStacks, AffordInv, Solo => Calm,
           [Next]_vars
    PROVE  Entry
  <1>1. ItemTypes /\ FrameTypes /\ Ownership /\ Ownership'
    BY Types DEF IInv
  <1>2. CASE UNCHANGED itemVars
    <2>1. \A x \in Ent : Untouched(x)
      BY <1>2 DEF Untouched, Existing, itemVars
    <2> QED
      BY <1>1, <2>1, NoEntry
  <1>3. ASSUME NEW p \in Player, PickItem(p) PROVE Entry
    BY <1>1, <1>2, <1>3, TakeIntoEntry DEF PickItem, Holder
  <1>4. ASSUME NEW h \in Container, HarvestIntoContainers(h) PROVE Entry
    BY <1>1, <1>2, <1>4, TakeIntoEntry DEF HarvestIntoContainers, Holder
  <1>5. ASSUME NEW p \in Player, DropItem(p) PROVE Entry
    BY <1>1, <1>2, <1>5, DropEntry DEF DropItem, itemVars
  <1>6. ASSUME NEW p \in Player, SwapItems(p) PROVE Entry
    <2>1. stage = "swap" /\ p \in todo
      BY <1>6 DEF SwapItems, Turn
    <2>2. CASE CanSwap(p)
      <3>1. FromCell(p) \in Cell /\ ToCell(p) \in Cell
        BY <1>1, <2>2, SwapCells
      <3>2. HasData(held[FromCell(p)]) /\ MoveBetween(p, FromCell(p), ToCell(p))
        BY <1>6, <2>2 DEF SwapItems, CanSwap
      <3>3. input[p].ctrl => NoneStaged
        BY <2>1, SplitsAreFree
      <3>4. ~input[p].sprint
        BY <1>1, <2>1, GentleKeys DEF KeysInv
      <3> QED
        BY <1>1, <3>1, <3>2, <3>3, <3>4, MoveBetweenEntry
    <2>3. CASE ~CanSwap(p)
      BY <1>2, <1>6, <2>3 DEF SwapItems
    <2> QED
      BY <2>2, <2>3
  <1>7. ASSUME NEW p \in Player, UseItem(p) PROVE Entry
    <2>1. stage = "use" /\ p \in todo
      BY <1>7 DEF UseItem, Turn
    <2>2. CASE DestroyBlocks(p)
      <3>0. PICK S \in SUBSET Fresh : \E drops \in [S -> Kind] : Spawned(S, drops)
        BY <2>2 DEF DestroyBlocks
      <3>1. PICK drops \in [S -> Kind] :
                /\ life'  = [e \in Ent |-> IF e \in S THEN "staged" ELSE life[e]]
                /\ kind'  = [e \in Ent |-> IF e \in S THEN drops[e] ELSE kind[e]]
                /\ qty'   = [e \in Ent |-> IF e \in S THEN 1 ELSE qty[e]]
                /\ shown' = [e \in Ent |-> e \in S \/ shown[e]]
                /\ held' = held
        BY <3>0 DEF Spawned
      <3>2. S \subseteq Ent /\ 1 \in 1 .. Wrap - 1
        BY ItemsAssumption DEF Fresh
      <3>3. \A x \in S : x \in Existing' /\ shown'[x] /\ kind'[x] = drops[x] /\ qty'[x] = 1
        BY <3>1, <3>2 DEF Existing
      <3>4. \A x \in Ent \ S : /\ life'[x] = life[x] /\ shown'[x] = shown[x]
                               /\ kind'[x] = kind[x] /\ qty'[x] = qty[x]
        BY <1>1, <3>1 DEF ItemTypes
      <3> QED
        BY <1>1, <3>1, <3>2, <3>3, <3>4, AppearEntry
    <2>3. ASSUME ~input[p].deletion, HasData(held[<<p, input[p].slot>>]),
                 PlaceItems(p, held[<<p, input[p].slot>>])
          PROVE  Entry
      <3>1. Affords(p)
        BY <2>1 DEF AffordInv, Awaits
      <3>2. input[p].places <= qty[held[<<p, input[p].slot>>]]
        <4>1. <<p, input[p].slot>> \in Cell /\ input[p].places \in Nat
          BY <1>1, OwnCell DEF FrameTypes, InputType
        <4>2. qty[held[<<p, input[p].slot>>]] \in Nat
          BY <1>1, <2>3, <4>1, ItemsAssumption DEF HasData, ItemTypes
        <4> QED
          BY <2>3, <3>1, <4>1, <4>2 DEF Affords
      <3> QED
        BY <1>1, <2>3, <3>2, PlaceItemsEntry
    <2> QED
      BY <1>2, <1>7, <2>2, <2>3 DEF UseItem
  <1>8. ASSUME NEW p \in Player, Leave(p) PROVE Entry
    BY <1>1, <1>8, LeaveEntry
  <1>9. ASSUME NEW e \in Ent, NEW k \in Kind, NEW q \in SpawnQty, SpawnItem(e, k, q)
        PROVE  Entry
    <2>1. /\ e \in Fresh /\ held' = held
          /\ life'  = [life EXCEPT ![e] = "live"] /\ kind'  = [kind EXCEPT ![e] = k]
          /\ qty'   = [qty EXCEPT ![e] = q] /\ shown' = [shown EXCEPT ![e] = TRUE]
      BY <1>9 DEF SpawnItem
    <2>2. q \in 1 .. Wrap - 1
      BY ItemsAssumption
    <2>3. PICK S \in SUBSET Fresh : S = {e}
      BY <2>1
    <2>4. PICK kinds \in [S -> Kind] : kinds = [x \in S |-> k]
      OBVIOUS
    <2>5. \A x \in S : x \in Existing' /\ shown'[x] /\ kind'[x] = kinds[x] /\ qty'[x] = q
      BY <1>1, <2>1, <2>3, <2>4 DEF Existing, ItemTypes
    <2>6. \A x \in Ent \ S : /\ life'[x] = life[x] /\ shown'[x] = shown[x]
                               /\ kind'[x] = kind[x] /\ qty'[x] = qty[x]
      BY <1>1, <2>1, <2>3 DEF ItemTypes
    <2>7. held' = held
      BY <2>1
    <2> QED
      BY <1>1, <2>2, <2>3, <2>5, <2>6, <2>7, AppearEntry
  <1>10. CASE Merge
    <2>1. /\ life' = [e \in Ent |-> CASE life[e] = "dying" -> "free"
                                      [] life[e] = "staged" -> "live"
                                      [] OTHER -> life[e]]
          /\ \A e \in Ent : life[e] # "dying" => kind'[e] = kind[e] /\ qty'[e] = qty[e]
          /\ UNCHANGED <<shown, held>>
      BY <1>10 DEF Merge
    <2>2. \A x \in Ent : Untouched(x)
      BY <2>1 DEF Untouched, Existing
    <2> QED
      BY <1>1, <2>2, NoEntry
  <1>11. ASSUME NEW p \in Player, \/ InspectContainers(p) \/ CoolDown(p)
                                  \/ \E m \in Inputs : Keystate(p, m)
         PROVE  Entry
    BY <1>2, <1>11 DEF InspectContainers, CoolDown, Keystate
  <1> QED
    BY <1>2, <1>3, <1>4, <1>5, <1>6, <1>7, <1>8, <1>9, <1>10, <1>11
       DEF Next, NextSystem, vars, itemVars

\* Every step of every system is one entry of the ledger of ItemLedger, or
\* none, for gentle clients who do not disturb one another: no system stops
\* half-way through a move, and only a departure puts a stack out of reach.
THEOREM ItemsImplementLedger == Gentle /\ Undisturbed /\ Spec => ImplementsLedger
  <1> DEFINE Inv == IInv /\ KeysInv /\ GoodStacks /\ AffordInv /\ (Solo => Calm)
  <1>1. Init => Inv /\ Ledger!LedgerInit
    <2>1. ASSUME Init PROVE Ledger!LedgerInit
      <3>1. Existing = {}
        BY <2>1 DEF Init, Existing
      <3> QED
        BY <3>1 DEF Ledger!LedgerInit, Ledger!Blank, Place, Sort, Amount, Somewhere
    <2> QED
      BY <2>1, IInvInit, InitKeys, InitCalm, InitStacks DEF StackInv
  <1>2. ASSUME Gentle, Undisturbed PROVE Spec => ImplementsLedger
    <2>1. Inv /\ [Next]_vars => Inv' /\ [Ledger!LedgerNext]_(Ledger!ledger)
      <3> SUFFICES ASSUME Inv, [Next]_vars PROVE Inv' /\ [Ledger!LedgerNext]_(Ledger!ledger)
        OBVIOUS
      <3>1. IInv' /\ KeysInv' /\ GoodStacks' /\ AffordInv'
        BY <1>2, IInvStep, StepKeys, StepStacks DEF StackInv
      <3>2. Solo => Calm'
        BY StepCalm
      <3>3. Entry
        BY <1>2, <3>1, StepEntry
      <3> QED
        BY <3>1, <3>2, <3>3 DEF Solo, Entry, Ledger!ledger
    <2> QED
      BY <1>1, <2>1, PTL DEF Spec, ImplementsLedger, Ledger!LedgerSpec
  <1> QED
    BY <1>2

----------------------------------------------------------------------------
(* Sums over the items                                                     *)

\* What holds of a set of items whenever it holds of its proper subsets.
LEMMA SubsetInduction ==
    ASSUME NEW U, IsFiniteSet(U), NEW G \in SUBSET (SUBSET U),
           \A s \in SUBSET U : (\A t \in SUBSET s : t # s => t \in G) => s \in G
    PROVE  G = SUBSET U
  <1> DEFINE R == StrictSubsetOrdering(U)
             T == (SUBSET U) \ G
  <1> SUFFICES ASSUME T # {} PROVE FALSE
    OBVIOUS
  <1>1. T \subseteq FiniteSubsetsOf(U)
    BY FS_Subset DEF FiniteSubsetsOf
  <1>2. PICK s \in T : \A t \in T : ~(<<t, s>> \in R)
    <2>1. IsWellFoundedOn(R, FiniteSubsetsOf(U))
      BY FS_StrictSubsetOrderingWellFounded
    <2> HIDE DEF R, T
    <2> QED
      BY <1>1, <2>1, WFMin
  <1>3. ASSUME NEW t \in SUBSET s, t # s PROVE t \in G
    <2>1. t \in SUBSET U /\ s \in SUBSET U
      OBVIOUS
    <2> QED
      BY <1>2, <1>3, <2>1 DEF StrictSubsetOrdering
  <1> QED
    BY <1>2, <1>3

\* sum gives every subset of U the sum of the values g has on it.
Pick(s) == CHOOSE x \in s : TRUE
Sums(g, U, sum) ==
    /\ sum \in [SUBSET U -> Int]
    /\ \A s \in SUBSET U :
           sum[s] = IF s = {} THEN 0 ELSE g[Pick(s)] + sum[s \ {Pick(s)}]

LEMMA SumFound ==
    ASSUME NEW U, IsFiniteSet(U), NEW g \in [U -> Int]
    PROVE  \E sum : Sums(g, U, sum)
  <1> DEFINE Right(sum, n) ==
                 \A s \in SUBSET U : Cardinality(s) <= n =>
                     sum[s] = IF s = {} THEN 0 ELSE g[Pick(s)] + sum[s \ {Pick(s)}]
             G == {u \in SUBSET U : \E sum \in [SUBSET U -> Int] : Right(sum, Cardinality(u))}
  <1>1. \A s \in SUBSET U : IsFiniteSet(s) /\ Cardinality(s) \in Nat
    BY FS_Subset, FS_CardinalityType
  <1>2. ASSUME NEW u \in SUBSET U, \A t \in SUBSET u : t # u => t \in G PROVE u \in G
    <2>1. CASE u = {}
      <3> DEFINE sum == [s \in SUBSET U |-> 0]
      <3>1. \A s \in SUBSET U : Cardinality(s) <= Cardinality(u) => s = {}
        BY <1>1, <2>1, FS_EmptySet
      <3>2. sum \in [SUBSET U -> Int] /\ Right(sum, Cardinality(u))
        BY <3>1
      <3> QED
        BY <3>2
    <2>2. CASE u # {}
      <3>1. PICK x \in u : TRUE
        BY <2>2
      <3>2. u \ {x} \in SUBSET U /\ Cardinality(u \ {x}) = Cardinality(u) - 1
        BY <1>1, <3>1, FS_RemoveElement
      <3>3. PICK old \in [SUBSET U -> Int] : Right(old, Cardinality(u) - 1)
        <4>1. u \ {x} \in G
          BY <1>2, <3>1
        <4> QED
          BY <3>2, <4>1
      <3> DEFINE sum == [s \in SUBSET U |-> IF s = {} THEN 0
                                            ELSE g[Pick(s)] + old[s \ {Pick(s)}]]
      <3>4. ASSUME NEW s \in SUBSET U, s # {}
            PROVE  /\ Pick(s) \in s /\ s \ {Pick(s)} \in SUBSET U /\ g[Pick(s)] \in Int
                   /\ Cardinality(s \ {Pick(s)}) = Cardinality(s) - 1
        <4>1. Pick(s) \in s
          BY <3>4 DEF Pick
        <4> QED
          BY <1>1, <4>1, FS_RemoveElement
      <3>5. sum \in [SUBSET U -> Int]
        <4>1. ASSUME NEW s \in SUBSET U, s # {} PROVE g[Pick(s)] + old[s \ {Pick(s)}] \in Int
          <5>1. old[s \ {Pick(s)}] \in Int /\ g[Pick(s)] \in Int
            BY <3>4, <4>1
          <5> QED
            BY <5>1
        <4> QED
          BY <4>1
      <3>6. ASSUME NEW s \in SUBSET U, Cardinality(s) <= Cardinality(u) - 1 PROVE sum[s] = old[s]
        BY <3>3, <3>6
      <3>7. ASSUME NEW s \in SUBSET U, Cardinality(s) <= Cardinality(u)
            PROVE  sum[s] = IF s = {} THEN 0 ELSE g[Pick(s)] + sum[s \ {Pick(s)}]
        <4>1. CASE s # {}
          <5>1. Cardinality(s \ {Pick(s)}) <= Cardinality(u) - 1
            BY <1>1, <3>4, <3>7, <4>1
          <5> QED
            BY <3>4, <3>6, <4>1, <5>1
        <4> QED
          BY <4>1
      <3> HIDE DEF sum
      <3> QED
        BY <3>5, <3>7
    <2> QED
      BY <2>1, <2>2
  <1> HIDE DEF G
  <1>3. G = SUBSET U
    <2>1. G \in SUBSET (SUBSET U)
      BY DEF G
    <2> QED
      BY <1>2, <2>1, SubsetInduction
  <1>4. PICK sum \in [SUBSET U -> Int] : Right(sum, Cardinality(U))
    <2>1. U \in G
      BY <1>3
    <2> QED
      BY <2>1 DEF G
  <1>5. \A s \in SUBSET U : Cardinality(s) <= Cardinality(U)
    BY FS_Subset
  <1> QED
    BY <1>4, <1>5 DEF Sums

\* The order of the sum does not matter.
LEMMA SumSplit ==
    ASSUME NEW U, IsFiniteSet(U), NEW g \in [U -> Int], NEW sum, Sums(g, U, sum),
           NEW s \in SUBSET U, NEW x \in s
    PROVE  sum[s] = g[x] + sum[s \ {x}]
  <1> DEFINE G == {u \in SUBSET U : \A y \in u : sum[u] = g[y] + sum[u \ {y}]}
  <1>1. ASSUME NEW u \in SUBSET U, \A t \in SUBSET u : t # u => t \in G PROVE u \in G
    <2> SUFFICES ASSUME NEW y \in u PROVE sum[u] = g[y] + sum[u \ {y}]
      OBVIOUS
    <2>1. PICK c \in u : c = Pick(u) /\ sum[u] = g[c] + sum[u \ {c}]
      BY DEF Pick, Sums
    <2>2. CASE c = y
      BY <2>1, <2>2
    <2>3. CASE c # y
      <3>1. u \ {c} \in G /\ u \ {y} \in G
        BY <1>1
      <3>2. PICK r \in SUBSET U : r = (u \ {c}) \ {y} /\ r = (u \ {y}) \ {c}
        OBVIOUS
      <3>3. sum[u \ {c}] = g[y] + sum[r]
        BY <2>3, <3>1, <3>2
      <3>4. sum[u \ {y}] = g[c] + sum[r]
        BY <2>3, <3>1, <3>2
      <3>5. sum[r] \in Int /\ g[c] \in Int /\ g[y] \in Int
        BY DEF Sums
      <3> QED
        BY <2>1, <3>3, <3>4, <3>5
    <2> QED
      BY <2>2, <2>3
  <1> HIDE DEF G
  <1>2. G = SUBSET U
    <2>1. G \in SUBSET (SUBSET U)
      BY DEF G
    <2> QED
      BY <1>1, <2>1, SubsetInduction
  <1> QED
    BY <1>2 DEF G

\* The sum depends on the values alone.
LEMMA SumSame ==
    ASSUME NEW U, IsFiniteSet(U), NEW g, NEW h, NEW sum, NEW tot,
           Sums(g, U, sum), Sums(h, U, tot),
           NEW s \in SUBSET U, \A x \in s : g[x] = h[x]
    PROVE  sum[s] = tot[s]
  <1> DEFINE G == {u \in SUBSET U : u \subseteq s => sum[u] = tot[u]}
  <1>1. ASSUME NEW u \in SUBSET U, \A t \in SUBSET u : t # u => t \in G PROVE u \in G
    <2>1. CASE u = {}
      BY <2>1 DEF Sums
    <2>2. CASE u # {}
      <3>1. PICK c \in u : c = Pick(u)
        BY <2>2 DEF Pick
      <3>2. sum[u] = g[c] + sum[u \ {c}]
        BY <2>2, <3>1 DEF Sums
      <3>3. tot[u] = h[c] + tot[u \ {c}]
        BY <2>2, <3>1 DEF Sums
      <3>4. u \ {c} \in G
        BY <1>1
      <3> QED
        BY <3>2, <3>3, <3>4
    <2> QED
      BY <2>1, <2>2
  <1> HIDE DEF G
  <1>2. G = SUBSET U
    <2>1. G \in SUBSET (SUBSET U)
      BY DEF G
    <2> QED
      BY <1>1, <2>1, SubsetInduction
  <1> QED
    BY <1>2 DEF G

\* Two elements can be taken out of the sum.
LEMMA SumTwo ==
    ASSUME NEW U, IsFiniteSet(U), NEW g \in [U -> Int], NEW sum, Sums(g, U, sum),
           NEW a \in U, NEW b \in U, a # b, NEW W \in SUBSET U, W = U \ {a, b}
    PROVE  sum[W] \in Int /\ sum[U] = g[a] + g[b] + sum[W]
  <1>1. PICK V \in SUBSET U : V = U \ {a} /\ b \in V /\ W = V \ {b}
    <2>1. U \ {a} \in SUBSET U /\ b \in U \ {a} /\ W = (U \ {a}) \ {b}
      OBVIOUS
    <2> QED
      BY <2>1
  <1>2. sum[U] = g[a] + sum[V]
    <2>1. U \in SUBSET U
      OBVIOUS
    <2> QED
      BY <1>1, <2>1, SumSplit
  <1>3. sum[V] = g[b] + sum[W]
    <2>1. b \in V
      BY <1>1
    <2>2. sum[V] = g[b] + sum[V \ {b}]
      BY <2>1, SumSplit
    <2> QED
      BY <1>1, <2>2
  <1>4. sum[W] \in Int /\ g[a] \in Int /\ g[b] \in Int
    BY DEF Sums
  <1> QED
    BY <1>2, <1>3, <1>4

\* Of two values that change, one gains what the other loses.
LEMMA SumKept ==
    ASSUME NEW U, IsFiniteSet(U), NEW g \in [U -> Int], NEW h \in [U -> Int],
           NEW sum, NEW tot, Sums(g, U, sum), Sums(h, U, tot),
           NEW a \in U, NEW b \in U, a # b, g[a] + g[b] = h[a] + h[b],
           \A x \in U \ {a, b} : g[x] = h[x]
    PROVE  sum[U] = tot[U]
  <1>1. PICK W \in SUBSET U : W = U \ {a, b}
    OBVIOUS
  <1>2. sum[W] = tot[W]
    BY <1>1, SumSame
  <1>3. sum[U] = g[a] + g[b] + sum[W]
    BY <1>1, SumTwo
  <1>4. tot[U] = h[a] + h[b] + tot[W]
    BY <1>1, SumTwo
  <1> QED
    BY <1>2, <1>3, <1>4

\* What solves the recursion of a fold is the sum.
LEMMA ChosenSum ==
    ASSUME NEW U, IsFiniteSet(U), NEW g \in [U -> Int], NEW it,
           it = [s \in SUBSET U |-> IF s = {} THEN 0 ELSE g[Pick(s)] + it[s \ {Pick(s)}]]
    PROVE  Sums(g, U, it)
  <1>1. PICK sum : Sums(g, U, sum)
    BY SumFound
  <1> DEFINE G == {u \in SUBSET U : sum[u] = it[u]}
  <1>2. ASSUME NEW u \in SUBSET U, \A t \in SUBSET u : t # u => t \in G PROVE u \in G
    <2>1. it[u] = IF u = {} THEN 0 ELSE g[Pick(u)] + it[u \ {Pick(u)}]
      OBVIOUS
    <2>2. sum[u] = IF u = {} THEN 0 ELSE g[Pick(u)] + sum[u \ {Pick(u)}]
      BY <1>1 DEF Sums
    <2>3. u # {} => u \ {Pick(u)} \in SUBSET u /\ u \ {Pick(u)} # u
      BY DEF Pick
    <2> QED
      BY <1>2, <2>1, <2>2, <2>3
  <1> HIDE DEF G
  <1>3. G = SUBSET U
    <2>1. G \in SUBSET (SUBSET U)
      BY DEF G
    <2> QED
      BY <1>2, <2>1, SubsetInduction
  <1>4. \A s \in SUBSET U : it[s] = sum[s]
    BY <1>3 DEF G
  <1>5. sum \in [SUBSET U -> Int]
    BY <1>1 DEF Sums
  <1>6. it = sum
    <2>1. it = [s \in SUBSET U |-> it[s]]
      OBVIOUS
    <2>2. sum = [s \in SUBSET U |-> sum[s]]
      BY <1>5
    <2> QED
      BY <1>4, <2>1, <2>2
  <1> QED
    BY <1>1, <1>6

\* The units of a kind are such a sum.
Share(kinds, sizes, k, e) == IF kinds[e] = k THEN sizes[e] ELSE 0
Shares(kinds, sizes, k) == [e \in Ent |-> Share(kinds, sizes, k, e)]
Total(kinds, sizes, k) ==
    MapThenSumSet(LAMBDA e : IF kinds[e] = k THEN sizes[e] ELSE 0, Ent)

LEMMA TotalSum ==
    ASSUME IsFiniteSet(Ent), NEW kinds, NEW sizes, NEW k, Shares(kinds, sizes, k) \in [Ent -> Int]
    PROVE  \E sum : Sums(Shares(kinds, sizes, k), Ent, sum) /\ Total(kinds, sizes, k) = sum[Ent]
  <1> DEFINE Iter(it) == [s \in SUBSET Ent |->
                 IF s = {} THEN 0
                 ELSE (IF kinds[CHOOSE x \in s : TRUE] = k THEN sizes[CHOOSE x \in s : TRUE] ELSE 0)
                      + it[s \ {CHOOSE x \in s : TRUE}]]
             Solved(it) == [s \in SUBSET Ent |->
                 IF s = {} THEN 0
                 ELSE Shares(kinds, sizes, k)[Pick(s)] + it[s \ {Pick(s)}]]
  <1>1. Total(kinds, sizes, k) = (CHOOSE it : it = Iter(it))[Ent]
    BY DEF Total, MapThenSumSet, MapThenFoldSet
  <1>2. ASSUME NEW it PROVE Iter(it) = Solved(it)
    <2>1. \A s \in SUBSET Ent : s # {} => Pick(s) \in Ent
      BY DEF Pick
    <2> QED
      BY <2>1 DEF Share, Shares, Pick
  <1>3. PICK sum : Sums(Shares(kinds, sizes, k), Ent, sum)
    BY SumFound
  <1>4. sum = Solved(sum)
    BY <1>3 DEF Sums
  <1>5. sum = Iter(sum)
    BY <1>2, <1>4
  <1> HIDE DEF Iter
  <1>6. PICK it : it = (CHOOSE jt : jt = Iter(jt)) /\ it = Iter(it)
    BY <1>5
  <1>7. it = Solved(it)
    BY <1>2, <1>6
  <1>8. Sums(Shares(kinds, sizes, k), Ent, it)
    BY <1>7, ChosenSum
  <1> QED
    BY <1>1, <1>6, <1>8

\* What one stack loses of a kind another gains, or nothing changes.
LEMMA TotalKept ==
    ASSUME NEW ks, NEW qs, NEW kt, NEW qt, NEW k,
           \A e \in Ent : Share(ks, qs, k, e) \in Int /\ Share(kt, qt, k, e) \in Int,
           \/ \A e \in Ent : Share(kt, qt, k, e) = Share(ks, qs, k, e)
           \/ \E a, b \in Ent :
                 /\ a # b
                 /\ Share(kt, qt, k, a) + Share(kt, qt, k, b)
                        = Share(ks, qs, k, a) + Share(ks, qs, k, b)
                 /\ \A e \in Ent \ {a, b} : Share(kt, qt, k, e) = Share(ks, qs, k, e)
    PROVE  Total(kt, qt, k) = Total(ks, qs, k)
  <1>1. PICK g \in [Ent -> Int] : /\ g = Shares(ks, qs, k)
                                 /\ \A e \in Ent : g[e] = Share(ks, qs, k, e)
    <2>1. Shares(ks, qs, k) \in [Ent -> Int]
      BY DEF Shares
    <2>2. \A e \in Ent : Shares(ks, qs, k)[e] = Share(ks, qs, k, e)
      BY DEF Shares
    <2> QED
      BY <2>1, <2>2
  <1>2. PICK h \in [Ent -> Int] : /\ h = Shares(kt, qt, k)
                                 /\ \A e \in Ent : h[e] = Share(kt, qt, k, e)
    <2>1. Shares(kt, qt, k) \in [Ent -> Int]
      BY DEF Shares
    <2>2. \A e \in Ent : Shares(kt, qt, k)[e] = Share(kt, qt, k, e)
      BY DEF Shares
    <2> QED
      BY <2>1, <2>2
  <1>3. PICK sum : Sums(g, Ent, sum) /\ Total(ks, qs, k) = sum[Ent]
    BY <1>1, TotalSum, EntitiesAssumption
  <1>4. PICK tot : Sums(h, Ent, tot) /\ Total(kt, qt, k) = tot[Ent]
    BY <1>2, TotalSum, EntitiesAssumption
  <1>5. CASE \A e \in Ent : Share(kt, qt, k, e) = Share(ks, qs, k, e)
    <2>1. Ent \in SUBSET Ent /\ \A e \in Ent : g[e] = h[e]
      BY <1>1, <1>2, <1>5
    <2>2. sum[Ent] = tot[Ent]
      BY <1>3, <1>4, <2>1, SumSame, EntitiesAssumption
    <2> QED
      BY <1>3, <1>4, <2>2
  <1>6. ASSUME NEW a \in Ent, NEW b \in Ent, a # b,
               Share(kt, qt, k, a) + Share(kt, qt, k, b)
                   = Share(ks, qs, k, a) + Share(ks, qs, k, b),
               \A e \in Ent \ {a, b} : Share(kt, qt, k, e) = Share(ks, qs, k, e)
        PROVE  Total(kt, qt, k) = Total(ks, qs, k)
    <2>1. g[a] + g[b] = h[a] + h[b] /\ \A e \in Ent \ {a, b} : g[e] = h[e]
      BY <1>1, <1>2, <1>6
    <2>2. sum[Ent] = tot[Ent]
      BY <1>3, <1>4, <1>6, <2>1, SumKept, EntitiesAssumption
    <2> QED
      BY <1>3, <1>4, <2>2
  <1> QED
    BY <1>5, <1>6

----------------------------------------------------------------------------
(* Units are moved about and neither made nor destroyed                    *)

LEMMA UnitsTotal ==
    ASSUME NEW k
    PROVE  Units(k) = Total(kind, qty, k) /\ Units(k)' = Total(kind', qty', k)
  BY DEF Units, Total, MapThenSumSet, MapThenFoldSet

\* One step does not change the units of a kind.
LEMMA UnitsKept ==
    ASSUME ItemTypes, ItemTypes', NEW k,
           \/ \A e \in Ent : Share(kind', qty', k, e) = Share(kind, qty, k, e)
           \/ \E a, b \in Ent :
                 /\ a # b
                 /\ Share(kind', qty', k, a) + Share(kind', qty', k, b)
                        = Share(kind, qty, k, a) + Share(kind, qty, k, b)
                 /\ \A e \in Ent \ {a, b} : Share(kind', qty', k, e) = Share(kind, qty, k, e)
    PROVE  Units(k)' = Units(k)
  <1>1. Units(k) = Total(kind, qty, k) /\ Units(k)' = Total(kind', qty', k)
    BY UnitsTotal
  <1>2. \A e \in Ent : Share(kind, qty, k, e) \in Int /\ Share(kind', qty', k, e) \in Int
    BY ItemsAssumption DEF ItemTypes, Share
  <1>3. Total(kind', qty', k) = Total(kind, qty, k)
    BY <1>2, TotalKept
  <1> QED
    BY <1>1, <1>3

\* The quantities and kinds of two stacks change, of the others not.
Others(a, b) == \A e \in Ent \ {a, b} : qty'[e] = qty[e] /\ kind'[e] = kind[e]

\* Units go from a stack to one of the same kind, or to a new one.
LEMMA UnitsMoved ==
    ASSUME ItemTypes, ItemTypes', NEW a \in Ent, NEW b \in Ent, a # b, NEW n \in Int,
           qty'[a] = qty[a] - n, qty'[b] = qty[b] + n, kind'[a] = kind[a], kind'[b] = kind[a],
           kind[b] = kind[a] \/ qty[b] = 0, Others(a, b), NEW k
    PROVE  Units(k)' = Units(k)
  <1>1. qty[a] \in Int /\ qty[b] \in Int
    BY ItemsAssumption DEF ItemTypes
  <1>2. Share(kind', qty', k, a) + Share(kind', qty', k, b)
            = Share(kind, qty, k, a) + Share(kind, qty, k, b)
    BY <1>1 DEF Share
  <1>3. \A e \in Ent \ {a, b} : Share(kind', qty', k, e) = Share(kind, qty, k, e)
    BY DEF Share, Others
  <1> QED
    BY <1>2, <1>3, UnitsKept

LEMMA UnitsStay ==
    ASSUME UNCHANGED <<kind, qty>>, NEW k
    PROVE  Units(k)' = Units(k)
  BY UnitsTotal

LEMMA TakeIntoConserves ==
    ASSUME ItemTypes, ItemTypes', Ownership, GoodStacks,
           NEW h \in Holder, NEW e \in Lying, TakeInto(h, e), NEW k
    PROVE  Units(k)' = Units(k)
  <1>1. PICK s \in Slot :
            /\ FirstRoom(h, e, s)
            /\ LET c == <<h, s>>
               IN  \/ HasData(held[c]) /\ Pour(e, held[c])
                   \/ ~Valid(held[c]) /\ Store(c, e)
                   \/ /\ Valid(held[c]) /\ ~HasData(held[c])
                      /\ UNCHANGED itemVars
    BY DEF TakeInto
  <1>2. PICK c \in Cell : c = <<h, s>>
    BY DEF Cell
  <1>3. e \in Ent /\ shown[e] /\ e \in Existing
    BY DEF Lying, Existing
  <1>4. ASSUME HasData(held[c]), Pour(e, held[c]) PROVE Units(k)' = Units(k)
    <2>1. PICK t \in Ent : t = held[c] /\ t # e /\ t \in Existing
      BY <1>3, <1>4, ItemsAssumption DEF ItemTypes, HasData, Ownership, SlotsHoldItems
    <2>2. kind[t] = kind[e]
      BY <1>1, <1>2, <1>4, <2>1 DEF FirstRoom, Room
    <2>3. /\ qty[e] \in Int /\ qty[t] \in Int /\ MaxQuantity[kind[e]] \in Int
      BY <1>3, <2>1, <2>2, ItemsAssumption DEF ItemTypes
    <2>4. PICK n \in Int : n = Least(qty[e], MaxQuantity[kind[e]] - qty[t])
      BY <2>3 DEF Least
    <2>5. qty' = [qty EXCEPT ![e] = @ - n, ![t] = @ + n] /\ kind' = kind
      BY <1>4, <2>1, <2>4 DEF Pour
    <2>6. qty'[e] = qty[e] - n /\ qty'[t] = qty[t] + n /\ Others(e, t)
      BY <1>3, <2>1, <2>5 DEF ItemTypes, Others
    <2> QED
      BY <1>3, <2>1, <2>2, <2>5, <2>6, UnitsMoved
  <1>5. CASE UNCHANGED <<kind, qty>>
    BY <1>5, UnitsStay
  <1> QED
    BY <1>1, <1>2, <1>4, <1>5 DEF Store, itemVars

LEMMA DropConserves ==
    ASSUME ItemTypes, ItemTypes', FrameTypes, Ownership, GoodStacks, NEW p \in Player,
           CanDrop(p), DropStack(p), NEW k
    PROVE  Units(k)' = Units(k)
  <1>1. PICK c \in Cell : c = DropCell(p)
    BY DEF CanDrop, DropCell, Box, Cell, Holder, FrameTypes, InputType
  <1>2. PICK e \in Ent : e = held[c]
    BY <1>1, ItemsAssumption DEF CanDrop, HasData, ItemTypes
  <1>3. e \in Existing
    BY <1>2, ItemsAssumption DEF Ownership, SlotsHoldItems
  <1>4. PICK n \in 1 .. qty[e] : n = DroppedCount(p, qty[e])
    <2>1. qty[e] \in 1 .. Wrap - 1 /\ DroppedCount(p, qty[e]) > 0
      BY <1>1, <1>2, ItemsAssumption DEF CanDrop, HasData, ItemTypes
    <2> QED
      BY <2>1, DroppedRange
  <1>5. CASE UNCHANGED <<kind, qty>>
    BY <1>5, UnitsStay
  <1>6. ASSUME NEW te \in Fresh,
               kind' = [kind EXCEPT ![te] = kind[e]], qty'  = [qty EXCEPT ![e] = @ - n, ![te] = n]
        PROVE  Units(k)' = Units(k)
    <2>1. te \in Ent /\ te # e /\ qty[te] = 0
      BY <1>3 DEF Fresh, Existing, GoodStacks, Stacked
    <2>2. /\ qty'[e] = qty[e] - n /\ qty'[te] = qty[te] + n /\ Others(e, te)
          /\ kind'[e] = kind[e] /\ kind'[te] = kind[e] /\ n \in Int
      BY <1>6, <2>1 DEF ItemTypes, Others
    <2> QED
      BY <2>1, <2>2, UnitsMoved
  <1> QED
    BY <1>1, <1>2, <1>4, <1>5, <1>6 DEF DropStack

LEMMA MoveConserves ==
    ASSUME ItemTypes, ItemTypes', FrameTypes, Ownership, GoodStacks,
           NEW p \in Player, ~input[p].sprint,
           NEW from \in Cell, NEW to \in Cell, HasData(held[from]),
           MoveBetween(p, from, to), NEW k
    PROVE  Units(k)' = Units(k)
  <1>1. PICK a \in Ent, b \in Ent \cup {NoEnt} : a = held[from] /\ b = held[to]
    BY ItemsAssumption DEF HasData, ItemTypes
  <1>2. a \in Existing /\ (b \in Ent => b \in Existing)
    BY <1>1, ItemsAssumption DEF Ownership, SlotsHoldItems
  <1>3. /\ qty[a] \in 1 .. MaxQuantity[kind[a]]
        /\ MaxQuantity[kind[a]] \in 1 .. Wrap - 1 /\ Wrap \in Nat
    BY <1>2, ItemsAssumption DEF GoodStacks, Stacked, ItemTypes
  <1>4. CASE UNCHANGED <<kind, qty>>
    BY <1>4, UnitsStay
  <1>5. ASSUME from # to, HasData(b), kind[a] = kind[b], qty[b] > 0, MergeStacks(p, from, a, b)
        PROVE  Units(k)' = Units(k)
    <2>1. b \in Ent /\ a # b
      BY <1>1, <1>5, ItemsAssumption DEF HasData, Ownership, ExclusiveOwnership
    <2>2. qty[b] \in 1 .. MaxQuantity[kind[a]]
      BY <1>2, <1>5, <2>1 DEF GoodStacks, Stacked
    <2>3. PICK n \in Int : /\ n = SwappedCount(p, a, b) /\ n \in 0 .. qty[a]
                           /\ qty[b] + n <= MaxQuantity[kind[a]]
      BY <1>3, <1>5, <2>1, <2>2, SwappedFits
    <2>4. qty' = [qty EXCEPT ![a] = (@ - n) % Wrap, ![b] = (@ + n) % Wrap] /\ kind' = kind
      BY <1>5, <2>3 DEF MergeStacks
    <2>5. (qty[a] - n) % Wrap = qty[a] - n /\ (qty[b] + n) % Wrap = qty[b] + n
      <3>1. qty[a] - n \in 0 .. Wrap - 1 /\ qty[b] + n \in 0 .. Wrap - 1
        BY <1>3, <2>2, <2>3
      <3> QED
        BY <1>3, <3>1
    <2>6. qty'[a] = qty[a] - n /\ qty'[b] = qty[b] + n /\ Others(a, b)
      BY <2>1, <2>4, <2>5 DEF ItemTypes, Others
    <2> QED
      BY <1>5, <2>1, <2>4, <2>6, UnitsMoved
  <1>6. ASSUME SplitStack(p, to, a) PROVE Units(k)' = Units(k)
    <2>1. PICK n \in Int : n = SplitCount(p, a)
      BY <1>3 DEF SplitCount
    <2>2. ASSUME NEW te \in Fresh, kind' = [kind EXCEPT ![te] = kind[a]],
                 qty' = [qty EXCEPT ![a] = @ - n, ![te] = n]
          PROVE  Units(k)' = Units(k)
      <3>1. te \in Ent /\ te # a /\ qty[te] = 0
        BY <1>2 DEF Fresh, Existing, GoodStacks, Stacked
      <3>2. /\ qty'[a] = qty[a] - n /\ qty'[te] = qty[te] + n /\ Others(a, te)
            /\ kind'[a] = kind[a] /\ kind'[te] = kind[a]
        BY <2>2, <3>1 DEF ItemTypes, Others
      <3> QED
        BY <3>1, <3>2, UnitsMoved
    <2> QED
      BY <1>4, <1>6, <2>1, <2>2 DEF SplitStack, itemVars
  <1> QED
    BY <1>1, <1>4, <1>5, <1>6 DEF MoveBetween, ExchangeCells, itemVars

\* Within a frame, only using an item changes how many there are of a kind.
LEMMA StepConserves ==
    ASSUME Gentle, IInv, IInv', KeysInv, GoodStacks, [Next]_vars, stage \notin {"net", "use"},
           NEW k \in Kind
    PROVE  Units(k)' = Units(k)
  <1>1. ItemTypes /\ FrameTypes /\ Ownership /\ ItemTypes'
    BY Types DEF IInv, TypeOK, ItemTypes, FrameTypes
  <1>2. CASE UNCHANGED <<kind, qty>>
    BY <1>2, UnitsStay
  <1>3. ASSUME NEW p \in Player, PickItem(p) PROVE Units(k)' = Units(k)
    BY <1>1, <1>2, <1>3, TakeIntoConserves DEF PickItem, Holder, itemVars
  <1>4. ASSUME NEW h \in Container, HarvestIntoContainers(h) PROVE Units(k)' = Units(k)
    BY <1>1, <1>2, <1>4, TakeIntoConserves DEF HarvestIntoContainers, Holder, itemVars
  <1>5. ASSUME NEW p \in Player, DropItem(p) PROVE Units(k)' = Units(k)
    BY <1>1, <1>2, <1>5, DropConserves DEF DropItem, itemVars
  <1>6. ASSUME NEW p \in Player, SwapItems(p) PROVE Units(k)' = Units(k)
    <2>1. stage = "swap" /\ p \in todo
      BY <1>6 DEF SwapItems, Turn
    <2>2. CASE CanSwap(p)
      <3>1. FromCell(p) \in Cell /\ ToCell(p) \in Cell
        BY <1>1, <2>2, SwapCells
      <3>2. HasData(held[FromCell(p)]) /\ MoveBetween(p, FromCell(p), ToCell(p))
        BY <1>6, <2>2 DEF SwapItems, CanSwap
      <3>3. ~input[p].sprint
        BY <1>1, <2>1, GentleKeys DEF KeysInv
      <3> QED
        BY <1>1, <3>1, <3>2, <3>3, MoveConserves
    <2>3. CASE ~CanSwap(p)
      BY <1>2, <1>6, <2>3 DEF SwapItems, itemVars
    <2> QED
      BY <2>2, <2>3
  <1>7. CASE Merge
    <2>1. \A e \in Ent : /\ life[e] = "dying" => qty[e] = 0 /\ qty'[e] = 0
                         /\ life[e] # "dying" => kind'[e] = kind[e] /\ qty'[e] = qty[e]
      BY <1>7 DEF Merge, GoodStacks, Stacked, Existing
    <2>2. \A e \in Ent : Share(kind', qty', k, e) = Share(kind, qty, k, e)
      BY <2>1 DEF Share
    <2> QED
      BY <1>1, <2>2, UnitsKept
  <1>8. ASSUME NEW p \in Player, InspectContainers(p) PROVE Units(k)' = Units(k)
    BY <1>2, <1>8 DEF InspectContainers, itemVars
  <1>9. /\ \A p \in Player : ~UseItem(p) /\ ~CoolDown(p) /\ ~Leave(p)
                             /\ \A m \in Inputs : ~Keystate(p, m)
        /\ \A e \in Ent, j \in Kind, q \in SpawnQty : ~SpawnItem(e, j, q)
    BY DEF UseItem, Turn, CoolDown, Leave, Keystate, SpawnItem
  <1> QED
    BY <1>2, <1>3, <1>4, <1>5, <1>6, <1>7, <1>8, <1>9 DEF Next, NextSystem, vars, itemVars

\* However many stacks there are and whoever picks, drops, drags, splits and
\* harvests, gentle clients neither gain nor lose a unit of any kind.
THEOREM UnitsAreConserved == Gentle /\ Spec => Conservation
  <1>1. ASSUME Gentle PROVE Spec => Conservation
    <2>1. StackInv /\ StackInv' /\ [Next]_vars
              => [stage \notin {"net", "use"} => \A k \in Kind : Units(k)' = Units(k)]_vars
      <3> SUFFICES ASSUME StackInv, StackInv', [Next]_vars, stage \notin {"net", "use"},
                          NEW k \in Kind
                   PROVE  Units(k)' = Units(k)
        OBVIOUS
      <3> QED
        BY <1>1, StepConserves DEF StackInv
    <2>2. StackInv /\ [Next]_vars => StackInv'
      BY <1>1, StepStacks
    <2> QED
      BY <2>1, <2>2, InitStacks, PTL DEF Spec, Conservation
  <1> QED
    BY <1>1

=============================================================================
