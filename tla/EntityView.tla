----------------------------- MODULE EntityView -----------------------------
(***************************************************************************)
(* What a client is told of an entity: the descriptor of entity_view.c and *)
(* the records world_build_entity_view fills in from an entity's           *)
(* components.                                                             *)
(***************************************************************************)
EXTENDS Integers, Sequences

CONSTANTS
    ArrayLen,   \* bytes of an array, for all of them
    Bytes       \* what arrays may hold

ASSUME EntityViewAssumption ==
    ArrayLen \in Nat \ {0} /\ Bytes \subseteq [1 .. ArrayLen -> Nat]

\* PKT_UINT, PKT_HALF, PKT_ARRAY, PKT_KEEP_IF and PKT_SKIP_IF.
UInt(f) == [field |-> f, type |-> "uint", size |-> 1, skip |-> 0, eq |-> 0]
Half(f) == [field |-> f, type |-> "half", size |-> 1, skip |-> 0, eq |-> 0]
Array(f) == [field |-> f, type |-> "bin", size |-> ArrayLen, skip |-> 0, eq |-> 0]
SkipIf(f, e, n) == [field |-> f, type |-> "uint", size |-> 1, skip |-> n, eq |-> e]
KeepIf(f, e, n) == SkipIf(f, e, -n)

\* entity_kind; kinds that no condition and no component tells apart from
\* EKIND_PLAYER are left out.
EKIND_PLAYER == 1
EKIND_ITEM == 2
EKIND_DEVICE == 3
EKIND_VEHICLE == 6
EKIND_CHUNK == 10

ViewHead ==
    << UInt("kind"), UInt("flag"), Half("x"), Half("y"), Half("hx"), Half("hy"), Half("angle"),
       KeepIf("blocks_used", 0, 2), Half("vx"), Half("vy"),
       SkipIf("blocks_used", 0, 3), UInt("chk_id"), Array("blocks"), Array("outer_blocks"),
       KeepIf("blocks_used", 0, 2), Half("hp"), Half("max_hp") >>

ViewTail ==
    << KeepIf("kind", EKIND_ITEM, 2), UInt("asset"), UInt("quantity"), Half("durability"),
       KeepIf("kind", EKIND_DEVICE, 3), UInt("asset"), UInt("progress_active"), UInt("is_producer"),
       Half("progress_value"), UInt("spritesheet"), UInt("frame"),
       KeepIf("has_items", 1, 3), UInt("has_items"), UInt("selected_item"), Array("items"),
       UInt("pick_ent"), UInt("sel_ent"),
       KeepIf("has_storage_items", 1, 4), UInt("has_storage_items"), UInt("storage_selected_item"),
       Array("storage_items"), Array("craftables") >>

\* Mutant: all three fields of a vehicle are kept for vehicles only.
pkt_entity_view_desc_Three ==
    ViewHead \o << KeepIf("kind", EKIND_VEHICLE, 3),
                Half("heading"), UInt("inside_vehicle"), UInt("veh_kind") >> \o ViewTail

\* "Keep for vehicles" covers heading alone; the other two are always sent.
pkt_entity_view_desc ==
    ViewHead \o << KeepIf("kind", EKIND_VEHICLE, 1),
                Half("heading"), UInt("inside_vehicle"), UInt("veh_kind") >> \o ViewTail

Arrays == {"blocks", "outer_blocks", "items", "storage_items", "craftables"}
Fields == {pkt_entity_view_desc[i].field : i \in DOMAIN pkt_entity_view_desc}

\* entity_view view = {0}.
NoView == [f \in Fields |-> IF f \in Arrays THEN [k \in 1 .. ArrayLen |-> 0] ELSE <<0>>]

\* The fields world_build_entity_view sets for a component.
SetBy(c) ==
    CASE c = "Position" -> {"x", "y"}
      [] c = "Velocity" -> {"flag", "vx", "vy"}
      [] c = "Rotation" -> {"angle"}
      [] c = "Health" -> {"hp", "max_hp"}
      [] c = "Vehicle" -> {"heading", "veh_kind"}
      [] c = "Item" -> {"asset", "quantity", "durability"}
      [] c = "Device" -> {"asset", "progress_active", "progress_value"}
      [] c = "Producer" -> {"is_producer"}
      [] c = "Sprite" -> {"spritesheet", "frame"}
      [] c = "Input" -> {"hx", "hy"}
      [] c = "IsInVehicle" -> {"inside_vehicle"}
      [] c = "Inventory" -> {"has_items", "items", "selected_item", "pick_ent", "sel_ent"}
      [] c = "OpenStorage" -> {"has_storage_items", "storage_items", "storage_selected_item"}
      [] c = "OpenProducer" -> {"craftables"}
      [] c = "Chunk" -> {"chk_id", "x", "y", "blocks_used", "blocks", "outer_blocks"}

Flags == {"flag", "blocks_used", "has_items", "has_storage_items", "inside_vehicle", "is_producer"}

\* A number a field may have and no other field has.
Datum(f) == 100 + CHOOSE i \in DOMAIN pkt_entity_view_desc : pkt_entity_view_desc[i].field = f

Built(kind, comps, bytes) ==
    LET filled == UNION {SetBy(c) : c \in comps}
    IN  [f \in Fields |-> IF f = "kind" THEN <<kind>>
                          ELSE IF f \notin filled THEN NoView[f]
                          ELSE IF f \in Arrays THEN bytes
                          ELSE IF f \in Flags THEN <<1>> ELSE <<Datum(f)>>]

\* The components the spawning code gives an entity of a kind, and those it
\* may have.  entity_spawn adds Position and Velocity to all but chunks.
Always(kind) ==
    CASE kind = EKIND_PLAYER -> {"Position", "Velocity", "Health", "Input", "Inventory"}
      [] kind = EKIND_ITEM -> {"Position", "Velocity", "Item"}
      [] kind = EKIND_DEVICE -> {"Position", "Velocity", "Device"}
      [] kind = EKIND_VEHICLE -> {"Position", "Velocity", "Vehicle"}
      [] kind = EKIND_CHUNK -> {"Chunk"}

Sometimes(kind) ==
    CASE kind = EKIND_PLAYER -> {"IsInVehicle", "OpenStorage", "OpenProducer", "Sprite"}
      [] kind = EKIND_DEVICE -> {"Producer"}
      [] OTHER -> {}

\* The craftables of a producer are listed only while its storage is open.
EntityViews ==
    UNION {{Built(kind, Always(kind) \cup more, bytes) :
              more \in {m \in SUBSET Sometimes(kind) : "OpenProducer" \in m => "OpenStorage" \in m},
              bytes \in Bytes} :
           kind \in {EKIND_PLAYER, EKIND_ITEM, EKIND_DEVICE, EKIND_VEHICLE, EKIND_CHUNK}}
=============================================================================
