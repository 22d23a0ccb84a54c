----------------------------- MODULE Streaming -----------------------------
(***************************************************************************)
(* What the server streams and what a client makes of it:                  *)
(* foundation/src/world/world.c (world_tracker_update and the librg write  *)
(* callbacks) and foundation/src/world/world_view.c (the read callbacks).  *)
(*                                                                         *)
(* Every frame runs up to three passes, one per layer, each with a wider   *)
(* radius and a slower timer.  A pass visits the active viewers one after  *)
(* the other and sends each a message.  Only the widest pass creates and   *)
(* removes; the others can only update what the viewer already has.  A     *)
(* chunk is sent again only when it is dirty, and building its view makes  *)
(* it clean.                                                               *)
(***************************************************************************)
EXTENDS Integers, Sequences

CONSTANTS
    Viewer,         \* player entities with a ClientInfo
    Peer,           \* connections; one may carry several viewers
    PeerOf,         \* ClientInfo.peer of each viewer
    Chunk,          \* chunk entities: never move, never despawn
    Mover,          \* every other streamed entity
    Override,       \* the movers with a StreamLayerOverride for layer 0
    None,           \* the viewer does not have the entity
    MaxVersion,     \* bound: times an entity changes
    MaxWire         \* bound: a frame begins with fewer messages on a wire

ASSUME StreamingAssumption ==
    /\ PeerOf \in [Viewer -> Peer]
    /\ Chunk \cap Mover = {} /\ Override \subseteq Mover
    /\ MaxVersion \in Nat /\ MaxWire \in Nat \ {0}
    /\ None \notin Nat

Thing == Chunk \cup Mover
Version == 0 .. MaxVersion
Layer == 0 .. 2                     \* WORLD_TRACKER_LAYERS
Ring == 1 .. 4                      \* 4 is outside of every pass

VARIABLES
    ring,       \* the smallest radius at which a viewer sees an entity
    version,    \* what is in the entity now
    dirty,      \* Chunk.is_dirty
    streams,    \* the movers entity_can_stream lets through
    hidden,     \* LIBRG_VISIBLITY_NEVER: items in an inventory
    tracked,    \* the entities librg tracks
    active,     \* ClientInfo.active
    pass,       \* the layer being written, 3 between frames
    turn,       \* the viewers this pass has still to write
    cache,      \* streamer_snapshot: is_dirty of the chunk views it holds
    known,      \* librg's snapshot of a viewer, and the version last sent
    wire,       \* messages on the way, the channel is reliable and ordered
    table,      \* world_view.entities of the client
    recent      \* entity_view.layer_id of what was updated since the client's
                \* frame began, None for the rest (last_update is older)

vars == <<ring, version, dirty, streams, hidden, tracked, active, pass, turn,
          cache, known, wire, table, recent>>

world == <<ring, version, hidden, tracked, active>>
client == <<table, recent>>

Has(v, x) == known[v][x] # None
Between == pass = 3

----------------------------------------------------------------------------
(* The world changes: packets and the systems of ecs_progress              *)

\* Mutant: the block is written and the chunk not marked.
Change_Clean(x) ==
    /\ Between
    /\ x \in tracked
    /\ version[x] < MaxVersion
    /\ version' = [version EXCEPT ![x] = @ + 1]
    /\ streams' = IF x \in Mover THEN streams \cup {x} ELSE streams
    /\ UNCHANGED <<ring, dirty, hidden, tracked, active, pass, turn, cache,
                   known, wire, client>>

\* world_chunk_mark_dirty after a block changed, entity_wake after anything
\* else did.
Change(x) ==
    /\ Between
    /\ x \in tracked
    /\ version[x] < MaxVersion
    /\ version' = [version EXCEPT ![x] = @ + 1]
    /\ dirty' = IF x \in Chunk THEN dirty \cup {x} ELSE dirty
    /\ streams' = IF x \in Mover THEN streams \cup {x} ELSE streams
    /\ UNCHANGED <<ring, hidden, tracked, active, pass, turn, cache, known,
                   wire, client>>

\* The viewer or the entity moves to another librg chunk.
Move(v, x, r) ==
    /\ Between
    /\ ring' = [ring EXCEPT ![v][x] = r]
    /\ UNCHANGED <<version, dirty, streams, hidden, tracked, active, pass,
                   turn, cache, known, wire, client>>

\* item_show, as an item enters or leaves an inventory.
Show(x) ==
    /\ Between
    /\ x \in tracked \cap Mover
    /\ hidden' = (hidden \ {x}) \cup ({x} \ hidden)
    /\ UNCHANGED <<ring, version, dirty, streams, tracked, active, pass, turn,
                   cache, known, wire, client>>

\* entity_despawn.
Despawn(x) ==
    /\ Between
    /\ x \in tracked \cap Mover
    /\ tracked' = tracked \ {x}
    /\ streams' = streams \ {x}
    /\ UNCHANGED <<ring, version, dirty, hidden, active, pass, turn, cache,
                   known, wire, client>>

\* pkt_switch_viewer_handler: one viewer of the peer is active.
SwitchViewer(v) ==
    /\ Between
    /\ active' = {v} \cup {w \in active : PeerOf[w] # PeerOf[v]}
    /\ UNCHANGED <<ring, version, dirty, streams, hidden, tracked, pass, turn,
                   cache, known, wire, client>>

----------------------------------------------------------------------------
(* world_update                                                            *)

\* world_snapshot_clear and the setting of active_layer_id.
Enter(p) ==
    /\ pass' = p
    /\ turn' = IF p \in Layer THEN active ELSE {}
    /\ cache' = [c \in Chunk |-> "none"]

BeginFrame ==
    /\ Between
    /\ \A v \in Viewer : Len(wire[v]) < MaxWire
    /\ Enter(0)
    /\ UNCHANGED <<world, dirty, streams, known, wire, client>>

\* The timer of the pass has not elapsed.
SkipPass ==
    /\ pass \in Layer /\ turn = active
    /\ Enter(pass + 1)
    /\ streams' \in IF pass = 2 THEN SUBSET (Mover \cap tracked) ELSE {streams}
    /\ UNCHANGED <<world, dirty, known, wire, client>>

\* Every viewer has been written; after the last pass
\* entity_update_action_timers decides who may stream in the next frame.
EndPass ==
    /\ pass \in Layer /\ turn = {}
    /\ Enter(pass + 1)
    /\ streams' \in IF pass = 2 THEN SUBSET (Mover \cap tracked) ELSE {streams}
    /\ UNCHANGED <<world, dirty, known, wire, client>>

\* librg_world_query: an entity that overrides this layer is made visible to
\* everybody for the time of the pass.
Visible(v, x) ==
    /\ x \in tracked
    /\ \/ x \in Override /\ pass = 0
       \/ x \notin hidden /\ ring[v][x] <= pass + 1

\* The callbacks reject CREATE and REMOVE below the last layer.
Widest == pass = 2
Created(v) == {x \in Thing : Widest /\ Visible(v, x) /\ ~Has(v, x)}

\* Mutant: an entity that is no longer tracked is not looked at.
Removed_Tracked(v) ==
    {x \in tracked : Widest /\ ~Visible(v, x) /\ Has(v, x)}

Removed(v) == {x \in Thing : Widest /\ ~Visible(v, x) /\ Has(v, x)}

\* world_build_entity_view: the first view of a chunk in a pass takes the
\* flag with it, later ones come from the cache.
DirtyView(c) == IF cache[c] = "none" THEN c \in dirty ELSE cache[c] = "dirty"

\* tracker_write_update.
Streamable(x) == IF x \in Chunk THEN DirtyView(x) ELSE x \in streams
Updated(v) == {x \in Thing : Visible(v, x) /\ Has(v, x) /\ Streamable(x)}

\* The chunks whose view is built: for a CREATE, and for an UPDATE before the
\* callback looks at the flag.
Built(v) == {c \in Chunk : Visible(v, c) /\ (Widest \/ Has(v, c))}

\* Mutant: the REMOVE is rejected in every layer and forgotten all the same.
Message_NoRemove(v) ==
    [layer |-> pass, create |-> Created(v), update |-> Updated(v),
     remove |-> {}, data |-> [x \in Created(v) \cup Updated(v) |-> version[x]]]

Message(v) ==
    [layer |-> pass, create |-> Created(v), update |-> Updated(v),
     remove |-> Removed(v),
     data |-> [x \in Created(v) \cup Updated(v) |-> version[x]]]

\* Mutant: the packet is not reliable and overtakes the ones before it.
Sent_Overtakes(v) == <<Message(v)>> \o wire[v]

\* pkt_send_librg_update: reliable, on channel 0.
Sent(v) == Append(wire[v], Message(v))

\* librg_world_write for one viewer and the sending of its buffer.
WriteViewer(v) ==
    /\ pass \in Layer /\ v \in turn
    /\ turn' = turn \ {v}
    /\ cache' = [c \in Chunk |->
                   IF c \notin Built(v) THEN cache[c]
                   ELSE IF DirtyView(c) THEN "dirty" ELSE "clean"]
    /\ dirty' = dirty \ {c \in Built(v) : cache[c] = "none"}
    /\ known' = [known EXCEPT ![v] = [x \in Thing |->
                   IF x \in Removed(v) THEN None
                   ELSE IF x \in Created(v) \cup Updated(v) THEN version[x]
                   ELSE known[v][x]]]
    /\ wire' = IF Created(v) \cup Updated(v) \cup Removed(v) = {} THEN wire
               ELSE [wire EXCEPT ![v] = Sent(v)]
    /\ UNCHANGED <<world, streams, pass, client>>

----------------------------------------------------------------------------
(* The client                                                              *)

Present(v) == {x \in Thing : table[v][x] # None}

\* tracker_read_update: a view taken from a faster layer is left alone only
\* when the update comes within 0.05 ms of it, which takes the same frame of
\* the client and depends on the fraction of its clock.
MayReject(v, x, m) == recent[v][x] # None /\ recent[v][x] < m.layer

\* librg_world_read: CREATE for what is not tracked, UPDATE and REMOVE for
\* what is.
Creating(v) == Head(wire[v]).create \ Present(v)
Updating(v, rejecting) ==
    {x \in Head(wire[v]).update \cap Present(v) :
       ~(rejecting /\ MayReject(v, x, Head(wire[v])))}
Removing(v) == Head(wire[v]).remove \cap Present(v)

\* pkt_send_librg_update_handler.
Read(v) ==
    /\ wire[v] # <<>>
    /\ \E rejecting \in BOOLEAN :
         LET taken == Creating(v) \cup Updating(v, rejecting)
         IN  /\ table' = [table EXCEPT ![v] = [x \in Thing |->
                            IF x \in Removing(v) THEN None
                            ELSE IF x \in taken THEN Head(wire[v]).data[x]
                            ELSE table[v][x]]]
             /\ recent' = [recent EXCEPT ![v] = [x \in Thing |->
                             IF x \in Creating(v) \cup Removing(v) THEN None
                             ELSE IF x \in taken THEN Head(wire[v]).layer
                             ELSE recent[v][x]]]
    /\ wire' = [wire EXCEPT ![v] = Tail(@)]
    /\ UNCHANGED <<world, dirty, streams, pass, turn, cache, known>>

\* The next frame of the client: its clock moves on.
ClientFrame(v) ==
    /\ \E x \in Thing : recent[v][x] # None
    /\ recent' = [recent EXCEPT ![v] = [x \in Thing |-> None]]
    /\ UNCHANGED <<world, dirty, streams, pass, turn, cache, known, wire, table>>

----------------------------------------------------------------------------

Init ==
    /\ ring \in [Viewer -> [Thing -> {4}]]
    /\ version = [x \in Thing |-> 0]
    /\ dirty = {} /\ streams = Mover /\ hidden = {} /\ tracked = Thing
    /\ active = {}
    /\ pass = 3 /\ turn = {} /\ cache = [c \in Chunk |-> "none"]
    /\ known = [v \in Viewer |-> [x \in Thing |-> None]]
    /\ wire = [v \in Viewer |-> <<>>]
    /\ table = [v \in Viewer |-> [x \in Thing |-> None]]
    /\ recent = [v \in Viewer |-> [x \in Thing |-> None]]

World ==
    \/ \E x \in Thing : Change(x)
    \/ \E v \in Viewer, x \in Thing, r \in Ring : Move(v, x, r)
    \/ \E x \in Mover : Show(x)
    \/ \E x \in Mover : Despawn(x)
    \/ \E v \in Viewer : SwitchViewer(v)

Frame ==
    \/ BeginFrame
    \/ SkipPass
    \/ EndPass
    \/ \E v \in Viewer : WriteViewer(v)

Client ==
    \/ \E v \in Viewer : Read(v)
    \/ \E v \in Viewer : ClientFrame(v)

Next == World \/ Frame \/ Client

Spec == Init /\ [][Next]_vars

\* The main loop never stops, the timer of the widest pass keeps elapsing,
\* the channel delivers.
FairSpec ==
    /\ Spec
    /\ WF_vars(Frame)
    /\ \A v \in Viewer :
         /\ SF_vars(pass = 2 /\ WriteViewer(v))
         /\ WF_vars(Read(v))

----------------------------------------------------------------------------
(* Properties                                                              *)

MessageType ==
    {m \in [layer : Layer, create : SUBSET Thing, update : SUBSET Thing,
            remove : SUBSET Thing,
            data : UNION {[S -> Version] : S \in SUBSET Thing}] :
        DOMAIN m.data = m.create \cup m.update}

\* Every variable stays in its domain.
TypeOK ==
    /\ ring \in [Viewer -> [Thing -> Ring]]
    /\ version \in [Thing -> Version]
    /\ dirty \subseteq Chunk /\ streams \subseteq Mover
    /\ hidden \subseteq Mover /\ tracked \subseteq Thing
    /\ active \subseteq Viewer /\ turn \subseteq active
    /\ pass \in 0 .. 3 /\ (Between => turn = {})
    /\ cache \in [Chunk -> {"none", "clean", "dirty"}]
    /\ known \in [Viewer -> [Thing -> Version \cup {None}]]
    /\ wire \in [Viewer -> Seq(MessageType)]
    /\ table \in [Viewer -> [Thing -> Version \cup {None}]]
    /\ recent \in [Viewer -> [Thing -> Layer \cup {None}]]

\* The server does not forget a block change: a viewer that has the chunk was
\* sent what is in it, or the chunk is still dirty.
NoChangeLost ==
    \A v \in Viewer, c \in Chunk :
        Has(v, c) => known[v][c] = version[c] \/ c \in dirty

\* What the client has once everything on the way has arrived.
Will(v, x) ==
    LET about == {i \in DOMAIN wire[v] :
                    x \in wire[v][i].create \cup wire[v][i].remove}
    IN  IF about = {} THEN x \in Present(v)
        ELSE LET last == CHOOSE i \in about : \A j \in about : j <= i
             IN  x \in wire[v][last].create

\* The server's record of a viewer is what that viewer will have: neither an
\* entity left behind on the client nor one it is never told about.
SnapshotMatches ==
    \A v \in Viewer, x \in Thing : Has(v, x) <=> Will(v, x)

\* tracker_read_remove looks its entity up without a check; no message
\* creates what the client has, or updates or removes what it has not.
MessagesApply ==
    \A v \in Viewer : wire[v] # <<>> =>
        LET m == Head(wire[v])
        IN  /\ m.create \cap Present(v) = {}
            /\ m.update \cup m.remove \subseteq Present(v)

\* A client never goes back to an older state of an entity it keeps.
NeverBack ==
    [][\A v \in Viewer, x \in Thing :
         table[v][x] # None /\ table'[v][x] # None
            => table'[v][x] >= table[v][x]]_vars

\* An item put into an inventory and an entity that is despawned disappear
\* from the screen of an active viewer.
GhostsFade ==
    \A v \in Viewer, x \in Mover :
        (x \in hidden \/ x \notin tracked) /\ v \in active
            ~> \/ table[v][x] = None \/ v \notin active
               \/ x \in tracked /\ x \notin hidden

=============================================================================
