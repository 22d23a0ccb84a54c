------------------------------- MODULE Session -------------------------------
(***************************************************************************)
(* Joining, switching between the viewers of a client, and leaving:        *)
(* foundation/src/net/network_enet.c, the INIT, WELCOME and SWITCH_VIEWER  *)
(* packets and the world views of core/game.c.                             *)
(*                                                                         *)
(* A client has a fixed number of world views and asks the server for a    *)
(* player entity for each.  Which view is shown is decided by the client,  *)
(* which view is streamed by the server; nothing but the order of the      *)
(* messages keeps the two together.  All messages are reliable, those to   *)
(* the server share channel 1 and those to the client channel 0.           *)
(*                                                                         *)
(* The server finds the player entities of a connection by iterating over  *)
(* the rows of the flecs tables that have a ClientInfo, one table for each *)
(* set of components, and deletes them while it iterates.                  *)
(***************************************************************************)
EXTENDS Integers, Sequences, SequencesExt

CONSTANTS
    Peer,       \* ENetPeer slots of the server
    Views,      \* game_world_view_count() of a client
    Table,      \* flecs tables a player entity can be in
    Joining,    \* the one new players are in
    MaxUp,      \* bound: switches and key states on the way when a client sends one
    MaxDown     \* bound: messages to a client before it is sent an update

ASSUME SessionAssumption ==
    /\ Views \in Nat \ {0} /\ Joining \in Table
    /\ MaxUp \in Nat /\ MaxDown \in Nat

View == 0 .. Views - 1
Row == [peer : Peer, view : View, active : BOOLEAN]     \* ClientInfo

VARIABLES
    rows,       \* the rows of each table, in order
    link,       \* what is at the other end of the peer
    up,         \* messages on the way to the server
    down,       \* messages on the way to the client
    welcomed,   \* the views the client has initialised
    shown       \* active_viewer of the client

vars == <<rows, link, up, down, welcomed, shown>>

Players == UNION {ToSet(rows[t]) : t \in Table}
Of(p) == {r \in Players : r.peer = p}

Init0(v) == [kind |-> "init", view |-> v]
Switch(v) == [kind |-> "switch", view |-> v]
Keystate(v) == [kind |-> "keystate", view |-> v]
Welcome(v) == [kind |-> "welcome", view |-> v]
Update(v) == [kind |-> "update", view |-> v]

----------------------------------------------------------------------------
(* The client                                                              *)

\* Bound: switches and key states on the way.
Pending(p) == Len(SelectSeq(up[p], LAMBDA m : m.kind # "init"))

\* Mutant: only the first viewer is asked for.
Connect_One(p) ==
    /\ link[p] = "free"
    /\ link' = [link EXCEPT ![p] = "client"]
    /\ up' = [up EXCEPT ![p] = <<Init0(0)>>]
    /\ welcomed' = [welcomed EXCEPT ![p] = {}]
    /\ \E v \in View : shown' = [shown EXCEPT ![p] = v]
    /\ UNCHANGED <<rows, down>>

\* A new client takes the peer; on CONNECT it asks for all of its viewers.
\* It may have cycled them before: what it sent then went nowhere.
Connect(p) ==
    /\ link[p] = "free"
    /\ link' = [link EXCEPT ![p] = "client"]
    /\ up' = [up EXCEPT ![p] = [i \in 1 .. Views |-> Init0(i - 1)]]
    /\ welcomed' = [welcomed EXCEPT ![p] = {}]
    /\ \E v \in View : shown' = [shown EXCEPT ![p] = v]
    /\ UNCHANGED <<rows, down>>

\* The next view; not beyond the first one backwards.
Cycled(v, dir) == IF v + dir < 0 THEN 0 ELSE (v + dir) % Views

\* game_world_view_cycle_active.
Cycle(p, dir) ==
    /\ link[p] = "client"
    /\ Pending(p) < MaxUp
    /\ shown' = [shown EXCEPT ![p] = Cycled(@, dir)]
    /\ up' = [up EXCEPT ![p] = Append(@, Switch(Cycled(shown[p], dir)))]
    /\ UNCHANGED <<rows, link, down, welcomed>>

\* game_action_send_keystate for the viewer that is shown.
Press(p) ==
    /\ link[p] = "client"
    /\ Pending(p) < MaxUp
    /\ up' = [up EXCEPT ![p] = Append(@, Keystate(shown[p]))]
    /\ UNCHANGED <<rows, link, down, welcomed, shown>>

\* Mutant: the view is shown, and the server not told.
ClientHears_Silent(p, m) ==
    /\ welcomed' = [welcomed EXCEPT ![p] = @ \cup {m.view}]
    /\ shown' = [shown EXCEPT ![p] = m.view]
    /\ UNCHANGED up

\* pkt_01_welcome_handler: the view that was initialised last is shown.
ClientHears(p, m) ==
    /\ welcomed' = [welcomed EXCEPT ![p] = @ \cup {m.view}]
    /\ shown' = [shown EXCEPT ![p] = m.view]
    /\ up' = [up EXCEPT ![p] = Append(@, Switch(m.view))]

\* network_client_tick.
ClientReceives(p) ==
    /\ link[p] = "client" /\ down[p] # <<>>
    /\ down' = [down EXCEPT ![p] = Tail(@)]
    /\ \/ Head(down[p]).kind = "welcome" /\ ClientHears(p, Head(down[p]))
       \/ Head(down[p]).kind = "update" /\ UNCHANGED <<welcomed, shown, up>>
    /\ UNCHANGED <<rows, link>>

\* The client is closed without a word (network_client_disconnect destroys
\* its host at once); what it sent may still arrive.
Vanish(p) ==
    /\ link[p] = "client"
    /\ link' = [link EXCEPT ![p] = "gone"]
    /\ down' = [down EXCEPT ![p] = <<>>]
    /\ UNCHANGED <<rows, up, welcomed, shown>>

----------------------------------------------------------------------------
(* The server                                                              *)

\* Mutant: updates have a channel of their own and overtake the rest.
Deliver_Overtakes(p, m) ==
    down' = IF link[p] # "client" THEN down
            ELSE [down EXCEPT ![p] = IF m.kind = "update" THEN <<m>> \o @ ELSE Append(@, m)]

\* Messages to a client that is gone are sent all the same and go nowhere.
Deliver(p, m) ==
    down' = IF link[p] = "client" THEN [down EXCEPT ![p] = Append(@, m)] ELSE down

\* pkt_00_init_handler.
HearInit(p, v) ==
    /\ rows' = [rows EXCEPT ![Joining] =
                    Append(@, [peer |-> p, view |-> v, active |-> FALSE])]
    /\ Deliver(p, Welcome(v))

Activated(r, p, v) == IF r.peer = p THEN [r EXCEPT !.active = (r.view = v)] ELSE r

\* pkt_switch_viewer_handler; network_server_get_entity finds the viewer.
HearSwitch(p, v) ==
    /\ rows' = IF \E r \in Of(p) : r.view = v
               THEN [t \in Table |-> [i \in DOMAIN rows[t] |-> Activated(rows[t][i], p, v)]]
               ELSE rows
    /\ UNCHANGED down

\* network_server_tick, for a packet.  What a key state does to the Input of
\* the player is the subject of Items and Vehicles.
ServerReceives(p) ==
    /\ up[p] # <<>>
    /\ up' = [up EXCEPT ![p] = Tail(@)]
    /\ LET m == Head(up[p])
       IN  \/ m.kind = "init" /\ HearInit(p, m.view)
           \/ m.kind = "switch" /\ HearSwitch(p, m.view)
           \/ m.kind = "keystate" /\ UNCHANGED <<rows, down>>
    /\ UNCHANGED <<link, welcomed, shown>>

\* world_tracker_update writes the active viewers.
ServerStreams(r) ==
    /\ r \in Players /\ r.active
    /\ Len(down[r.peer]) < MaxDown
    /\ Deliver(r.peer, Update(r.view))
    /\ UNCHANGED <<rows, link, up, welcomed, shown>>

\* Row i of a table is deleted: the last row is moved into its place, and
\* stays in memory behind the end.
SwapRemoved(mem, n, i) == [mem EXCEPT ![i] = mem[n]]

\* A player gets into another table as components are added or removed.
Migrate(s, t, i) ==
    /\ s # t /\ i \in DOMAIN rows[s]
    /\ rows' = [rows EXCEPT
                  ![s] = Front(SwapRemoved(@, Len(@), i)),
                  ![t] = Append(@, rows[s][i])]
    /\ UNCHANGED <<link, up, down, welcomed, shown>>

\* Mutant: the loop ends at the number of rows that are left.
Despawned_Shrinking(mem, p) ==
    LET f[i \in 0 .. Len(mem)] ==
            IF i = 0 THEN [mem |-> mem, n |-> Len(mem)]
            ELSE LET g == f[i - 1]
                 IN  IF i > g.n THEN g
                     ELSE IF g.mem[i].peer # p THEN g
                     ELSE [mem |-> SwapRemoved(g.mem, g.n, i), n |-> g.n - 1]
    IN  SubSeq(f[Len(mem)].mem, 1, f[Len(mem)].n)

\* network_server_despawn_viewers, for one table.  `it.count` is that of the
\* start, so the loop runs past the end into the rows that were moved, and
\* finds there the entities it has skipped.
Despawned(mem, p) ==
    LET f[i \in 0 .. Len(mem)] ==
            IF i = 0 THEN [mem |-> mem, n |-> Len(mem)]
            ELSE LET g == f[i - 1]
                     at == CHOOSE k \in 1 .. g.n : g.mem[k] = g.mem[i]
                 IN  IF g.mem[i].peer # p THEN g
                     ELSE [mem |-> SwapRemoved(g.mem, g.n, at), n |-> g.n - 1]
    IN  SubSeq(f[Len(mem)].mem, 1, f[Len(mem)].n)

\* The server notices, at once or by a timeout, that a client has gone, and
\* the peer can be taken by another.
Disconnect(p) ==
    /\ link[p] # "free"
    /\ link' = [link EXCEPT ![p] = "free"]
    /\ rows' = [t \in Table |-> Despawned(rows[t], p)]
    /\ up' = [up EXCEPT ![p] = <<>>]
    /\ down' = [down EXCEPT ![p] = <<>>]
    /\ UNCHANGED <<welcomed, shown>>

----------------------------------------------------------------------------
Init ==
    /\ rows = [t \in Table |-> <<>>]
    /\ link = [p \in Peer |-> "free"]
    /\ up = [p \in Peer |-> <<>>] /\ down = [p \in Peer |-> <<>>]
    /\ welcomed = [p \in Peer |-> {}]
    /\ shown = [p \in Peer |-> 0]

Next ==
    \/ \E p \in Peer : \/ Connect(p) \/ Press(p) \/ Vanish(p)
                       \/ ClientReceives(p) \/ ServerReceives(p) \/ Disconnect(p)
                       \/ \E dir \in {-1, 1} : Cycle(p, dir)
    \/ \E r \in Players : ServerStreams(r)
    \/ \E s, t \in Table : \E i \in DOMAIN rows[s] : Migrate(s, t, i)

Spec == Init /\ [][Next]_vars

----------------------------------------------------------------------------
(* Properties                                                              *)

\* Types.
TypeOK ==
    /\ rows \in [Table -> Seq(Row)]
    /\ link \in [Peer -> {"free", "client", "gone"}]
    /\ up \in [Peer -> Seq([kind : {"init", "switch", "keystate"}, view : View])]
    /\ down \in [Peer -> Seq([kind : {"welcome", "update"}, view : View])]
    /\ welcomed \in [Peer -> SUBSET View]
    /\ shown \in [Peer -> View]

\* network_server_get_entity has one entity to find: no view of a connection
\* has two player entities, of which the one found first, perhaps that of a
\* client who has left the peer, would get all of the input.
OneEntityPerView ==
    \A s, t \in Table : \A i \in DOMAIN rows[s], j \in DOMAIN rows[t] :
        rows[s][i].peer = rows[t][j].peer /\ rows[s][i].view = rows[t][j].view
            => s = t /\ i = j

\* After a disconnect no player entity of that connection is left, however
\* the rows were moved about while they were deleted.
NoOrphans == \A r \in Players : link[r.peer] # "free"

\* A switch or a key state of a viewer arrives after the entity was made: it
\* is never thrown away for want of a valid entity.
NothingDropped ==
    \A p \in Peer : up[p] # <<>> =>
        LET m == Head(up[p])
        IN  m.kind # "init" => \E r \in Of(p) : r.view = m.view

\* A client reads no update into a view that is not initialised.
WelcomeFirst ==
    \A p \in Peer : down[p] # <<>> =>
        LET m == Head(down[p])
        IN  m.kind = "update" => m.view \in welcomed[p]

\* Once a client and the server have nothing left to tell each other, the
\* viewer that is streamed is the one that is shown, and no other.
SameView ==
    \A p \in Peer :
        /\ link[p] = "client" /\ up[p] = <<>>
        /\ \A i \in DOMAIN down[p] : down[p][i].kind # "welcome"
        => \A r \in Of(p) : r.active <=> r.view = shown[p]
=============================================================================
