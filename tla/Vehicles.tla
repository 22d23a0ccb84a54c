------------------------------ MODULE Vehicles ------------------------------
(***************************************************************************)
(* Seats: foundation/src/systems/modules/system_vehicle.c.                 *)
(*                                                                         *)
(* Who rides what is stored twice: in the seats array of the Vehicle and   *)
(* in the IsInVehicle component of the rider.  Seats are written in place; *)
(* IsInVehicle is set and removed through deferred commands and changes    *)
(* only when the frame is merged.  A player who disconnects is deleted     *)
(* between frames and leaves his seat behind for VehicleHandling.          *)
(***************************************************************************)
EXTENDS Integers

CONSTANTS
    Player,     \* entities whose Input follows a client
    Npc,        \* the drivers ActSpawnCirclingDriver spawns
    Vehicle,    \* vehicle entities; none is ever despawned
    Seat,       \* seat indices, 0 is the driver's
    None        \* an empty seat, no vehicle, no place

Rider == Player \cup Npc

ASSUME VehiclesAssumption ==
    /\ Player \cap Npc = {} /\ Vehicle \cap Rider = {}
    /\ None \notin Rider \cup Vehicle
    /\ Seat \subseteq Nat /\ 0 \in Seat

VARIABLES
    spawned,    \* the vehicles that exist
    alive,      \* the riders that exist
    seats,      \* Vehicle.seats
    riding,     \* IsInVehicle.veh, None without the component
    joining,    \* deferred ecs_set(IsInVehicle) of this frame
    leaving,    \* deferred ecs_remove(IsInVehicle) of this frame
    use,        \* riders whose Input.use is set
    place,      \* the vehicle at whose position a rider is, None on foot
    stage,      \* the running system, "net" between frames
    todo        \* the entities it has not visited

vars == <<spawned, alive, seats, riding, joining, leaving, use, place, stage,
          todo>>

seating == <<seats, riding, joining, leaving>>

SeatedIn(v, r) == \E k \in Seat : seats[v][k] = r
Free(v, k) == seats[v][k] = None
FirstFree(v, k) == Free(v, k) /\ \A j \in Seat : j < k => ~Free(v, j)

----------------------------------------------------------------------------
(* Between frames                                                          *)

\* player_spawn.  flecs never hands out an id that is still referenced: a
\* reused id carries a new generation.
Join(r) ==
    /\ stage = "net"
    /\ r \in Player \ alive
    /\ \A v \in Vehicle : ~SeatedIn(v, r)
    /\ alive' = alive \cup {r}
    /\ UNCHANGED <<spawned, seating, use, place, stage, todo>>

\* player_despawn: the entity and its components are gone at once.
Quit(r) ==
    /\ stage = "net"
    /\ r \in alive \cap Player
    /\ alive' = alive \ {r}
    /\ riding' = [riding EXCEPT ![r] = None]
    /\ place' = [place EXCEPT ![r] = None]
    /\ use' = use \ {r}
    /\ UNCHANGED <<spawned, seats, joining, leaving, stage, todo>>

\* pkt_send_keystate_handler, as far as vehicles are concerned.
PressUse(r) ==
    /\ stage = "net"
    /\ r \in alive \cap Player
    /\ use' = use \cup {r}
    /\ UNCHANGED <<spawned, alive, seating, place, stage, todo>>

\* A player on foot walks away from where he is.
Walk(r) ==
    /\ stage = "net"
    /\ r \in alive /\ riding[r] = None
    /\ place' = [place EXCEPT ![r] = None]
    /\ UNCHANGED <<spawned, alive, seating, use, stage, todo>>

SpawnVehicle(v) ==
    /\ stage = "net"
    /\ v \notin spawned
    /\ spawned' = spawned \cup {v}
    /\ UNCHANGED <<alive, seating, use, place, stage, todo>>

\* ActSpawnCirclingDriver: a car and an NPC at its wheel.
SpawnDriver(v, r) ==
    /\ stage = "net"
    /\ v \notin spawned /\ r \in Npc \ alive
    /\ spawned' = spawned \cup {v}
    /\ alive' = alive \cup {r}
    /\ seats' = [seats EXCEPT ![v][0] = r]
    /\ riding' = [riding EXCEPT ![r] = v]
    /\ place' = [place EXCEPT ![r] = v]
    /\ UNCHANGED <<joining, leaving, use, stage, todo>>

----------------------------------------------------------------------------
(* The systems of a frame, in order                                        *)

\* The frame starts with VehicleHandling, in EcsOnUpdate.
BeginFrame ==
    /\ stage = "net"
    /\ stage' = "handling"
    /\ todo' = spawned
    /\ UNCHANGED <<spawned, alive, seating, use, place>>

\* Mutant: seats are not cleaned up.
Cleaned_None(v) == seats[v]

\* The seats of v without the entities that are gone.
Cleaned(v) == [k \in Seat |-> IF seats[v][k] \in alive THEN seats[v][k] ELSE None]

\* Seat cleanup, then every entity in a seat is carried to the vehicle.
VehicleHandling(v) ==
    /\ stage = "handling" /\ v \in todo
    /\ todo' = todo \ {v}
    /\ seats' = [seats EXCEPT ![v] = Cleaned(v)]
    /\ place' = [r \in Rider |-> IF r \in alive /\ SeatedIn(v, r) THEN v ELSE place[r]]
    /\ UNCHANGED <<spawned, alive, riding, joining, leaving, use, stage>>

\* EnterVehicle matches those without IsInVehicle.
BeginEnter ==
    /\ stage = "handling" /\ todo = {}
    /\ stage' = "enter"
    /\ todo' = {r \in use : riding[r] = None}
    /\ UNCHANGED <<spawned, alive, seating, use, place>>

\* Mutant: any seat is good, also a taken one.
BoardSeat_Taken(v, k) == k = 0

\* The seat of v a newcomer gets.
BoardSeat(v, k) == FirstFree(v, k)

\* The first vehicle within veh_enter_radius that has a free seat, if any.
EnterVehicle(r) ==
    /\ stage = "enter" /\ r \in todo
    /\ todo' = todo \ {r}
    /\ \/ \E v \in spawned, k \in Seat :
              /\ BoardSeat(v, k)
              /\ seats' = [seats EXCEPT ![v][k] = r]
              /\ joining' = [joining EXCEPT ![r] = v]
              /\ place' = [place EXCEPT ![r] = v]
              /\ use' = use \ {r}
       \/ UNCHANGED <<seats, joining, place, use>>
    /\ UNCHANGED <<spawned, alive, riding, leaving, stage>>

\* LeaveVehicle matches those with IsInVehicle.
BeginLeave ==
    /\ stage = "enter" /\ todo = {}
    /\ stage' = "leave"
    /\ todo' = {r \in use : riding[r] # None}
    /\ UNCHANGED <<spawned, alive, seating, use, place>>

\* Mutant: the seat of the leaving passenger is left as it is.
Vacated_No(v, r) == seats[v]

\* The seats of v once r got up: the first seat that held him is freed.
Vacated(v, r) ==
    [k \in Seat |-> IF seats[v][k] = r /\ \A j \in Seat : j < k => seats[v][j] # r
                    THEN None ELSE seats[v][k]]

\* The code reads `vehp->veh`, the component of the FIRST rider of the flecs
\* table r is in, whoever is leaving.  Which players share a table, and in
\* which order, is left open.
LeaveVehicle(r) ==
    /\ stage = "leave" /\ r \in todo
    /\ todo' = todo \ {r}
    /\ \E first \in Player :
           /\ riding[first] # None
           /\ seats' = [seats EXCEPT ![riding[first]] = Vacated(riding[first], r)]
    /\ leaving' = leaving \cup {r}
    /\ use' = use \ {r}
    /\ UNCHANGED <<spawned, alive, riding, joining, place, stage>>

\* ResetActivators, and the merge of the deferred commands.
EndFrame ==
    /\ stage = "leave" /\ todo = {}
    /\ stage' = "net"
    /\ use' = {}
    /\ riding' = [r \in Rider |-> IF r \in leaving THEN None
                                  ELSE IF joining[r] # None THEN joining[r]
                                  ELSE riding[r]]
    /\ joining' = [r \in Rider |-> None]
    /\ leaving' = {}
    /\ UNCHANGED <<spawned, alive, seats, place, todo>>

----------------------------------------------------------------------------
Init ==
    /\ spawned = {} /\ alive = {}
    /\ seats = [v \in Vehicle |-> [k \in Seat |-> None]]
    /\ riding = [r \in Rider |-> None]
    /\ joining = [r \in Rider |-> None]
    /\ leaving = {} /\ use = {}
    /\ place = [r \in Rider |-> None]
    /\ stage = "net" /\ todo = {}

Frame == \/ BeginFrame \/ BeginEnter \/ BeginLeave \/ EndFrame
         \/ \E v \in Vehicle : VehicleHandling(v)
         \/ \E r \in Rider : EnterVehicle(r) \/ LeaveVehicle(r)

Between == \/ \E r \in Rider : Join(r) \/ Quit(r) \/ PressUse(r) \/ Walk(r)
           \/ \E v \in Vehicle : \/ SpawnVehicle(v)
                                 \/ \E r \in Npc : SpawnDriver(v, r)

Next == Frame \/ Between

Spec == Init /\ [][Next]_vars

\* The server's main loop never stops calling ecs_progress.
FairSpec == Spec /\ WF_vars(Frame)

----------------------------------------------------------------------------
(* Properties                                                              *)

\* Types; a rider whose `use` is set exists.
TypeOK ==
    /\ spawned \subseteq Vehicle
    /\ alive \subseteq Rider
    /\ seats \in [Vehicle -> [Seat -> Rider \cup {None}]]
    /\ riding \in [Rider -> Vehicle \cup {None}]
    /\ joining \in [Rider -> Vehicle \cup {None}]
    /\ leaving \subseteq Rider
    /\ use \subseteq alive
    /\ place \in [Rider -> Vehicle \cup {None}]
    /\ stage \in {"net", "handling", "enter", "leave"}
    /\ todo \subseteq Rider \cup Vehicle

\* Whoever has, or is about to get, the IsInVehicle component sits in a seat
\* of that vehicle: nobody else was given the seat, and no cleanup took it.
RidersAreSeated ==
    \A r \in Rider :
        /\ riding[r] # None /\ r \notin leaving => SeatedIn(riding[r], r)
        /\ joining[r] # None => SeatedIn(joining[r], r)

\* A living rider occupies at most one seat of all.
OneSeat ==
    \A r \in alive, v, w \in Vehicle, j, k \in Seat :
        seats[v][j] = r /\ seats[w][k] = r => v = w /\ j = k

\* Between frames, whoever sits in a seat, and lives, rides that vehicle: the
\* two records of who rides what agree.
SeatsAgree ==
    stage = "net" =>
        \A v \in Vehicle, k \in Seat : seats[v][k] \in alive => riding[seats[v][k]] = v

\* VehicleHandling carries riders and nobody else.
CarriesRidersOnly ==
    [][stage = "handling" =>
           \A r \in Rider : place'[r] # place[r] => riding[r] = place'[r]]_vars

\* The seat of a player who has gone is freed.
GhostsGetUp ==
    \A v \in Vehicle : \A r \in Player :
        (SeatedIn(v, r) /\ r \notin alive) ~> ~SeatedIn(v, r)
=============================================================================
