--------------------------- MODULE VehiclesProofs ---------------------------
(***************************************************************************)
(* Theorems about Vehicles, for every number of players, drivers, vehicles *)
(* and seats; the agreement of the two records only with one vehicle, as   *)
(* it fails with two.                                                      *)
(***************************************************************************)
EXTENDS Vehicles, TLAPS

\* What is in the middle of being done, stage by stage.
Pending ==
    /\ \A r \in Rider : r \notin alive => riding[r] = None /\ joining[r] = None
    /\ \A r \in Rider : joining[r] # None => riding[r] = None
    /\ \A r \in leaving : riding[r] # None
    /\ stage \in {"net", "handling"} =>
           (\A r \in Rider : joining[r] = None) /\ leaving = {}
    /\ stage = "enter" => leaving = {}
    /\ stage = "handling" => todo \subseteq Vehicle
    /\ stage = "enter" =>
           \A r \in todo : r \in alive /\ riding[r] = None /\ joining[r] = None
    /\ stage = "leave" => \A r \in todo : r \in alive /\ riding[r] # None

UnbornEmpty == \A v \in Vehicle \ spawned, k \in Seat : seats[v][k] = None

\* The inductive invariant for any number of vehicles.
IInv == TypeOK /\ Pending /\ UnbornEmpty /\ RidersAreSeated

USE VehiclesAssumption

\* The invariant holds before the first frame.
LEMMA InitIInv == Init => IInv
  BY DEF Init, IInv, TypeOK, Pending, UnbornEmpty, RidersAreSeated

\* Every step of a player, of a spawn and of a frame keeps the invariant.
LEMMA StepIInv == IInv /\ [Next]_vars => IInv'
  <1> SUFFICES ASSUME IInv, [Next]_vars PROVE IInv'
    OBVIOUS
  <1> USE DEF IInv
  <1>1. CASE UNCHANGED vars
    BY <1>1 DEF vars, seating, TypeOK, Pending, UnbornEmpty, RidersAreSeated, SeatedIn
  <1>2. ASSUME NEW r \in Rider, Join(r) \/ Quit(r) \/ PressUse(r) \/ Walk(r) PROVE IInv'
    <2>1. TypeOK'
      BY <1>2 DEF Join, Quit, PressUse, Walk, seating, TypeOK
    <2>2. Pending'
      BY <1>2 DEF Join, Quit, PressUse, Walk, seating, TypeOK, Pending
    <2>3. UnbornEmpty'
      BY <1>2 DEF Join, Quit, PressUse, Walk, seating, UnbornEmpty
    <2>4. RidersAreSeated'
      BY <1>2 DEF Join, Quit, PressUse, Walk, seating, TypeOK, RidersAreSeated, SeatedIn
    <2> QED
      BY <2>1, <2>2, <2>3, <2>4
  <1>3. ASSUME NEW v \in Vehicle, SpawnVehicle(v) PROVE IInv'
    BY <1>3 DEF SpawnVehicle, seating, TypeOK, Pending, UnbornEmpty,
                RidersAreSeated, SeatedIn
  <1>4. ASSUME NEW v \in Vehicle, NEW r \in Npc, SpawnDriver(v, r) PROVE IInv'
    <2>1. r \in Rider /\ r # None /\ v # None /\ r \notin alive /\ v \notin spawned
      BY <1>4 DEF SpawnDriver, Rider
    <2>2. TypeOK'
      BY <1>4, <2>1 DEF SpawnDriver, TypeOK
    <2>3. Pending'
      BY <1>4, <2>1 DEF SpawnDriver, TypeOK, Pending
    <2>4. UnbornEmpty'
      BY <1>4, <2>1 DEF SpawnDriver, TypeOK, UnbornEmpty
    <2>5. RidersAreSeated'
      <3> SUFFICES ASSUME NEW q \in Rider
                   PROVE  /\ riding'[q] # None /\ q \notin leaving' => SeatedIn(riding[q], q)'
                          /\ joining'[q] # None => SeatedIn(joining[q], q)'
        BY DEF RidersAreSeated
      <3>1. seats'[v][0] = r /\ riding'[r] = v /\ UNCHANGED <<joining, leaving>>
        BY <1>4, <2>1 DEF SpawnDriver, TypeOK
      <3>2. \A k \in Seat : seats[v][k] = None
        BY <2>1 DEF UnbornEmpty
      <3>3. q # r => riding'[q] = riding[q]
        BY <1>4 DEF SpawnDriver, TypeOK
      <3>4. \A w \in Vehicle : q # r /\ SeatedIn(w, q) => SeatedIn(w, q)'
        BY <1>4, <3>2 DEF SpawnDriver, TypeOK, SeatedIn, Rider
      <3>5. q # r => riding[q] \in Vehicle \cup {None} /\ joining[q] \in Vehicle \cup {None}
        BY DEF TypeOK
      <3>6. CASE q # r
        <4>1. /\ riding'[q] # None /\ q \notin leaving' => SeatedIn(riding[q], q)
              /\ joining'[q] # None => SeatedIn(joining[q], q)
          BY <3>1, <3>3, <3>6 DEF RidersAreSeated
        <4>2. /\ riding'[q] # None => riding[q] \in Vehicle
              /\ joining'[q] # None => joining[q] \in Vehicle
          BY <3>1, <3>3, <3>5, <3>6
        <4>3. /\ riding'[q] # None /\ q \notin leaving' =>
                     \E k \in Seat : seats'[riding[q]][k] = q
              /\ joining'[q] # None => \E k \in Seat : seats'[joining[q]][k] = q
          BY <3>4, <3>6, <4>1, <4>2 DEF SeatedIn
        <4> QED
          BY <3>1, <3>3, <3>6, <4>3 DEF SeatedIn
      <3>7. CASE q = r
        BY <2>1, <3>1, <3>7 DEF Pending, SeatedIn
      <3> QED
        BY <3>6, <3>7
    <2> QED
      BY <2>2, <2>3, <2>4, <2>5
  <1>5. CASE BeginFrame
    BY <1>5 DEF BeginFrame, seating, TypeOK, Pending, UnbornEmpty, RidersAreSeated, SeatedIn
  <1>6. CASE BeginEnter
    BY <1>6 DEF BeginEnter, seating, TypeOK, Pending, UnbornEmpty, RidersAreSeated, SeatedIn
  <1>7. CASE BeginLeave
    BY <1>7 DEF BeginLeave, seating, TypeOK, Pending, UnbornEmpty, RidersAreSeated, SeatedIn
  <1>8. ASSUME NEW v \in Vehicle, VehicleHandling(v) PROVE IInv'
    <2>1. TypeOK'
      BY <1>8 DEF VehicleHandling, Cleaned, TypeOK
    <2>2. Pending'
      BY <1>8 DEF VehicleHandling, Pending
    <2>3. UnbornEmpty'
      BY <1>8 DEF VehicleHandling, Cleaned, TypeOK, UnbornEmpty
    <2>4. \A w \in Vehicle, q \in alive : SeatedIn(w, q) => SeatedIn(w, q)'
      BY <1>8 DEF VehicleHandling, Cleaned, TypeOK, SeatedIn
    <2>5. UNCHANGED <<riding, joining, leaving>>
      BY <1>8 DEF VehicleHandling
    <2>6. \A q \in Rider : riding[q] # None \/ joining[q] # None => q \in alive
      BY DEF Pending
    <2>7. RidersAreSeated'
      BY <2>4, <2>5, <2>6 DEF RidersAreSeated, TypeOK, SeatedIn
    <2> QED
      BY <2>1, <2>2, <2>3, <2>7
  <1>9. ASSUME NEW r \in Rider, EnterVehicle(r) PROVE IInv'
    <2>1. stage = "enter" /\ r \in todo /\ r \in alive
          /\ riding[r] = None /\ joining[r] = None
      BY <1>9 DEF EnterVehicle, Pending
    <2>2. CASE UNCHANGED <<seats, joining, place, use>>
      BY <1>9, <2>2 DEF EnterVehicle, TypeOK, Pending, UnbornEmpty, RidersAreSeated, SeatedIn
    <2>3. ASSUME NEW v \in spawned, NEW k \in Seat, BoardSeat(v, k),
                 seats' = [seats EXCEPT ![v][k] = r],
                 joining' = [joining EXCEPT ![r] = v],
                 place' = [place EXCEPT ![r] = v],
                 use' = use \ {r}
          PROVE  IInv'
      <3>1. v \in Vehicle /\ v # None /\ seats[v][k] = None
        BY <2>3 DEF TypeOK, BoardSeat, FirstFree, Free
      <3>2. TypeOK'
        BY <1>9, <2>3, <3>1 DEF EnterVehicle, TypeOK
      <3>3. Pending'
        BY <1>9, <2>1, <2>3, <3>1 DEF EnterVehicle, TypeOK, Pending
      <3>4. UnbornEmpty'
        BY <1>9, <2>3, <3>1 DEF EnterVehicle, TypeOK, UnbornEmpty
      <3>5. UNCHANGED <<riding, leaving>>
        BY <1>9 DEF EnterVehicle
      <3>6. \A w \in Vehicle, q \in Rider : SeatedIn(w, q) => SeatedIn(w, q)'
        BY <2>3, <3>1 DEF TypeOK, SeatedIn, Rider
      <3>7. SeatedIn(v, r)'
        BY <2>3, <3>1 DEF TypeOK, SeatedIn
      <3>8. RidersAreSeated'
        BY <2>3, <3>1, <3>5, <3>6, <3>7 DEF RidersAreSeated, TypeOK, SeatedIn
      <3> QED
        BY <3>2, <3>3, <3>4, <3>8
    <2> QED
      BY <1>9, <2>2, <2>3 DEF EnterVehicle
  <1>10. ASSUME NEW r \in Rider, LeaveVehicle(r) PROVE IInv'
    <2>1. PICK first \in Player :
              /\ riding[first] # None
              /\ seats' = [seats EXCEPT ![riding[first]] = Vacated(riding[first], r)]
      BY <1>10 DEF LeaveVehicle
    <2>2. riding[first] \in Vehicle
      BY <2>1 DEF TypeOK, Rider
    <2>3. stage = "leave" /\ r \in alive /\ riding[r] # None
      BY <1>10 DEF LeaveVehicle, Pending
    <2>4. /\ leaving' = leaving \cup {r} /\ use' = use \ {r} /\ todo' = todo \ {r}
          /\ UNCHANGED <<spawned, alive, riding, joining, place, stage>>
      BY <1>10 DEF LeaveVehicle
    <2>5. Vacated(riding[first], r) \in [Seat -> Rider \cup {None}]
      BY <2>2 DEF Vacated, TypeOK
    <2>6. TypeOK'
      BY <2>1, <2>2, <2>4, <2>5 DEF TypeOK
    <2>7. Pending'
      BY <2>3, <2>4 DEF Pending
    <2>8. UnbornEmpty'
      <3>1. riding[first] \in spawned \/ Vacated(riding[first], r) \in [Seat -> {None}]
        BY <2>2 DEF UnbornEmpty, Vacated
      <3> QED
        BY <2>1, <2>2, <2>4, <3>1 DEF UnbornEmpty, TypeOK
    <2>9. \A w \in Vehicle, q \in Rider : q # r /\ SeatedIn(w, q) => SeatedIn(w, q)'
      BY <2>1, <2>2 DEF Vacated, TypeOK, SeatedIn
    <2>10. RidersAreSeated'
      BY <2>3, <2>4, <2>9 DEF RidersAreSeated, TypeOK, Pending, SeatedIn
    <2> QED
      BY <2>6, <2>7, <2>8, <2>10
  <1>11. CASE EndFrame
    <2>1. TypeOK'
      BY <1>11 DEF EndFrame, TypeOK
    <2>2. Pending'
      BY <1>11 DEF EndFrame, TypeOK, Pending
    <2>3. UnbornEmpty'
      BY <1>11 DEF EndFrame, UnbornEmpty
    <2>4. RidersAreSeated'
      BY <1>11 DEF EndFrame, TypeOK, Pending, RidersAreSeated, SeatedIn
    <2> QED
      BY <2>1, <2>2, <2>3, <2>4
  <1> QED
    BY <1>1, <1>2, <1>3, <1>4, <1>5, <1>6, <1>7, <1>8, <1>9, <1>10, <1>11
       DEF Next, Frame, Between

\* The invariant holds throughout.
THEOREM VehicleInvariant == Spec => []IInv
  BY InitIInv, StepIInv, PTL DEF Spec

\* The types hold for any number of riders and vehicles.
THEOREM VehicleTypes == Spec => []TypeOK
  BY VehicleInvariant, PTL DEF IInv

\* No cleanup, boarding or departure of others takes a rider's seat away.
THEOREM NobodyLosesHisSeat == Spec => []RidersAreSeated
  BY VehicleInvariant, PTL DEF IInv

----------------------------------------------------------------------------
(* With one vehicle the two records agree.                                 *)

OneVehicle == \A v, w \in Vehicle : v = w

\* A living rider in a seat rides the vehicle, or is about to, and has not
\* got up in this frame; and it is his only seat.
SeatsMeanRiding ==
    \A v \in Vehicle, k \in Seat : seats[v][k] \in alive =>
        /\ seats[v][k] \notin leaving
        /\ riding[seats[v][k]] = v \/ joining[seats[v][k]] = v

\* The inductive invariant for one vehicle.
OneIInv == IInv /\ SeatsMeanRiding /\ OneSeat

\* Emptying seats, and the death of riders, cannot give anybody a second seat.
LEMMA FewerSeats ==
  ASSUME OneSeat, None \notin alive', alive' \subseteq alive,
         \A v \in Vehicle, k \in Seat : seats'[v][k] \in {seats[v][k], None}
  PROVE  OneSeat'
  <1> SUFFICES ASSUME NEW r \in alive', NEW v \in Vehicle, NEW w \in Vehicle,
                      NEW j \in Seat, NEW k \in Seat,
                      seats'[v][j] = r, seats'[w][k] = r
               PROVE  v = w /\ j = k
    BY DEF OneSeat
  <1>1. r \in alive /\ seats[v][j] = r /\ seats[w][k] = r
    OBVIOUS
  <1> QED
    BY <1>1 DEF OneSeat

\* Each step of a one-vehicle world keeps both facts.
LEMMA StepOne == ASSUME OneVehicle PROVE OneIInv /\ [Next]_vars => OneIInv'
  <1> SUFFICES ASSUME OneIInv, [Next]_vars PROVE SeatsMeanRiding' /\ OneSeat'
    BY StepIInv DEF OneIInv
  <1> USE DEF OneIInv, IInv
  <1>1. CASE UNCHANGED vars
    <2>1. UNCHANGED <<alive, seats, riding, joining, leaving>>
      BY <1>1 DEF vars, seating
    <2>2. SeatsMeanRiding'
      BY <2>1 DEF SeatsMeanRiding
    <2>3. OneSeat'
      BY <2>1 DEF OneSeat
    <2> QED
      BY <2>2, <2>3
  <1>2. ASSUME NEW r \in Rider, Join(r) PROVE SeatsMeanRiding' /\ OneSeat'
    <2>1. \A v \in Vehicle, k \in Seat : seats[v][k] # r
      BY <1>2 DEF Join, SeatedIn
    <2>2. alive' = alive \cup {r} /\ UNCHANGED <<seats, riding, joining, leaving>>
      BY <1>2 DEF Join, seating
    <2>3. SeatsMeanRiding'
      BY <2>1, <2>2 DEF SeatsMeanRiding
    <2>4. OneSeat'
      <3> SUFFICES ASSUME NEW q \in alive', NEW v \in Vehicle, NEW w \in Vehicle,
                          NEW j \in Seat, NEW k \in Seat,
                          seats[v][j] = q, seats[w][k] = q
                   PROVE  v = w /\ j = k
        BY <2>2 DEF OneSeat
      <3>1. q \in alive
        BY <2>1, <2>2
      <3> QED
        BY <3>1 DEF OneSeat
    <2> QED
      BY <2>3, <2>4
  <1>3. ASSUME NEW r \in Rider, Quit(r) PROVE SeatsMeanRiding' /\ OneSeat'
    BY <1>3 DEF Quit, TypeOK, SeatsMeanRiding, OneSeat
  <1>4. ASSUME NEW r \in Rider, PressUse(r) \/ Walk(r) PROVE SeatsMeanRiding' /\ OneSeat'
    <2>1. UNCHANGED <<seats, alive, riding, joining, leaving>>
      BY <1>4 DEF PressUse, Walk, seating
    <2>2. SeatsMeanRiding'
      BY <2>1 DEF SeatsMeanRiding
    <2>3. OneSeat'
      BY <2>1 DEF OneSeat
    <2> QED
      BY <2>2, <2>3
  <1>5. ASSUME NEW v \in Vehicle, SpawnVehicle(v) PROVE SeatsMeanRiding' /\ OneSeat'
    BY <1>5 DEF SpawnVehicle, seating, SeatsMeanRiding, OneSeat
  <1>6. ASSUME NEW v \in Vehicle, NEW r \in Npc, SpawnDriver(v, r)
        PROVE  SeatsMeanRiding' /\ OneSeat'
    <2>1. /\ v \in Vehicle \ spawned /\ r \in Rider /\ r \notin alive /\ r # None
          /\ seats' = [seats EXCEPT ![v][0] = r]
          /\ riding' = [riding EXCEPT ![r] = v]
          /\ alive' = alive \cup {r}
          /\ leaving = {}
          /\ UNCHANGED <<joining, leaving>>
      BY <1>6 DEF SpawnDriver, Rider, Pending
    <2>2. \A w \in Vehicle, k \in Seat : w = v /\ seats[w][k] = None
      BY <2>1 DEF OneVehicle, UnbornEmpty
    <2>3. \A w \in Vehicle, k \in Seat : seats'[w][k] = IF k = 0 THEN r ELSE None
      BY <2>1, <2>2 DEF TypeOK
    <2>4. None \notin alive'
      BY <2>1 DEF TypeOK
    <2>5. SeatsMeanRiding'
      BY <2>1, <2>2, <2>3, <2>4 DEF TypeOK, SeatsMeanRiding
    <2>6. OneSeat'
      <3> SUFFICES ASSUME NEW q \in alive', NEW w \in Vehicle, NEW u \in Vehicle,
                          NEW j \in Seat, NEW k \in Seat,
                          seats'[w][j] = q, seats'[u][k] = q
                   PROVE  w = u /\ j = k
        BY DEF OneSeat
      <3>1. j = 0 /\ k = 0
        BY <2>3, <2>4
      <3> QED
        BY <2>2, <3>1
    <2> QED
      BY <2>5, <2>6
  <1>7. CASE BeginFrame \/ BeginEnter \/ BeginLeave
    <2>1. UNCHANGED <<seats, alive, riding, joining, leaving>>
      BY <1>7 DEF BeginFrame, BeginEnter, BeginLeave, seating
    <2>2. SeatsMeanRiding'
      BY <2>1 DEF SeatsMeanRiding
    <2>3. OneSeat'
      BY <2>1 DEF OneSeat
    <2> QED
      BY <2>2, <2>3
  <1>8. ASSUME NEW v \in Vehicle, VehicleHandling(v) PROVE SeatsMeanRiding' /\ OneSeat'
    <2>1. None \notin alive
      BY DEF TypeOK
    <2>2. \A w \in Vehicle, k \in Seat :
              seats'[w][k] = seats[w][k] \/ seats'[w][k] = None
      BY <1>8 DEF VehicleHandling, Cleaned, TypeOK
    <2>3. UNCHANGED <<alive, riding, joining, leaving>>
      BY <1>8 DEF VehicleHandling
    <2>4. SeatsMeanRiding'
      BY <2>1, <2>2, <2>3 DEF SeatsMeanRiding
    <2>5. OneSeat'
      BY <2>1, <2>2, <2>3, FewerSeats
    <2> QED
      BY <2>4, <2>5
  <1>9. ASSUME NEW r \in Rider, EnterVehicle(r) PROVE SeatsMeanRiding' /\ OneSeat'
    <2>1. /\ r \in alive /\ riding[r] = None /\ joining[r] = None /\ leaving = {}
          /\ UNCHANGED <<alive, riding, leaving>>
      BY <1>9 DEF EnterVehicle, Pending
    <2>2. CASE UNCHANGED <<seats, joining>>
      <3>1. SeatsMeanRiding'
        BY <2>1, <2>2 DEF SeatsMeanRiding
      <3>2. OneSeat'
        BY <2>1, <2>2 DEF OneSeat
      <3> QED
        BY <3>1, <3>2
    <2>3. ASSUME NEW v \in Vehicle, NEW k \in Seat,
                 seats' = [seats EXCEPT ![v][k] = r],
                 joining' = [joining EXCEPT ![r] = v]
          PROVE  SeatsMeanRiding' /\ OneSeat'
      <3>1. \A w \in Vehicle, j \in Seat : seats[w][j] # r
        BY <2>1 DEF SeatsMeanRiding, TypeOK
      <3>2. \A w \in Vehicle, j \in Seat :
                seats'[w][j] = IF w = v /\ j = k THEN r ELSE seats[w][j]
        BY <2>3 DEF TypeOK
      <3>3. \A q \in Rider : joining'[q] = IF q = r THEN v ELSE joining[q]
        BY <2>3 DEF TypeOK
      <3>4. alive \subseteq Rider
        BY DEF TypeOK
      <3>5. SeatsMeanRiding'
        <4> SUFFICES ASSUME NEW w \in Vehicle, NEW j \in Seat, seats'[w][j] \in alive'
                     PROVE  /\ seats'[w][j] \notin leaving'
                            /\ riding'[seats'[w][j]] = w \/ joining'[seats'[w][j]] = w
          BY DEF SeatsMeanRiding
        <4>1. CASE w = v /\ j = k
          BY <2>1, <3>2, <3>3, <4>1
        <4>2. CASE ~(w = v /\ j = k)
          <5>1. seats'[w][j] = seats[w][j] /\ seats[w][j] # r
            BY <3>1, <3>2, <4>2
          <5>2. seats[w][j] \in alive /\ seats[w][j] \in Rider
            BY <2>1, <3>4, <5>1
          <5>3. /\ seats[w][j] \notin leaving
                /\ riding[seats[w][j]] = w \/ joining[seats[w][j]] = w
            BY <5>2 DEF SeatsMeanRiding
          <5> QED
            BY <2>1, <3>3, <5>1, <5>2, <5>3
        <4> QED
          BY <4>1, <4>2
      <3>6. OneSeat'
        <4> SUFFICES ASSUME NEW q \in alive', NEW w \in Vehicle, NEW u \in Vehicle,
                            NEW i \in Seat, NEW j \in Seat,
                            seats'[w][i] = q, seats'[u][j] = q
                     PROVE  w = u /\ i = j
          BY DEF OneSeat
        <4>1. CASE q = r
          <5>1. /\ IF w = v /\ i = k THEN TRUE ELSE seats[w][i] = r
                /\ IF u = v /\ j = k THEN TRUE ELSE seats[u][j] = r
            BY <3>2, <4>1
          <5>2. seats[w][i] # r /\ seats[u][j] # r
            BY <3>1
          <5> QED
            BY <5>1, <5>2
        <4>2. CASE q # r
          <5>1. q \in alive /\ seats[w][i] = q /\ seats[u][j] = q
            BY <2>1, <3>2, <4>2
          <5> QED
            BY <5>1 DEF OneSeat
        <4> QED
          BY <4>1, <4>2
      <3> QED
        BY <3>5, <3>6
    <2> QED
      BY <1>9, <2>2, <2>3 DEF EnterVehicle, TypeOK
  <1>10. ASSUME NEW r \in Rider, LeaveVehicle(r) PROVE SeatsMeanRiding' /\ OneSeat'
    <2>1. PICK v \in Vehicle : seats' = [seats EXCEPT ![v] = Vacated(v, r)]
      BY <1>10 DEF LeaveVehicle, TypeOK, Rider
    <2>2. /\ leaving' = leaving \cup {r} /\ r \in alive
          /\ UNCHANGED <<alive, riding, joining>>
      BY <1>10 DEF LeaveVehicle, Pending
    <2>3. \A w \in Vehicle, k \in Seat : seats'[w][k] # r
      <3> SUFFICES ASSUME NEW w \in Vehicle, NEW k \in Seat, seats'[w][k] = r
                   PROVE  FALSE
        OBVIOUS
      <3>1. w = v
        BY DEF OneVehicle
      <3>2. seats'[w][k] = IF seats[w][k] = r /\ \A j \in Seat : j < k => seats[w][j] # r
                           THEN None ELSE seats[w][k]
        BY <2>1, <3>1 DEF Vacated, TypeOK
      <3>3. seats[w][k] = r
        BY <3>2
      <3>4. \A j \in Seat : j < k => seats[w][j] # r
        <4> SUFFICES ASSUME NEW j \in Seat, j < k, seats[w][j] = r
                     PROVE  FALSE
          OBVIOUS
        <4>1. j = k
          BY <2>2, <3>3 DEF OneSeat
        <4>2. k \in Nat
          BY VehiclesAssumption
        <4>3. ~(k < k)
          BY <4>2
        <4> QED
          BY <4>1, <4>3
      <3> QED
        BY <2>2, <3>2, <3>3, <3>4 DEF Rider
    <2>4. \A w \in Vehicle, k \in Seat :
              seats'[w][k] = seats[w][k] \/ seats'[w][k] = None
      BY <2>1 DEF Vacated, TypeOK
    <2>5. None \notin alive
      BY DEF TypeOK
    <2>6. SeatsMeanRiding'
      BY <2>2, <2>3, <2>4, <2>5 DEF SeatsMeanRiding
    <2>7. OneSeat'
      BY <2>2, <2>4, <2>5, FewerSeats
    <2> QED
      BY <2>6, <2>7
  <1>11. CASE EndFrame
    <2>1. /\ leaving' = {} /\ UNCHANGED <<seats, alive>>
          /\ \A r \in Rider : riding'[r] = IF r \in leaving THEN None
                                           ELSE IF joining[r] # None THEN joining[r]
                                           ELSE riding[r]
      BY <1>11 DEF EndFrame
    <2>2. alive \subseteq Rider
      BY DEF TypeOK
    <2>3. \A r \in Rider : joining[r] # None => riding[r] = None
      BY DEF Pending
    <2>4. SeatsMeanRiding'
      <3> SUFFICES ASSUME NEW v \in Vehicle, NEW k \in Seat, seats[v][k] \in alive
                   PROVE  riding'[seats[v][k]] = v
        BY <2>1 DEF SeatsMeanRiding
      <3> DEFINE q == seats[v][k]
      <3>1. q \in Rider /\ q \notin leaving /\ (riding[q] = v \/ joining[q] = v)
        BY <2>2 DEF SeatsMeanRiding
      <3>2. v # None
        BY DEF TypeOK
      <3>3. riding'[q] = IF joining[q] # None THEN joining[q] ELSE riding[q]
        BY <2>1, <3>1
      <3> HIDE DEF q
      <3> QED
        BY <2>3, <3>1, <3>2, <3>3 DEF q
    <2>5. OneSeat'
      BY <2>1 DEF OneSeat
    <2> QED
      BY <2>4, <2>5
  <1> QED
    BY <1>1, <1>2, <1>3, <1>4, <1>5, <1>6, <1>7, <1>8, <1>9, <1>10, <1>11
       DEF Next, Frame, Between

\* The one-vehicle invariant holds throughout.
LEMMA OneInvariant == ASSUME OneVehicle PROVE Spec => []OneIInv
  <1>1. Init => OneIInv
    BY InitIInv DEF Init, OneIInv, SeatsMeanRiding, OneSeat
  <1>2. OneIInv /\ [Next]_vars => OneIInv'
    BY StepOne
  <1> QED
    BY <1>1, <1>2, PTL DEF Spec

\* With one vehicle nobody has two seats ...
THEOREM OneVehicleOneSeat == ASSUME OneVehicle PROVE Spec => []OneSeat
  BY OneInvariant, PTL DEF OneIInv

\* ... between frames seats and IsInVehicle agree ...
THEOREM OneVehicleAgrees == ASSUME OneVehicle PROVE Spec => []SeatsAgree
  <1>1. OneIInv => SeatsAgree
    BY DEF OneIInv, IInv, TypeOK, Pending, SeatsMeanRiding, SeatsAgree
  <1> QED
    BY <1>1, OneInvariant, PTL

\* ... and the vehicle carries those who ride it, and nobody else.
THEOREM OneVehicleCarries == ASSUME OneVehicle PROVE Spec => CarriesRidersOnly
  <1>1. OneIInv /\ [Next]_vars =>
            [stage = "handling" =>
                \A r \in Rider : place'[r] # place[r] => riding[r] = place'[r]]_vars
    <2> SUFFICES ASSUME OneIInv, [Next]_vars, stage = "handling",
                        NEW r \in Rider, place'[r] # place[r]
                 PROVE  riding[r] = place'[r]
      OBVIOUS
    <2>1. \E v \in Vehicle : VehicleHandling(v)
      BY DEF Next, Frame, Between, vars, seating, BeginFrame, BeginEnter, BeginLeave,
             EndFrame, EnterVehicle, LeaveVehicle, Join, Quit, PressUse, Walk,
             SpawnVehicle, SpawnDriver, Rider
    <2>2. PICK v \in Vehicle :
              place'[r] = IF r \in alive /\ SeatedIn(v, r) THEN v ELSE place[r]
      BY <2>1 DEF VehicleHandling
    <2>3. r \in alive /\ SeatedIn(v, r) /\ place'[r] = v
      BY <2>2
    <2>4. joining[r] = None
      BY DEF OneIInv, IInv, Pending
    <2> QED
      BY <2>3, <2>4 DEF OneIInv, SeatsMeanRiding, SeatedIn
  <1> QED
    BY <1>1, OneInvariant, PTL DEF Spec, CarriesRidersOnly
=============================================================================
