--------------------------- MODULE FactoryProofs ---------------------------
(***************************************************************************)
(* Theorems about Factory, for every set of machines, recipes and players: *)
(* machines that work on request are busy exactly while they make          *)
(* something, belts are served in turns, a recipe that starts has been     *)
(* paid, and an automatic machine keeps its reagents.                      *)
(***************************************************************************)
EXTENDS Factory, SequenceTheorems, FiniteSetTheorems, WellFoundedInduction, TLAPS

\* What the proof needs to know of the types, and where a visit is.
WorkTypes ==
    /\ making \in [Machine -> Kind \cup {Nothing}]
    /\ task \in [Machine -> Tasks]
    /\ now \in Machine \cup {Nothing}
    /\ stage = "produce" => todo \subseteq Producer /\ now \in Producer \cup {Nothing}
    /\ stage \in {"net", "craft"} => now = Nothing

\* The inductive invariant.
IInv == WorkTypes /\ BusyMeansMaking

\* The invariant holds before the first frame.
LEMMA InitIInv == Init => IInv
  BY FactoryAssumption DEF Init, IInv, WorkTypes, BusyMeansMaking, Tasks

\* The table holds recipes.
LEMMA RecipesTyped == \A r \in DOMAIN Recipes : Recipes[r] \in RecipeType
  <1>1. Recipes \in Seq(RecipeType)
    BY FactoryAssumption
  <1>2. DOMAIN Recipes = 1 .. Len(Recipes)
    BY <1>1, LenProperties
  <1> QED
    BY <1>1, <1>2, ElementOfSeq

\* What neither touches the tasks nor moves the visit keeps the invariant.
LEMMA SameWork ==
  ASSUME IInv, UNCHANGED <<making, task, now, stage, todo>>
  PROVE  IInv'
  BY DEF IInv, WorkTypes, BusyMeansMaking

\* A request enqueues waiting machines only.
LEMMA CraftKeeps == ASSUME IInv, NEW p \in Player, CraftItem(p) PROVE IInv'
  <1>1. stage' = "craft" /\ now' = now /\ making' = making /\ stage = "craft"
    BY DEF CraftItem
  <1>2. CASE UNCHANGED task
    BY <1>1, <1>2 DEF IInv, WorkTypes, BusyMeansMaking
  <1>3. CASE open[p] \in Producer /\ task' = [task EXCEPT ![open[p]] = Enqueued(@)]
    <2>1. open[p] \in Machine
      BY <1>3, FactoryAssumption
    <2>2. \A m \in Machine : task'[m] = IF m = open[p] THEN Enqueued(task[m]) ELSE task[m]
      BY <1>3, <2>1 DEF IInv, WorkTypes
    <2>3. \A t \in Tasks : /\ Enqueued(t) \in Tasks
                           /\ Enqueued(t) = "busy" <=> t = "busy"
                           /\ Enqueued(t) = "auto" <=> t = "auto"
      BY DEF Enqueued, Tasks
    <2>4. task' \in [Machine -> Tasks]
      BY <1>3, <2>1, <2>3 DEF IInv, WorkTypes
    <2>5. WorkTypes'
      BY <1>1, <2>4 DEF IInv, WorkTypes
    <2>6. BusyMeansMaking'
      <3> SUFFICES ASSUME NEW m \in Producer
                   PROVE  /\ m \in Automatic <=> task'[m] = "auto"
                          /\ m \notin Automatic => (task'[m] = "busy" <=> making'[m] # Nothing)
        BY DEF BusyMeansMaking
      <3>1. m \in Machine /\ task[m] \in Tasks
        BY FactoryAssumption DEF IInv, WorkTypes
      <3>2. /\ task'[m] = "busy" <=> task[m] = "busy"
            /\ task'[m] = "auto" <=> task[m] = "auto"
        BY <2>2, <2>3, <3>1
      <3> QED
        BY <1>1, <3>2 DEF IInv, BusyMeansMaking
    <2> QED
      BY <2>5, <2>6 DEF IInv
  <1> QED
    BY <1>2, <1>3 DEF CraftItem

\* The machine at work changes its task and its product together.
LEMMA WorkKeeps ==
  ASSUME IInv, NEW m \in Producer,
         UNCHANGED <<now, stage, todo>>,
         NEW k \in Kind \cup {Nothing}, NEW t \in Tasks,
         making' = [making EXCEPT ![m] = k], task' = [task EXCEPT ![m] = t],
         m \in Automatic <=> t = "auto",
         m \notin Automatic => (t = "busy" <=> k # Nothing)
  PROVE  IInv'
  <1>1. m \in Machine
    BY FactoryAssumption
  <1>2. making' \in [Machine -> Kind \cup {Nothing}] /\ task' \in [Machine -> Tasks]
    BY <1>1 DEF IInv, WorkTypes
  <1>3. \A n \in Producer : n \in Machine
    BY FactoryAssumption
  <1>4. /\ making'[m] = k /\ task'[m] = t
        /\ \A n \in Machine : n # m => making'[n] = making[n] /\ task'[n] = task[n]
    BY <1>1 DEF IInv, WorkTypes
  <1>5. BusyMeansMaking'
    BY <1>3, <1>4 DEF IInv, BusyMeansMaking
  <1> QED
    BY <1>2, <1>5 DEF IInv, WorkTypes

\* Burning fuel, finishing a product and attempting the next one.
LEMMA ProduceKeeps == ASSUME IInv, ProduceSlot PROVE IInv'
  <1> DEFINE m == now
  <1>1. m \in Producer /\ m \in Machine /\ m # Nothing /\ UNCHANGED <<now, stage, todo>>
    BY FactoryAssumption DEF ProduceSlot, IInv, WorkTypes
  <1>2. /\ making[m] \in Kind \cup {Nothing} /\ task[m] \in Tasks
        /\ m \in Automatic <=> task[m] = "auto"
        /\ m \notin Automatic => (task[m] = "busy" <=> making[m] # Nothing)
    BY <1>1 DEF IInv, WorkTypes, BusyMeansMaking
  <1>3. CASE UNCHANGED <<making, task>>
    BY <1>1, <1>3, SameWork
  <1>4. CASE Emit(m) /\ making[m] # Nothing
    <2>1. /\ making' = [making EXCEPT ![m] = Nothing]
          /\ task' = [task EXCEPT ![m] = Finished(task[m])]
      BY <1>4 DEF Emit
    <2>2. /\ Finished(task[m]) \in Tasks
          /\ m \in Automatic <=> Finished(task[m]) = "auto"
          /\ Finished(task[m]) # "busy"
      BY <1>2 DEF Finished, Tasks
    <2> HIDE DEF m
    <2> QED
      BY <1>1, <2>1, <2>2, WorkKeeps
  <1>5. CASE Attempt(m) /\ making[m] = Nothing /\ task[m] # "waiting"
    <2>1. CASE \E r \in DOMAIN Recipes :
                   /\ making' = [making EXCEPT ![m] = Recipes[r].product]
                   /\ task' = [task EXCEPT ![m] = Attempted(@, TRUE)]
      <3>1. PICK r \in DOMAIN Recipes :
                   /\ making' = [making EXCEPT ![m] = Recipes[r].product]
                   /\ task' = [task EXCEPT ![m] = Attempted(task[m], TRUE)]
        BY <2>1
      <3>2. Recipes[r].product \in Kind
        BY RecipesTyped DEF RecipeType
      <3>3. Recipes[r].product # Nothing
        BY <3>2, FactoryAssumption
      <3>4. /\ Attempted(task[m], TRUE) \in Tasks
            /\ m \in Automatic <=> Attempted(task[m], TRUE) = "auto"
            /\ m \notin Automatic => Attempted(task[m], TRUE) = "busy"
        BY <1>2, <1>5 DEF Attempted, Tasks
      <3> HIDE DEF m
      <3> QED
        BY <1>1, <3>1, <3>2, <3>3, <3>4, WorkKeeps
    <2>2. CASE making' = making /\ task' = [task EXCEPT ![m] = Attempted(@, FALSE)]
      <3>1. making' = [making EXCEPT ![m] = Nothing]
        BY <1>1, <1>5, <2>2 DEF IInv, WorkTypes
      <3>2. task' = [task EXCEPT ![m] = Attempted(task[m], FALSE)]
        BY <2>2
      <3>3. /\ Attempted(task[m], FALSE) \in Tasks
            /\ m \in Automatic <=> Attempted(task[m], FALSE) = "auto"
            /\ Attempted(task[m], FALSE) # "busy"
        BY <1>2, <1>5 DEF Attempted, Tasks
      <3> HIDE DEF m
      <3> QED
        BY <1>1, <3>1, <3>2, <3>3, WorkKeeps
    <2> QED
      BY <1>5, <2>1, <2>2 DEF Attempt
  <1> QED
    BY <1>3, <1>4, <1>5 DEF ProduceSlot, Burn

\* Every step of a frame, and of what happens between frames, keeps it.
LEMMA StepIInv == IInv /\ [Next]_vars => IInv'
  <1> SUFFICES ASSUME IInv, [Next]_vars PROVE IInv'
    OBVIOUS
  <1>1. CASE UNCHANGED vars
    BY <1>1, SameWork DEF vars
  <1>2. CASE Between
    <2>1. UNCHANGED <<making, task, now, stage, todo>>
      BY <1>2 DEF Between, Request, Inspect, TakeOut, Deliver, Build, crafting
    <2> QED
      BY <2>1, SameWork
  <1>3. CASE BeginFrame \/ BeginProduce \/ BeginPush \/ EndFrame
    <2>1. /\ UNCHANGED <<making, task, now>>
          /\ now = Nothing
          /\ stage' = "produce" => todo' = Producer
      BY <1>3 DEF BeginFrame, BeginProduce, BeginPush, EndFrame, crafting, IInv, WorkTypes
    <2>2. WorkTypes'
      BY <2>1 DEF IInv, WorkTypes
    <2>3. BusyMeansMaking'
      BY <2>1 DEF IInv, BusyMeansMaking
    <2> QED
      BY <2>2, <2>3 DEF IInv
  <1>4. ASSUME NEW p \in Player, CraftItem(p) PROVE IInv'
    BY <1>4, CraftKeeps
  <1>5. ASSUME NEW m \in Machine, Visit(m) PROVE IInv'
    <2>1. /\ UNCHANGED <<making, task, stage>> /\ now' = m /\ m \in todo
          /\ todo' \subseteq todo /\ stage \in {"produce", "push"}
      BY <1>5 DEF Visit, crafting
    <2>2. WorkTypes'
      BY <2>1 DEF IInv, WorkTypes
    <2>3. BusyMeansMaking'
      BY <2>1 DEF IInv, BusyMeansMaking
    <2> QED
      BY <2>2, <2>3 DEF IInv
  <1>6. CASE ProduceSlot
    BY <1>6, ProduceKeeps
  <1>7. CASE TickDown \/ PushDone
    <2>1. UNCHANGED <<making, task, stage, todo>> /\ now' = Nothing
      BY <1>7 DEF TickDown, PushDone, crafting
    <2>2. WorkTypes'
      BY <2>1 DEF IInv, WorkTypes
    <2>3. BusyMeansMaking'
      BY <2>1 DEF IInv, BusyMeansMaking
    <2> QED
      BY <2>2, <2>3 DEF IInv
  <1>8. CASE PushUnit \/ PushNextSlot
    <2>1. UNCHANGED <<making, task, now, stage, todo>>
      BY <1>8 DEF PushUnit, PushNextSlot, crafting
    <2> QED
      BY <2>1, SameWork
  <1> QED
    BY <1>1, <1>2, <1>3, <1>4, <1>5, <1>6, <1>7, <1>8 DEF Next, Frame

\* A machine that works on request is busy exactly while it makes something.
THEOREM BusyMachinesMake == Spec => []BusyMeansMaking
  <1>1. IInv => BusyMeansMaking
    BY DEF IInv
  <1> QED
    BY <1>1, InitIInv, StepIInv, PTL DEF Spec

----------------------------------------------------------------------------
(***************************************************************************)
(* The rolling counter of PushItemsOnNodes: in a pass no belt gets two     *)
(* units, and over many passes none gets two more than another, for belts  *)
(* that come and go.                                                       *)
(*                                                                         *)
(* Both are one argument.  Going round the sides, the belts already served *)
(* are those from some side on up to the counter, so the belt the counter  *)
(* selects next is not among them as long as one is left over.             *)
(***************************************************************************)


\* The belts of B from side d on, round to the counter c.
Straight(B, d, c) == {n \in B : d <= n /\ n < c}
Around(B, d, c) == {n \in B : d <= n \/ n < c}

\* S is what has been served of B when the counter is at c.
Arc(S, B, c) ==
    \E d \in 0 .. 4 : \/ d <= c /\ S = Straight(B, d, c)
                      \/ c <= d /\ S = Around(B, d, c)

\* The belts that got a unit in this visit, and those that are ahead of the
\* least served one.
Given == {n \in Node : got[n] # 0}
Leading(m) == {n \in Node : lead[m][n] # 0}

\* What the proof needs to know of the types, and where a visit is.
BeltTypes ==
    /\ counter \in [Machine -> 0 .. 4]
    /\ belts \in [Machine -> SUBSET Node]
    /\ got \in [Node -> {0, 1}] /\ lead \in [Machine -> [Node -> {0, 1}]]
    /\ budget \in Nat
    /\ now \in Machine \cup {Nothing}
    /\ stage = "net" => now = Nothing

\* In a visit there are as many belts left as there are units to give.
PassInv ==
    stage = "push" /\ now # Nothing =>
        /\ Arc(Given, belts[now], counter[now])
        /\ budget <= Cardinality(belts[now] \ Given)

\* Some belt is always the least served.
TurnsInv ==
    \A m \in Machine : /\ Arc(Leading(m), belts[m], counter[m])
                       /\ belts[m] # {} => Leading(m) # belts[m]

BeltInv == BeltTypes /\ PassInv /\ TurnsInv

----------------------------------------------------------------------------
(* The counter                                                             *)

LEMMA NodesFinite == ASSUME NEW B \in SUBSET Node PROVE IsFiniteSet(B)
  <1>1. IsFiniteSet(0 .. 3)
    <2>1. 0 \in Int /\ 3 \in Int
      OBVIOUS
    <2> QED
      BY <2>1, FS_Interval
  <1> QED
    BY <1>1, FS_Subset DEF Node

\* Nothing has been served, wherever the counter is.
LEMMA NothingServed == ASSUME NEW B \in SUBSET Node, NEW c \in 0 .. 4 PROVE Arc({}, B, c)
  <1>1. \A n \in B : ~(c <= n /\ n < c)
    BY DEF Node
  <1>2. Straight(B, c, c) = {}
    BY <1>1 DEF Straight
  <1>3. c <= c
    OBVIOUS
  <1> QED
    BY <1>2, <1>3 DEF Arc

\* What NextNode says of the side n the counter c selects.
Selected(B, c, n) ==
    /\ n \in B
    /\ \/ c <= n /\ \A i \in B : c <= i => n <= i
       \/ (\A i \in B : i < c) /\ \A i \in B : n <= i

LEMMA NextIsSelected ==
  ASSUME BeltTypes, NEW m \in Machine, NEW n \in Node, NextNode(m, n)
  PROVE  Selected(belts[m], counter[m], n)
  <1> DEFINE ahead == {i \in belts[m] : i >= counter[m]}
  <1>1. belts[m] \in SUBSET Node /\ counter[m] \in 0 .. 4
    BY DEF BeltTypes
  <1>2. CASE ahead # {}
    BY <1>1, <1>2 DEF NextNode, Selected, Node
  <1>3. CASE ahead = {}
    BY <1>1, <1>3 DEF NextNode, Selected, Node
  <1> QED
    BY <1>2, <1>3

\* While a belt is left over, the counter selects one that is, and passes
\* it on.
LEMMA NextIsUnserved ==
  ASSUME NEW B \in SUBSET Node, NEW S, NEW c \in 0 .. 4, NEW n \in Node,
         Arc(S, B, c), Selected(B, c, n), S # B
  PROVE  n \notin S /\ Arc(S \cup {n}, B, n + 1)
  <1>1. PICK d \in 0 .. 4 : \/ d <= c /\ S = Straight(B, d, c)
                            \/ c <= d /\ S = Around(B, d, c)
    BY DEF Arc
  <1>2. n + 1 \in 0 .. 4
    BY DEF Node
  <1>3. CASE d <= c /\ S = Straight(B, d, c)
    <2>1. CASE c <= n /\ \A i \in B : c <= i => n <= i
      <3>1. n \notin S /\ S \cup {n} = Straight(B, d, n + 1) /\ d <= n + 1
        <4>1. \A i \in B : i \in S \/ i = n <=> d <= i /\ i < n + 1
          BY <1>3, <2>1 DEF Straight, Node, Selected
        <4>2. n \in B /\ n \notin S /\ d <= n + 1 /\ S \subseteq B
          BY <1>3, <2>1 DEF Straight, Node, Selected
        <4>3. S \cup {n} = {i \in B : d <= i /\ i < n + 1}
          BY <4>1, <4>2
        <4> QED
          BY <4>2, <4>3 DEF Straight
      <3> QED
        BY <3>1, <1>2 DEF Arc
    <2>2. CASE (\A i \in B : i < c) /\ \A i \in B : n <= i
      <3>1. PICK k \in B : k \notin S
        BY <1>3 DEF Straight
      <3>2. k < d
        BY <1>3, <2>2, <3>1 DEF Straight, Node
      <3>3. n < d
        BY <2>2, <3>2 DEF Node
      <3>4. n \notin S /\ S \cup {n} = Around(B, d, n + 1)
        <4>1. \A i \in B : i \in S \/ i = n <=> d <= i \/ i < n + 1
          BY <1>3, <2>2, <3>3 DEF Straight, Node, Selected
        <4>2. n \in B /\ n \notin S /\ S \subseteq B
          BY <1>3, <3>3 DEF Straight, Node, Selected
        <4>3. S \cup {n} = {i \in B : d <= i \/ i < n + 1}
          BY <4>1, <4>2
        <4> QED
          BY <4>2, <4>3 DEF Around
      <3>5. n + 1 <= d
        BY <3>3 DEF Node
      <3> QED
        BY <3>4, <3>5, <1>2 DEF Arc
    <2> QED
      BY <2>1, <2>2 DEF Selected
  <1>4. CASE c <= d /\ S = Around(B, d, c)
    <2>1. PICK k \in B : k \notin S
      BY <1>4 DEF Around
    <2>2. c <= k /\ k < d
      BY <1>4, <2>1 DEF Around, Node
    <2>3. c <= n /\ n <= k
      BY <2>2 DEF Selected, Node
    <2>4. n \notin S /\ S \cup {n} = Around(B, d, n + 1)
      <3>1. \A i \in B : c <= i => n <= i
        BY <2>2 DEF Selected, Node
      <3>2. \A i \in B : i \in S \/ i = n <=> d <= i \/ i < n + 1
        BY <1>4, <2>2, <2>3, <3>1 DEF Around, Node
      <3>3. n \in B /\ n \notin S /\ S \subseteq B
        BY <1>4, <2>2, <2>3 DEF Around, Node, Selected
      <3>4. S \cup {n} = {i \in B : d <= i \/ i < n + 1}
        BY <3>2, <3>3
      <3> QED
        BY <3>3, <3>4 DEF Around
    <2>5. n + 1 <= d
      BY <2>2, <2>3 DEF Node
    <2> QED
      BY <2>4, <2>5, <1>2 DEF Arc
  <1> QED
    BY <1>1, <1>3, <1>4

----------------------------------------------------------------------------
(* The steps                                                               *)

\* No belt has been served before the first frame.
LEMMA InitBelts == Init => BeltInv
  <1> SUFFICES ASSUME Init PROVE BeltInv
    OBVIOUS
  <1>1. BeltTypes /\ PassInv
    BY FactoryAssumption DEF Init, BeltTypes, PassInv
  <1>2. TurnsInv
    <2> SUFFICES ASSUME NEW m \in Machine
                 PROVE  Arc(Leading(m), belts[m], counter[m])
                        /\ (belts[m] # {} => Leading(m) # belts[m])
      BY DEF TurnsInv
    <2>1. Leading(m) = {} /\ belts[m] = {} /\ counter[m] = 0
      BY DEF Init, Leading
    <2> QED
      BY <2>1, NothingServed
  <1> QED
    BY <1>1, <1>2 DEF BeltInv

\* What leaves the router alone and does not enter a visit keeps the
\* invariant.
LEMMA SameBelts ==
  ASSUME BeltInv, UNCHANGED <<routing, belts>>,
         \/ UNCHANGED <<stage, now>>
         \/ now' = Nothing
         \/ stage' \notin {"push", "net"} /\ now' \in Machine \cup {Nothing}
  PROVE  BeltInv'
  <1>1. counter' = counter /\ belts' = belts /\ got' = got /\ lead' = lead /\ budget' = budget
    BY DEF routing
  <1>2. BeltTypes'
    BY <1>1 DEF BeltInv, BeltTypes
  <1>3. PassInv'
    BY <1>1 DEF BeltInv, PassInv, Given
  <1>4. TurnsInv'
    BY <1>1 DEF BeltInv, TurnsInv, Leading
  <1> QED
    BY <1>2, <1>3, <1>4 DEF BeltInv

\* Building starts the count of turns afresh.
LEMMA BuildKeeps ==
  ASSUME BeltInv, NEW m \in Machine, NEW n \in Node, Build(m, n)
  PROVE  BeltInv'
  <1> DEFINE new == IF n \in belts[m] THEN belts[m] \ {n} ELSE belts[m] \cup {n}
  <1>1. /\ counter' = counter /\ got' = got /\ budget' = budget /\ now' = now
        /\ stage = "net" /\ stage' = "net"
    BY DEF Build
  <1>2. new \in SUBSET Node
    BY DEF BeltInv, BeltTypes
  <1>3. \A i \in Machine : belts'[i] = IF i = m THEN new ELSE belts[i]
    BY DEF Build, BeltInv, BeltTypes
  <1>4. \A i \in Machine : lead'[i] = IF i = m THEN [j \in Node |-> 0] ELSE lead[i]
    BY DEF Build, BeltInv, BeltTypes
  <1>5. BeltTypes'
    <2>1. belts' \in [Machine -> SUBSET Node]
      BY <1>2 DEF Build, BeltInv, BeltTypes
    <2>2. lead' \in [Machine -> [Node -> {0, 1}]]
      BY DEF Build, BeltInv, BeltTypes
    <2> QED
      BY <1>1, <2>1, <2>2 DEF BeltInv, BeltTypes
  <1>6. PassInv'
    BY <1>1 DEF PassInv
  <1>7. TurnsInv'
    <2> SUFFICES ASSUME NEW i \in Machine
                 PROVE  Arc(Leading(i)', belts'[i], counter'[i])
                        /\ (belts'[i] # {} => Leading(i)' # belts'[i])
      BY DEF TurnsInv
    <2>1. CASE i = m
      <3>1. Leading(i)' = {}
        BY <1>4, <2>1 DEF Leading
      <3>2. belts'[i] \in SUBSET Node /\ counter'[i] \in 0 .. 4
        BY <1>5 DEF BeltTypes
      <3> QED
        BY <3>1, <3>2, NothingServed
    <2>2. CASE i # m
      <3>1. Leading(i)' = Leading(i)
        BY <1>4, <2>2 DEF Leading
      <3> QED
        BY <1>1, <1>3, <2>2, <3>1 DEF BeltInv, TurnsInv
    <2> QED
      BY <2>1, <2>2
  <1> QED
    BY <1>5, <1>6, <1>7 DEF BeltInv

\* A visit has a unit for each belt, and no belt has been served.
LEMMA VisitKeeps == ASSUME BeltInv, NEW m \in Machine, Visit(m) PROVE BeltInv'
  <1>1. /\ counter' = counter /\ lead' = lead /\ belts' = belts /\ stage' = stage
        /\ now' = m /\ got' = [n \in Node |-> 0] /\ stage # "net"
    BY DEF Visit
  <1>2. belts[m] \in SUBSET Node /\ counter[m] \in 0 .. 4
    BY DEF BeltInv, BeltTypes
  <1>3. Cardinality(belts[m]) \in Nat
    BY <1>2, NodesFinite, FS_CardinalityType
  <1>4. budget' \in Nat /\ budget' <= Cardinality(belts[m])
    BY <1>3 DEF Visit
  <1>5. BeltTypes'
    BY <1>1, <1>4 DEF BeltInv, BeltTypes
  <1>6. PassInv'
    <2>1. Given' = {}
      BY <1>1 DEF Given
    <2>2. Arc({}, belts[m], counter[m])
      BY <1>2, NothingServed
    <2>3. belts[m] \ {} = belts[m]
      OBVIOUS
    <2> QED
      BY <1>1, <1>4, <2>1, <2>2, <2>3 DEF PassInv
  <1>7. TurnsInv'
    BY <1>1 DEF BeltInv, TurnsInv, Leading
  <1> QED
    BY <1>5, <1>6, <1>7 DEF BeltInv

\* A unit goes to a belt that has had none in this visit and is not ahead of
\* the least served one.
LEMMA PushKeeps == ASSUME BeltInv, PushUnit PROVE BeltInv'
  <1> DEFINE m == now
             B == belts[now]
             c == counter[now]
  <1>1. /\ stage = "push" /\ stage' = stage /\ now' = now /\ now # Nothing
        /\ budget > 0 /\ budget' = budget - 1 /\ belts' = belts
    BY DEF PushUnit, Spent
  <1>2. /\ now \in Machine /\ B \in SUBSET Node /\ c \in 0 .. 4 /\ budget \in Nat
    BY <1>1 DEF BeltInv, BeltTypes
  <1>3. PICK n \in Node : /\ NextNode(now, n)
                          /\ counter' = [counter EXCEPT ![now] = n + 1]
                          /\ got' = [got EXCEPT ![n] = @ + 1]
                          /\ lead' = [lead EXCEPT ![now] = Ahead(now, n)]
    BY DEF PushUnit
  <1>4. Selected(B, c, n)
    BY <1>2, <1>3, NextIsSelected DEF BeltInv
  <1>5. n \in B
    BY <1>4 DEF Selected
  <1>6. n + 1 \in 0 .. 4
    BY DEF Node
  <1>7. \A i \in Machine : counter'[i] = IF i = now THEN n + 1 ELSE counter[i]
    BY <1>3 DEF BeltInv, BeltTypes
  <1>8. n \notin Given /\ Arc(Given \cup {n}, B, n + 1)
    <2>1. Arc(Given, B, c)
      BY <1>1 DEF BeltInv, PassInv
    <2>2. Given # B
      <3> SUFFICES ASSUME Given = B PROVE FALSE
        OBVIOUS
      <3>1. B \ Given = {}
        OBVIOUS
      <3>2. budget <= Cardinality({})
        BY <1>1, <3>1 DEF BeltInv, PassInv
      <3> QED
        BY <1>1, <1>2, <3>2, FS_EmptySet
    <2> QED
      BY <1>2, <1>4, <2>1, <2>2, NextIsUnserved
  <1>9. \A i \in Node : got'[i] = IF i = n THEN 1 ELSE got[i]
    BY <1>3, <1>8 DEF BeltInv, BeltTypes, Given
  <1>10. n \notin Leading(now) /\ Arc(Leading(now) \cup {n}, B, n + 1)
    BY <1>2, <1>4, <1>5, NextIsUnserved DEF BeltInv, TurnsInv
  <1>11. Leading(now) \subseteq B
    BY <1>2 DEF BeltInv, TurnsInv, Arc, Straight, Around
  <1>12. lead[now] \in [Node -> {0, 1}] /\ lead[now][n] = 0
    BY <1>2, <1>10 DEF BeltInv, BeltTypes, Leading
  <1>13. /\ Ahead(now, n) \in [Node -> {0, 1}]
         /\ {i \in Node : Ahead(now, n)[i] # 0} =
                IF Leading(now) \cup {n} = B THEN {} ELSE Leading(now) \cup {n}
    <2> DEFINE more == [lead[now] EXCEPT ![n] = @ + 1]
    <2>1. more \in [Node -> {0, 1}] /\ \A i \in Node : more[i] # 0 <=> i \in Leading(now) \cup {n}
      BY <1>12 DEF Leading
    <2>2. (\A b \in B : more[b] > 0) <=> Leading(now) \cup {n} = B
      <3>1. \A i \in Node : more[i] > 0 <=> i \in Leading(now) \cup {n}
        BY <2>1
      <3> QED
        BY <3>1, <1>2, <1>5, <1>11
    <2>3. CASE Leading(now) \cup {n} = B
      <3>1. Ahead(now, n) = [i \in Node |-> IF i \in B THEN more[i] - 1 ELSE 0]
        BY <2>2, <2>3 DEF Ahead
      <3>2. \A i \in B : more[i] = 1
        BY <1>2, <2>1, <2>3
      <3>3. \A i \in Node : Ahead(now, n)[i] = 0
        BY <3>1, <3>2
      <3>4. Ahead(now, n) \in [Node -> {0, 1}]
        BY <3>1, <3>2
      <3> QED
        BY <2>3, <3>3, <3>4
    <2>4. CASE Leading(now) \cup {n} # B
      <3>1. Ahead(now, n) = more
        BY <2>2, <2>4 DEF Ahead
      <3>2. Leading(now) \cup {n} \subseteq Node
        BY DEF Leading
      <3>3. {i \in Node : more[i] # 0} = Leading(now) \cup {n}
        BY <2>1, <3>2
      <3> HIDE DEF more
      <3> QED
        BY <2>1, <2>4, <3>1, <3>3
    <2> QED
      BY <2>3, <2>4
  <1>14. \A i \in Machine : lead'[i] = IF i = now THEN Ahead(now, n) ELSE lead[i]
    BY <1>3 DEF BeltInv, BeltTypes
  <1>15. BeltTypes'
    <2>1. counter' \in [Machine -> 0 .. 4]
      BY <1>3, <1>6 DEF BeltInv, BeltTypes
    <2>2. got' \in [Node -> {0, 1}]
      BY <1>3, <1>8 DEF BeltInv, BeltTypes, Given
    <2>3. lead' \in [Machine -> [Node -> {0, 1}]]
      BY <1>3, <1>13 DEF BeltInv, BeltTypes
    <2>4. budget' \in Nat
      BY <1>1, <1>2
    <2> QED
      BY <1>1, <2>1, <2>2, <2>3, <2>4 DEF BeltInv, BeltTypes
  <1>16. PassInv'
    <2>1. Given' = Given \cup {n}
      BY <1>9 DEF Given
    <2>2. IsFiniteSet(B \ Given)
      BY <1>2, NodesFinite
    <2>3. B \ (Given \cup {n}) = (B \ Given) \ {n}
      OBVIOUS
    <2>4. n \in B \ Given
      BY <1>5, <1>8
    <2>5. Cardinality(B \ (Given \cup {n})) = Cardinality(B \ Given) - 1
      BY <2>2, <2>3, <2>4, FS_RemoveElement
    <2>6. budget <= Cardinality(B \ Given) /\ Cardinality(B \ Given) \in Nat
      BY <1>1, <2>2, FS_CardinalityType DEF BeltInv, PassInv
    <2>7. budget' <= Cardinality(B \ (Given \cup {n}))
      BY <1>1, <1>2, <2>5, <2>6
    <2> QED
      BY <1>1, <1>2, <1>7, <1>8, <2>1, <2>7 DEF PassInv
  <1>17. TurnsInv'
    <2> SUFFICES ASSUME NEW i \in Machine
                 PROVE  Arc(Leading(i)', belts'[i], counter'[i])
                        /\ (belts'[i] # {} => Leading(i)' # belts'[i])
      BY DEF TurnsInv
    <2>1. CASE i # now
      <3>1. Leading(i)' = Leading(i)
        BY <1>14, <2>1 DEF Leading
      <3> QED
        BY <1>1, <1>7, <2>1, <3>1 DEF BeltInv, TurnsInv
    <2>2. CASE i = now
      <3>1. Leading(i)' = IF Leading(now) \cup {n} = B THEN {} ELSE Leading(now) \cup {n}
        BY <1>2, <1>13, <1>14, <2>2 DEF Leading
      <3>2. belts'[i] = B /\ counter'[i] = n + 1
        BY <1>1, <1>2, <1>7, <2>2
      <3>3. Arc({}, B, n + 1)
        BY <1>2, <1>6, NothingServed
      <3> QED
        BY <1>10, <3>1, <3>2, <3>3
    <2> QED
      BY <2>1, <2>2
  <1> QED
    BY <1>15, <1>16, <1>17 DEF BeltInv

\* Every step keeps the invariant.
LEMMA StepBelts == BeltInv /\ [Next]_vars => BeltInv'
  <1> SUFFICES ASSUME BeltInv, [Next]_vars PROVE BeltInv'
    OBVIOUS
  <1>1. ASSUME NEW p \in Player, NEW k, Request(p, k) PROVE BeltInv'
    BY <1>1, SameBelts DEF Request
  <1>2. ASSUME NEW p \in Player, NEW m, Inspect(p, m) PROVE BeltInv'
    BY <1>2, SameBelts DEF Inspect
  <1>3. ASSUME NEW m \in Machine, NEW s \in Slot, TakeOut(m, s) PROVE BeltInv'
    BY <1>3, SameBelts DEF TakeOut
  <1>4. ASSUME NEW m \in Machine, NEW s \in Slot, NEW new \in Supply, Deliver(m, s, new)
        PROVE  BeltInv'
    BY <1>4, SameBelts DEF Deliver
  <1>5. ASSUME NEW m \in Router, NEW n \in Sites[m], Build(m, n) PROVE BeltInv'
    <2>1. m \in Machine
      BY FactoryAssumption
    <2>2. n \in Node
      BY <2>1, FactoryAssumption
    <2> QED
      BY <1>5, <2>1, <2>2, BuildKeeps
  <1>6. CASE BeginFrame
    BY <1>6, SameBelts DEF BeginFrame, BeltInv, BeltTypes
  <1>7. CASE BeginProduce
    BY <1>7, SameBelts DEF BeginProduce, BeltInv, BeltTypes
  <1>8. CASE BeginPush
    BY <1>8, SameBelts DEF BeginPush
  <1>9. CASE EndFrame
    BY <1>9, SameBelts DEF EndFrame
  <1>10. ASSUME NEW p \in Player, CraftItem(p) PROVE BeltInv'
    BY <1>10, SameBelts DEF CraftItem
  <1>11. ASSUME NEW m \in Machine, Visit(m) PROVE BeltInv'
    BY <1>11, VisitKeeps
  <1>12. CASE ProduceSlot
    BY <1>12, SameBelts DEF ProduceSlot
  <1>13. CASE TickDown
    BY <1>13, SameBelts DEF TickDown
  <1>14. CASE PushUnit
    BY <1>14, PushKeeps
  <1>15. CASE PushNextSlot
    BY <1>15, SameBelts DEF PushNextSlot
  <1>16. CASE PushDone
    BY <1>16, SameBelts DEF PushDone
  <1>17. CASE UNCHANGED vars
    BY <1>17, SameBelts DEF vars, routing
  <1> QED
    BY <1>1, <1>2, <1>3, <1>4, <1>5, <1>6, <1>7, <1>8, <1>9, <1>10, <1>11, <1>12, <1>13,
       <1>14, <1>15, <1>16, <1>17 DEF Next, Between, Frame

----------------------------------------------------------------------------
(* The theorems                                                            *)

\* In a pass of PushItemsOnNodes no belt gets two units, however many stacks
\* the machine holds and wherever the counter was left.
THEOREM BeltsServedOnce == Spec => []EachBeltOnce
  <1>1. BeltInv => EachBeltOnce
    BY DEF BeltInv, BeltTypes, EachBeltOnce
  <1> QED
    BY <1>1, InitBelts, StepBelts, PTL DEF Spec

\* As long as its belts stay, a machine serves them in turns: none gets two
\* units more than another, over however many passes.
THEOREM BeltsInTurns == Spec => []ServedInTurns
  <1>1. BeltInv => ServedInTurns
    BY DEF BeltInv, BeltTypes, ServedInTurns
  <1> QED
    BY <1>1, InitBelts, StepBelts, PTL DEF Spec

----------------------------------------------------------------------------
(* Recursion over the slots                                                *)

\* Every set of naturals that has an element has a least one.
LEMMA LeastNatural ==
    ASSUME NEW S \in SUBSET Nat, S # {}
    PROVE  \E m \in S : \A k \in S : m <= k
<1> DEFINE R == StrictSubsetOrdering(Nat)
           T == {0 .. n : n \in S}
<1>1. T # {} /\ T \subseteq FiniteSubsetsOf(Nat)
  <2>1. \A n \in S : IsFiniteSet(0 .. n) /\ 0 .. n \in SUBSET Nat
    BY FS_Interval
  <2> QED
    BY <2>1 DEF FiniteSubsetsOf
<1>2. PICK A \in T : \A B \in T : ~(<<B, A>> \in R)
  <2>1. IsWellFoundedOn(R, FiniteSubsetsOf(Nat))
    BY FS_StrictSubsetOrderingWellFounded
  <2> HIDE DEF R, T
  <2> QED
    BY <1>1, <2>1, WFMin
<1>3. PICK m \in S : A = 0 .. m
  OBVIOUS
<1>4. ASSUME NEW k \in S, k < m PROVE FALSE
  <2>1. 0 .. k \subseteq A /\ 0 .. k # A
    BY <1>3, <1>4
  <2>2. 0 .. k \in SUBSET Nat /\ A \in SUBSET Nat
    BY <1>3
  <2> QED
    BY <1>2, <2>1, <2>2 DEF StrictSubsetOrdering
<1> QED
  BY <1>4

\* What holds at 0 and at i whenever it holds at i - 1 holds up to the end.
LEMMA UpTo ==
    ASSUME NEW last \in Nat, NEW G \in SUBSET (0 .. last), 0 \in G,
           \A i \in 1 .. last : i - 1 \in G => i \in G
    PROVE  G = 0 .. last
<1> DEFINE S == (0 .. last) \ G
<1> SUFFICES ASSUME S # {} PROVE FALSE
  OBVIOUS
<1>1. PICK m \in S : \A k \in S : m <= k
  <2>1. S \in SUBSET Nat
    OBVIOUS
  <2> HIDE DEF S
  <2> QED
    BY <2>1, LeastNatural
<1>2. m \in 1 .. last /\ m - 1 \in 0 .. last
  BY <1>1
<1> QED
  BY <1>1, <1>2

\* f is the recursion over 0 .. last that starts from base and goes on by step.
Recursion(f, last, S, base, step) ==
    f \in [0 .. last -> S] /\ f[0] = base /\ \A i \in 1 .. last : f[i] = step[i][f[i - 1]]

\* A recursion over an interval has a solution.
LEMMA RecursionSolved ==
    ASSUME NEW last \in Nat, NEW S, NEW base \in S, NEW step \in [1 .. last -> [S -> S]]
    PROVE  \E f : Recursion(f, last, S, base, step)
<1> DEFINE Solves(f, m) == f[0] = base /\ \A i \in 1 .. m : f[i] = step[i][f[i - 1]]
           G == {m \in 0 .. last : \E f \in [0 .. m -> S] : Solves(f, m)}
<1>1. 0 \in G
  <2> DEFINE f == [i \in 0 .. 0 |-> base]
  <2>1. f \in [0 .. 0 -> S] /\ f[0] = base /\ \A i \in 1 .. 0 : f[i] = step[i][f[i - 1]]
    OBVIOUS
  <2> HIDE DEF f
  <2>2. 0 \in 0 .. last
    OBVIOUS
  <2> QED
    BY <2>1, <2>2
<1>2. ASSUME NEW m \in 1 .. last, m - 1 \in G PROVE m \in G
  <2>1. PICK f \in [0 .. m - 1 -> S] : Solves(f, m - 1)
    BY <1>2
  <2> DEFINE h == [i \in 0 .. m |-> IF i = m THEN step[m][f[m - 1]] ELSE f[i]]
  <2>2. step[m][f[m - 1]] \in S
    OBVIOUS
  <2>3. h \in [0 .. m -> S]
    BY <2>2
  <2>4. ASSUME NEW i \in 1 .. m PROVE h[i] = step[i][h[i - 1]]
    <3>1. h[i - 1] = f[i - 1] /\ i - 1 \in 0 .. m
      OBVIOUS
    <3>2. CASE i = m
      BY <3>1, <3>2
    <3>3. CASE i # m
      <4>1. i \in 1 .. m - 1 /\ h[i] = f[i]
        BY <3>3
      <4> QED
        BY <2>1, <3>1, <4>1
    <3> QED
      BY <3>2, <3>3
  <2>5. h[0] = base
    BY <2>1
  <2>6. m \in 0 .. last
    OBVIOUS
  <2> HIDE DEF h
  <2> QED
    BY <2>3, <2>4, <2>5, <2>6
<1> HIDE DEF G
<1>3. G = 0 .. last
  <2>1. G \in SUBSET (0 .. last)
    BY DEF G
  <2> QED
    BY <1>1, <1>2, <2>1, UpTo
<1>4. last \in G
  BY <1>3
<1> QED
  BY <1>4 DEF G, Recursion

----------------------------------------------------------------------------
(* Sums over the slots                                                     *)

\* What holds of a finite set whenever it holds of its proper subsets.
LEMMA SubsetInduction ==
    ASSUME NEW U, IsFiniteSet(U), NEW G \in SUBSET (SUBSET U),
           \A s \in SUBSET U : (\A t \in SUBSET s : t # s => t \in G) => s \in G
    PROVE  G = SUBSET U
  <1> DEFINE R == StrictSubsetOrdering(U)
             T == (SUBSET U) \ G
  <1> SUFFICES ASSUME T # {} PROVE FALSE
    OBVIOUS
  <1>1. T \subseteq FiniteSubsetsOf(U)
    BY FS_Subset DEF FiniteSubsetsOf
  <1>2. PICK s \in T : \A t \in T : ~(<<t, s>> \in R)
    <2>1. IsWellFoundedOn(R, FiniteSubsetsOf(U))
      BY FS_StrictSubsetOrderingWellFounded
    <2> HIDE DEF R, T
    <2> QED
      BY <1>1, <2>1, WFMin
  <1>3. ASSUME NEW t \in SUBSET s, t # s PROVE t \in G
    <2>1. t \in SUBSET U /\ s \in SUBSET U
      OBVIOUS
    <2> QED
      BY <1>2, <1>3, <2>1 DEF StrictSubsetOrdering
  <1> QED
    BY <1>2, <1>3

\* sum gives every subset of U the sum of the values g has on it.
Pick(s) == CHOOSE x \in s : TRUE
Sums(g, U, sum) ==
    /\ sum \in [SUBSET U -> Int]
    /\ \A s \in SUBSET U :
           sum[s] = IF s = {} THEN 0 ELSE g[Pick(s)] + sum[s \ {Pick(s)}]

LEMMA SumFound ==
    ASSUME NEW U, IsFiniteSet(U), NEW g \in [U -> Int]
    PROVE  \E sum : Sums(g, U, sum)
  <1> DEFINE Right(sum, n) ==
                 \A s \in SUBSET U : Cardinality(s) <= n =>
                     sum[s] = IF s = {} THEN 0 ELSE g[Pick(s)] + sum[s \ {Pick(s)}]
             G == {u \in SUBSET U : \E sum \in [SUBSET U -> Int] : Right(sum, Cardinality(u))}
  <1>1. \A s \in SUBSET U : IsFiniteSet(s) /\ Cardinality(s) \in Nat
    BY FS_Subset, FS_CardinalityType
  <1>2. ASSUME NEW u \in SUBSET U, \A t \in SUBSET u : t # u => t \in G PROVE u \in G
    <2>1. CASE u = {}
      <3> DEFINE sum == [s \in SUBSET U |-> 0]
      <3>1. \A s \in SUBSET U : Cardinality(s) <= Cardinality(u) => s = {}
        BY <1>1, <2>1, FS_EmptySet
      <3>2. sum \in [SUBSET U -> Int] /\ Right(sum, Cardinality(u))
        BY <3>1
      <3> QED
        BY <3>2
    <2>2. CASE u # {}
      <3>1. PICK x \in u : TRUE
        BY <2>2
      <3>2. u \ {x} \in SUBSET U /\ Cardinality(u \ {x}) = Cardinality(u) - 1
        BY <1>1, <3>1, FS_RemoveElement
      <3>3. PICK old \in [SUBSET U -> Int] : Right(old, Cardinality(u) - 1)
        <4>1. u \ {x} \in G
          BY <1>2, <3>1
        <4> QED
          BY <3>2, <4>1
      <3> DEFINE sum == [s \in SUBSET U |-> IF s = {} THEN 0
                                            ELSE g[Pick(s)] + old[s \ {Pick(s)}]]
      <3>4. ASSUME NEW s \in SUBSET U, s # {}
            PROVE  /\ Pick(s) \in s /\ s \ {Pick(s)} \in SUBSET U /\ g[Pick(s)] \in Int
                   /\ Cardinality(s \ {Pick(s)}) = Cardinality(s) - 1
        <4>1. Pick(s) \in s
          BY <3>4 DEF Pick
        <4> QED
          BY <1>1, <4>1, FS_RemoveElement
      <3>5. sum \in [SUBSET U -> Int]
        <4>1. ASSUME NEW s \in SUBSET U, s # {} PROVE g[Pick(s)] + old[s \ {Pick(s)}] \in Int
          <5>1. old[s \ {Pick(s)}] \in Int /\ g[Pick(s)] \in Int
            BY <3>4, <4>1
          <5> QED
            BY <5>1
        <4> QED
          BY <4>1
      <3>6. ASSUME NEW s \in SUBSET U, Cardinality(s) <= Cardinality(u) - 1 PROVE sum[s] = old[s]
        BY <3>3, <3>6
      <3>7. ASSUME NEW s \in SUBSET U, Cardinality(s) <= Cardinality(u)
            PROVE  sum[s] = IF s = {} THEN 0 ELSE g[Pick(s)] + sum[s \ {Pick(s)}]
        <4>1. CASE s # {}
          <5>1. Cardinality(s \ {Pick(s)}) <= Cardinality(u) - 1
            BY <1>1, <3>4, <3>7, <4>1
          <5> QED
            BY <3>4, <3>6, <4>1, <5>1
        <4> QED
          BY <4>1
      <3> HIDE DEF sum
      <3> QED
        BY <3>5, <3>7
    <2> QED
      BY <2>1, <2>2
  <1> HIDE DEF G
  <1>3. G = SUBSET U
    <2>1. G \in SUBSET (SUBSET U)
      BY DEF G
    <2> QED
      BY <1>2, <2>1, SubsetInduction
  <1>4. PICK sum \in [SUBSET U -> Int] : Right(sum, Cardinality(U))
    <2>1. U \in G
      BY <1>3
    <2> QED
      BY <2>1 DEF G
  <1>5. \A s \in SUBSET U : Cardinality(s) <= Cardinality(U)
    BY FS_Subset
  <1> QED
    BY <1>4, <1>5 DEF Sums

\* The order of the sum does not matter.
LEMMA SumSplit ==
    ASSUME NEW U, IsFiniteSet(U), NEW g \in [U -> Int], NEW sum, Sums(g, U, sum),
           NEW s \in SUBSET U, NEW x \in s
    PROVE  sum[s] = g[x] + sum[s \ {x}]
  <1> DEFINE G == {u \in SUBSET U : \A y \in u : sum[u] = g[y] + sum[u \ {y}]}
  <1>1. ASSUME NEW u \in SUBSET U, \A t \in SUBSET u : t # u => t \in G PROVE u \in G
    <2> SUFFICES ASSUME NEW y \in u PROVE sum[u] = g[y] + sum[u \ {y}]
      OBVIOUS
    <2>1. PICK c \in u : c = Pick(u) /\ sum[u] = g[c] + sum[u \ {c}]
      BY DEF Pick, Sums
    <2>2. CASE c = y
      BY <2>1, <2>2
    <2>3. CASE c # y
      <3>1. u \ {c} \in G /\ u \ {y} \in G
        BY <1>1
      <3>2. PICK r \in SUBSET U : r = (u \ {c}) \ {y} /\ r = (u \ {y}) \ {c}
        OBVIOUS
      <3>3. sum[u \ {c}] = g[y] + sum[r]
        BY <2>3, <3>1, <3>2
      <3>4. sum[u \ {y}] = g[c] + sum[r]
        BY <2>3, <3>1, <3>2
      <3>5. sum[r] \in Int /\ g[c] \in Int /\ g[y] \in Int
        BY DEF Sums
      <3> QED
        BY <2>1, <3>3, <3>4, <3>5
    <2> QED
      BY <2>2, <2>3
  <1> HIDE DEF G
  <1>2. G = SUBSET U
    <2>1. G \in SUBSET (SUBSET U)
      BY DEF G
    <2> QED
      BY <1>1, <2>1, SubsetInduction
  <1> QED
    BY <1>2 DEF G

\* The sum depends on the values alone.
LEMMA SumSame ==
    ASSUME NEW U, IsFiniteSet(U), NEW g, NEW h, NEW sum, NEW tot,
           Sums(g, U, sum), Sums(h, U, tot),
           NEW s \in SUBSET U, \A x \in s : g[x] = h[x]
    PROVE  sum[s] = tot[s]
  <1> DEFINE G == {u \in SUBSET U : u \subseteq s => sum[u] = tot[u]}
  <1>1. ASSUME NEW u \in SUBSET U, \A t \in SUBSET u : t # u => t \in G PROVE u \in G
    <2>1. CASE u = {}
      BY <2>1 DEF Sums
    <2>2. CASE u # {}
      <3>1. PICK c \in u : c = Pick(u)
        BY <2>2 DEF Pick
      <3>2. sum[u] = g[c] + sum[u \ {c}]
        BY <2>2, <3>1 DEF Sums
      <3>3. tot[u] = h[c] + tot[u \ {c}]
        BY <2>2, <3>1 DEF Sums
      <3>4. u \ {c} \in G
        BY <1>1
      <3> QED
        BY <3>2, <3>3, <3>4
    <2> QED
      BY <2>1, <2>2
  <1> HIDE DEF G
  <1>2. G = SUBSET U
    <2>1. G \in SUBSET (SUBSET U)
      BY DEF G
    <2> QED
      BY <1>1, <2>1, SubsetInduction
  <1> QED
    BY <1>2 DEF G

\* What solves the recursion of a fold is the sum.
LEMMA ChosenSum ==
    ASSUME NEW U, IsFiniteSet(U), NEW g \in [U -> Int], NEW it,
           it = [s \in SUBSET U |-> IF s = {} THEN 0 ELSE g[Pick(s)] + it[s \ {Pick(s)}]]
    PROVE  Sums(g, U, it)
  <1>1. PICK sum : Sums(g, U, sum)
    BY SumFound
  <1> DEFINE G == {u \in SUBSET U : sum[u] = it[u]}
  <1>2. ASSUME NEW u \in SUBSET U, \A t \in SUBSET u : t # u => t \in G PROVE u \in G
    <2>1. it[u] = IF u = {} THEN 0 ELSE g[Pick(u)] + it[u \ {Pick(u)}]
      OBVIOUS
    <2>2. sum[u] = IF u = {} THEN 0 ELSE g[Pick(u)] + sum[u \ {Pick(u)}]
      BY <1>1 DEF Sums
    <2>3. u # {} => u \ {Pick(u)} \in SUBSET u /\ u \ {Pick(u)} # u
      BY DEF Pick
    <2> QED
      BY <1>2, <2>1, <2>2, <2>3
  <1> HIDE DEF G
  <1>3. G = SUBSET U
    <2>1. G \in SUBSET (SUBSET U)
      BY DEF G
    <2> QED
      BY <1>2, <2>1, SubsetInduction
  <1>4. \A s \in SUBSET U : it[s] = sum[s]
    BY <1>3 DEF G
  <1>5. sum \in [SUBSET U -> Int]
    BY <1>1 DEF Sums
  <1>6. it = sum
    <2>1. it = [s \in SUBSET U |-> it[s]]
      OBVIOUS
    <2>2. sum = [s \in SUBSET U |-> sum[s]]
      BY <1>5
    <2> QED
      BY <1>4, <2>1, <2>2
  <1> QED
    BY <1>1, <1>6

\* A smaller sum: none of the values is larger.
LEMMA SumLess ==
    ASSUME NEW U, IsFiniteSet(U), NEW g \in [U -> Int], NEW h \in [U -> Int],
           NEW sum, NEW tot, Sums(g, U, sum), Sums(h, U, tot),
           NEW s \in SUBSET U, \A x \in s : h[x] <= g[x]
    PROVE  tot[s] <= sum[s]
  <1> DEFINE G == {u \in SUBSET U : u \subseteq s => tot[u] <= sum[u]}
  <1>1. ASSUME NEW u \in SUBSET U, \A t \in SUBSET u : t # u => t \in G PROVE u \in G
    <2> SUFFICES ASSUME u \subseteq s PROVE tot[u] <= sum[u]
      OBVIOUS
    <2>1. CASE u = {}
      <3>1. sum[u] = 0 /\ tot[u] = 0
        BY <2>1 DEF Sums
      <3> QED
        BY <3>1
    <2>2. CASE u # {}
      <3>1. PICK c \in u : c = Pick(u)
        BY <2>2 DEF Pick
      <3>2. PICK v \in SUBSET U : v = u \ {c}
        OBVIOUS
      <3>3. sum[u] = g[c] + sum[v] /\ tot[u] = h[c] + tot[v]
        BY <2>2, <3>1, <3>2 DEF Sums
      <3>4. tot[v] <= sum[v]
        BY <1>1, <3>2
      <3>5. sum[v] \in Int /\ tot[v] \in Int /\ g[c] \in Int /\ h[c] \in Int /\ h[c] <= g[c]
        BY DEF Sums
      <3> QED
        BY <3>3, <3>4, <3>5
    <2> QED
      BY <2>1, <2>2
  <1> HIDE DEF G
  <1>2. G = SUBSET U
    <2>1. G \in SUBSET (SUBSET U)
      BY DEF G
    <2> QED
      BY <1>1, <2>1, SubsetInduction
  <1> QED
    BY <1>2 DEF G

\* One of the values is smaller by n, and none is larger.
LEMMA SumLower ==
    ASSUME NEW U, IsFiniteSet(U), NEW g \in [U -> Int], NEW h \in [U -> Int],
           NEW sum, NEW tot, Sums(g, U, sum), Sums(h, U, tot),
           \A x \in U : h[x] <= g[x],
           NEW a \in U, NEW n \in Int, h[a] + n <= g[a]
    PROVE  tot[U] + n <= sum[U]
  <1>1. PICK V \in SUBSET U : V = U \ {a}
    OBVIOUS
  <1>2. U \in SUBSET U
    OBVIOUS
  <1>3. sum[U] = g[a] + sum[V]
    BY <1>1, <1>2, SumSplit
  <1>4. tot[U] = h[a] + tot[V]
    BY <1>1, <1>2, SumSplit
  <1>5. tot[V] <= sum[V]
    BY SumLess
  <1>6. sum[V] \in Int /\ tot[V] \in Int /\ g[a] \in Int /\ h[a] \in Int
    BY DEF Sums
  <1> QED
    BY <1>3, <1>4, <1>5, <1>6

\* Values of 0 can be left out.
LEMMA SumRest ==
    ASSUME NEW U, IsFiniteSet(U), NEW g \in [U -> Int], NEW sum, Sums(g, U, sum),
           NEW F \in SUBSET U, \A x \in U \ F : g[x] = 0
    PROVE  sum[U] = sum[F]
  <1> DEFINE G == {u \in SUBSET U : F \subseteq u => sum[u] = sum[F]}
  <1>1. ASSUME NEW u \in SUBSET U, \A t \in SUBSET u : t # u => t \in G PROVE u \in G
    <2> SUFFICES ASSUME F \subseteq u, F # u PROVE sum[u] = sum[F]
      OBVIOUS
    <2>1. PICK c \in u : c \notin F
      OBVIOUS
    <2>2. PICK v \in SUBSET U : v = u \ {c}
      OBVIOUS
    <2>3. sum[u] = g[c] + sum[v]
      BY <2>1, <2>2, SumSplit
    <2>4. g[c] = 0 /\ sum[v] \in Int
      BY <2>1 DEF Sums
    <2>5. sum[v] = sum[F]
      BY <1>1, <2>1, <2>2
    <2> QED
      BY <2>3, <2>4, <2>5
  <1> HIDE DEF G
  <1>2. G = SUBSET U
    <2>1. G \in SUBSET (SUBSET U)
      BY DEF G
    <2> QED
      BY <1>1, <2>1, SubsetInduction
  <1> QED
    BY <1>2 DEF G

\* A part of what is summed can be summed by itself.
LEMMA SumPart ==
    ASSUME NEW U, IsFiniteSet(U), NEW g, NEW sum, Sums(g, U, sum),
           NEW V \in SUBSET U, NEW h, NEW tot, Sums(h, V, tot), \A x \in V : g[x] = h[x]
    PROVE  sum[V] = tot[V]
  <1> DEFINE part == [s \in SUBSET V |-> sum[s]]
  <1>1. Sums(g, V, part)
    BY DEF Sums, Pick
  <1>2. IsFiniteSet(V) /\ V \in SUBSET V
    BY FS_Subset
  <1>3. part[V] = tot[V]
    <2> HIDE DEF part
    <2> QED
      BY <1>1, <1>2, SumSame
  <1> QED
    BY <1>2, <1>3

----------------------------------------------------------------------------
(* What a container holds of a kind                                        *)

Container == [Slot -> Stack \cup {Nothing}]
Filled(c) == {s \in Slot : c[s] # Nothing}
Weight(c, k, s) == IF c[s] = Nothing THEN 0 ELSE IF c[s].kind = k THEN c[s].qty ELSE 0
Holds(c, k) ==
    MapThenSumSet(LAMBDA s : IF c[s].kind = k THEN c[s].qty ELSE 0, Filled(c))

LEMMA HeldIsHolds ==
    ASSUME NEW m, NEW k
    PROVE  HeldOf(m, k) = Holds(box[m], k) /\ HeldOf(m, k)' = Holds(box'[m], k)
  BY DEF HeldOf, Full, Holds, Filled, MapThenSumSet, MapThenFoldSet

LEMMA SlotsFinite == IsFiniteSet(Slot) /\ Slot \in SUBSET Slot
  <1>1. 0 \in Int /\ N - 1 \in Int
    BY FactoryAssumption
  <1> QED
    BY <1>1, FS_Interval DEF Slot

LEMMA WeightNat == ASSUME NEW c \in Container, NEW k, NEW s \in Slot PROVE Weight(c, k, s) \in Nat
  BY DEF Container, Weight, Stack

\* It is the sum of the weights of all slots.
HoldsBy(c, k, g, sum) ==
    /\ g \in [Slot -> Int] /\ \A s \in Slot : g[s] = Weight(c, k, s)
    /\ Sums(g, Slot, sum) /\ Holds(c, k) = sum[Slot]

LEMMA HoldsSum ==
    ASSUME NEW c \in Container, NEW k
    PROVE  \E g, sum : HoldsBy(c, k, g, sum)
  <1>1. PICK F \in SUBSET Slot : F = Filled(c) /\ IsFiniteSet(F)
    <2>1. Filled(c) \in SUBSET Slot
      BY DEF Filled
    <2> QED
      BY <2>1, SlotsFinite, FS_Subset
  <1>2. PICK g \in [Slot -> Int] : \A s \in Slot : g[s] = Weight(c, k, s)
    <2>1. [s \in Slot |-> Weight(c, k, s)] \in [Slot -> Int]
      BY WeightNat
    <2> QED
      BY <2>1
  <1>3. PICK h \in [F -> Int] : \A s \in F : h[s] = g[s]
    <2>1. [s \in F |-> g[s]] \in [F -> Int]
      OBVIOUS
    <2> QED
      BY <2>1
  <1> DEFINE Iter(it) == [s \in SUBSET F |->
                 IF s = {} THEN 0
                 ELSE (IF c[CHOOSE x \in s : TRUE].kind = k THEN c[CHOOSE x \in s : TRUE].qty ELSE 0)
                      + it[s \ {CHOOSE x \in s : TRUE}]]
             Solved(it) == [s \in SUBSET F |->
                 IF s = {} THEN 0 ELSE h[Pick(s)] + it[s \ {Pick(s)}]]
  <1>4. Holds(c, k) = (CHOOSE it : it = Iter(it))[F]
    BY <1>1 DEF Holds, MapThenSumSet, MapThenFoldSet
  <1>5. ASSUME NEW it PROVE Iter(it) = Solved(it)
    <2>1. ASSUME NEW s \in SUBSET F, s # {}
          PROVE  h[Pick(s)] = IF c[Pick(s)].kind = k THEN c[Pick(s)].qty ELSE 0
      <3>1. PICK x \in F : x = Pick(s)
        BY <2>1 DEF Pick
      <3>2. h[x] = IF c[x].kind = k THEN c[x].qty ELSE 0
        BY <1>1, <1>2, <1>3 DEF Weight, Filled
      <3> QED
        BY <3>1, <3>2
    <2> QED
      BY <2>1 DEF Pick
  <1>6. PICK tot : Sums(h, F, tot)
    BY <1>1, SumFound
  <1>7. tot = Iter(tot)
    <2>1. tot = Solved(tot)
      BY <1>6 DEF Sums
    <2> HIDE DEF Iter, Solved
    <2> QED
      BY <1>5, <2>1
  <1> HIDE DEF Iter
  <1>8. PICK it : it = (CHOOSE jt : jt = Iter(jt)) /\ it = Iter(it)
    BY <1>7
  <1>9. it = Solved(it)
    BY <1>5, <1>8
  <1>10. Sums(h, F, it)
    BY <1>1, <1>9, ChosenSum
  <1>11. PICK sum : Sums(g, Slot, sum)
    BY SlotsFinite, SumFound
  <1>12. sum[Slot] = sum[F]
    <2>1. \A x \in Slot \ F : g[x] = 0
      BY <1>1, <1>2 DEF Weight, Filled
    <2> QED
      BY <1>11, <2>1, SlotsFinite, SumRest
  <1>13. sum[F] = it[F]
    <2>1. \A x \in F : g[x] = h[x]
      BY <1>3
    <2> QED
      BY <1>10, <1>11, <2>1, SlotsFinite, SumPart
  <1> QED
    BY <1>2, <1>4, <1>8, <1>11, <1>12, <1>13 DEF HoldsBy

\* It depends on the weights alone.
LEMMA HoldsSame ==
    ASSUME NEW c \in Container, NEW d \in Container, NEW k,
           \A s \in Slot : Weight(d, k, s) = Weight(c, k, s)
    PROVE  Holds(d, k) = Holds(c, k)
  <1>1. PICK g, sum : HoldsBy(c, k, g, sum)
    BY HoldsSum
  <1>2. PICK h, tot : HoldsBy(d, k, h, tot)
    BY HoldsSum
  <1>3. \A s \in Slot : g[s] = h[s]
    BY <1>1, <1>2 DEF HoldsBy
  <1>4. sum[Slot] = tot[Slot]
    BY <1>1, <1>2, <1>3, SlotsFinite, SumSame DEF HoldsBy
  <1> QED
    BY <1>1, <1>2, <1>4 DEF HoldsBy

\* It is lower by n if a slot is and none is higher.
LEMMA HoldsLess ==
    ASSUME NEW c \in Container, NEW d \in Container, NEW k,
           \A s \in Slot : Weight(d, k, s) <= Weight(c, k, s),
           NEW a \in Slot, NEW n \in Nat, Weight(d, k, a) + n <= Weight(c, k, a)
    PROVE  Holds(d, k) + n <= Holds(c, k)
  <1>1. PICK g, sum : HoldsBy(c, k, g, sum)
    BY HoldsSum
  <1>2. PICK h, tot : HoldsBy(d, k, h, tot)
    BY HoldsSum
  <1>3. (\A s \in Slot : h[s] <= g[s]) /\ h[a] + n <= g[a]
    BY <1>1, <1>2 DEF HoldsBy
  <1>4. /\ g \in [Slot -> Int] /\ h \in [Slot -> Int]
        /\ Sums(g, Slot, sum) /\ Sums(h, Slot, tot)
    BY <1>1, <1>2 DEF HoldsBy
  <1>5. n \in Int
    OBVIOUS
  <1>6. tot[Slot] + n <= sum[Slot]
    BY <1>3, <1>4, <1>5, SlotsFinite, SumLower
  <1> QED
    BY <1>1, <1>2, <1>6 DEF HoldsBy

\* It is nothing if no slot has any.
LEMMA HoldsNone ==
    ASSUME NEW c \in Container, NEW k, \A s \in Slot : Weight(c, k, s) = 0
    PROVE  Holds(c, k) = 0
  <1>1. PICK g, sum : HoldsBy(c, k, g, sum)
    BY HoldsSum
  <1>2. {} \in SUBSET Slot /\ \A s \in Slot \ {} : g[s] = 0
    BY <1>1 DEF HoldsBy
  <1>3. sum[Slot] = sum[{}]
    BY <1>1, <1>2, SlotsFinite, SumRest DEF HoldsBy
  <1>4. sum[{}] = 0
    BY <1>1, <1>2 DEF HoldsBy, Sums
  <1> QED
    BY <1>1, <1>3, <1>4 DEF HoldsBy

LEMMA HoldsInt == ASSUME NEW c \in Container, NEW k PROVE Holds(c, k) \in Int
  <1>1. PICK g, sum : HoldsBy(c, k, g, sum)
    BY HoldsSum
  <1> QED
    BY <1>1, SlotsFinite DEF HoldsBy, Sums

----------------------------------------------------------------------------
(* What is depleted                                                        *)

\* What is still to be depleted after a slot with stack x, when it was p.
Rest(x, k, p) ==
    IF x = Nothing THEN p
    ELSE IF x.kind # k THEN p
    ELSE p - Least(p, x.qty - Least(p, x.qty))

\* f counts that down over the container c, from n on.
CountsDown(f, c, k, n) ==
    /\ f \in [0 .. N -> Nat] /\ f[0] = n
    /\ \A i \in 1 .. N : f[i] = Rest(c[i - 1], k, f[i - 1])

LEMMA RestNat ==
    ASSUME NEW x \in Stack \cup {Nothing}, NEW k, NEW p \in Nat
    PROVE  Rest(x, k, p) \in Nat /\ Rest(x, k, p) <= p
  BY DEF Rest, Least, Stack

\* The recursion of Pending has a solution, so Pending is one.
LEMMA PendingCounts ==
    ASSUME NEW m, box[m] \in Container, NEW k, NEW n \in Nat
    PROVE  CountsDown(Pending(m, k, n), box[m], k, n)
  <1> DEFINE c == box[m]
             Goes(f) == [i \in 0 .. N |-> IF i = 0 THEN n ELSE Rest(c[i - 1], k, f[i - 1])]
             step == [i \in 1 .. N |-> [p \in Nat |-> Rest(c[i - 1], k, p)]]
             p == Pending(m, k, n)
  <1>1. N \in Nat
    BY FactoryAssumption
  <1>2. p = CHOOSE f : f = Goes(f)
    BY DEF Pending, Rest
  <1>3. ASSUME NEW i \in 1 .. N PROVE c[i - 1] \in Stack \cup {Nothing}
    <2>1. i - 1 \in Slot
      BY <1>1 DEF Slot
    <2> QED
      BY <2>1 DEF Container
  <1>4. \A i \in 1 .. N : \A q \in Nat : Rest(c[i - 1], k, q) \in Nat
    BY <1>3, RestNat
  <1> HIDE DEF c
  <1>5. PICK f : Recursion(f, N, Nat, n, step)
    <2>1. step \in [1 .. N -> [Nat -> Nat]]
      BY <1>4
    <2> HIDE DEF step
    <2> QED
      BY <1>1, <2>1, RecursionSolved
  <1>6. f = Goes(f)
    <2>1. f \in [0 .. N -> Nat] /\ f[0] = n /\ \A i \in 1 .. N : f[i] = step[i][f[i - 1]]
      BY <1>5 DEF Recursion
    <2>2. ASSUME NEW i \in 1 .. N PROVE f[i] = Rest(c[i - 1], k, f[i - 1])
      <3>1. i - 1 \in 0 .. N
        BY <1>1
      <3>2. f[i - 1] \in Nat
        BY <2>1, <3>1
      <3> QED
        BY <2>1, <3>2
    <2>3. \A i \in 0 .. N : i # 0 => i \in 1 .. N
      BY <1>1
    <2>4. \A i \in 0 .. N : f[i] = Goes(f)[i]
      BY <2>1, <2>2, <2>3
    <2> QED
      BY <2>1, <2>4
  <1> HIDE DEF Goes
  <1>7. p = Goes(p)
    BY <1>2, <1>6
  <1> HIDE DEF p
  <1>8. p[0] = n /\ \A i \in 1 .. N : p[i] = Rest(c[i - 1], k, p[i - 1])
    <2>1. \A i \in 0 .. N : p[i] = IF i = 0 THEN n ELSE Rest(c[i - 1], k, p[i - 1])
      BY <1>7 DEF Goes
    <2>2. 0 \in 0 .. N /\ \A i \in 1 .. N : i \in 0 .. N /\ i # 0
      BY <1>1
    <2> QED
      BY <2>1, <2>2
  <1> DEFINE G == {i \in 0 .. N : p[i] \in Nat}
  <1>9. G = 0 .. N
    <2>1. 0 \in G
      BY <1>1, <1>8
    <2>2. \A i \in 1 .. N : i - 1 \in G => i \in G
      BY <1>4, <1>8
    <2>3. G \in SUBSET (0 .. N)
      OBVIOUS
    <2> HIDE DEF G
    <2> QED
      BY <1>1, <2>1, <2>2, <2>3, UpTo
  <1>10. p \in [0 .. N -> Nat]
    <2>1. p = [i \in 0 .. N |-> p[i]]
      BY <1>7 DEF Goes
    <2> QED
      BY <1>9, <2>1
  <1> QED
    BY <1>8, <1>10 DEF CountsDown, c, p

\* What recipe r takes out of the container: of each slot the smaller of what
\* is in it and what is still to be depleted.
LEMMA DepletedWeights ==
    ASSUME NEW m, box[m] \in Container, NEW r \in DOMAIN Recipes
    PROVE  /\ Depleted(m, r) \in Container
           /\ \A k \in Kind, s \in Slot :
                Weight(Depleted(m, r), k, s)
                  = Weight(box[m], k, s) - Least(Pending(m, k, Needs(r, k))[s], Weight(box[m], k, s))
  <1>1. ASSUME NEW k \in Kind, NEW s \in Slot
        PROVE  Needs(r, k) \in Nat /\ Pending(m, k, Needs(r, k))[s] \in Nat
    <2>1. Needs(r, k) \in Nat
      BY RecipesTyped DEF RecipeType, Needs
    <2>2. s \in 0 .. N
      BY FactoryAssumption DEF Slot
    <2>3. CountsDown(Pending(m, k, Needs(r, k)), box[m], k, Needs(r, k))
      BY <2>1, PendingCounts
    <2> QED
      BY <2>1, <2>2, <2>3 DEF CountsDown
  <1>2. ASSUME NEW s \in Slot, box[m][s] = Nothing
        PROVE  Depleted(m, r)[s] = Nothing
    BY <1>2 DEF Depleted, Full
  <1>3. ASSUME NEW s \in Slot, box[m][s] # Nothing, NEW k, k = box[m][s].kind,
               NEW n, n = Least(Pending(m, k, Needs(r, k))[s], box[m][s].qty)
        PROVE  /\ k \in Kind /\ box[m][s].qty \in Nat \ {0} /\ n \in 0 .. box[m][s].qty
               /\ Depleted(m, r)[s] = IF n = box[m][s].qty THEN Nothing
                                      ELSE [kind |-> k, qty |-> box[m][s].qty - n]
    <2>1. box[m][s] \in Stack
      BY <1>3 DEF Container
    <2>2. k \in Kind /\ box[m][s].qty \in Nat \ {0}
      BY <1>3, <2>1 DEF Stack
    <2>3. n \in 0 .. box[m][s].qty
      BY <1>1, <1>3, <2>2 DEF Least
    <2>4. Depleted(m, r)[s] = IF n = box[m][s].qty THEN Nothing
                              ELSE [box[m][s] EXCEPT !.qty = @ - n]
      BY <1>3 DEF Depleted, Full
    <2>5. [box[m][s] EXCEPT !.qty = @ - n] = [kind |-> k, qty |-> box[m][s].qty - n]
      BY <1>3, <2>1 DEF Stack
    <2> QED
      BY <2>2, <2>3, <2>4, <2>5
  <1>4. ASSUME NEW s \in Slot
        PROVE  Depleted(m, r)[s] \in Stack \cup {Nothing}
    <2>1. CASE box[m][s] = Nothing
      BY <1>2, <2>1
    <2>2. CASE box[m][s] # Nothing
      <3>1. PICK j, n : j = box[m][s].kind /\ n = Least(Pending(m, j, Needs(r, j))[s], box[m][s].qty)
        OBVIOUS
      <3>2. /\ j \in Kind /\ box[m][s].qty \in Nat \ {0} /\ n \in 0 .. box[m][s].qty
            /\ Depleted(m, r)[s] = IF n = box[m][s].qty THEN Nothing
                                   ELSE [kind |-> j, qty |-> box[m][s].qty - n]
        BY <1>3, <2>2, <3>1
      <3>3. n # box[m][s].qty => box[m][s].qty - n \in Nat \ {0}
        BY <3>2
      <3> QED
        BY <3>2, <3>3 DEF Stack
    <2> QED
      BY <2>1, <2>2
  <1>5. Depleted(m, r) \in Container
    <2>1. Depleted(m, r) = [s \in Slot |-> Depleted(m, r)[s]]
      BY DEF Depleted
    <2> QED
      BY <1>4, <2>1 DEF Container
  <1>6. ASSUME NEW k \in Kind, NEW s \in Slot
        PROVE  Weight(Depleted(m, r), k, s)
                 = Weight(box[m], k, s) - Least(Pending(m, k, Needs(r, k))[s], Weight(box[m], k, s))
    <2>1. Pending(m, k, Needs(r, k))[s] \in Nat
      BY <1>1
    <2>2. CASE box[m][s] = Nothing
      BY <1>2, <2>1, <2>2 DEF Weight, Least
    <2>3. CASE box[m][s] # Nothing
      <3>1. PICK j, n : j = box[m][s].kind /\ n = Least(Pending(m, j, Needs(r, j))[s], box[m][s].qty)
        OBVIOUS
      <3>2. /\ j \in Kind /\ box[m][s].qty \in Nat \ {0} /\ n \in 0 .. box[m][s].qty
            /\ Depleted(m, r)[s] = IF n = box[m][s].qty THEN Nothing
                                   ELSE [kind |-> j, qty |-> box[m][s].qty - n]
        BY <1>3, <2>3, <3>1
      <3>3. n # box[m][s].qty => [kind |-> j, qty |-> box[m][s].qty - n] # Nothing
        <4>1. n # box[m][s].qty => box[m][s].qty - n \in Nat \ {0}
          BY <3>2
        <4>2. n # box[m][s].qty => [kind |-> j, qty |-> box[m][s].qty - n] \in Stack
          BY <3>2, <4>1 DEF Stack
        <4> QED
          BY <4>2, FactoryAssumption
      <3>4. CASE j = k
        BY <2>3, <3>1, <3>2, <3>3, <3>4 DEF Weight
      <3>5. CASE j # k
        BY <2>1, <2>3, <3>1, <3>2, <3>3, <3>5 DEF Weight, Least
      <3> QED
        BY <3>4, <3>5
    <2> QED
      BY <2>2, <2>3
  <1> QED
    BY <1>5, <1>6

\* A recipe takes at least its reagents, and nothing of what it does not
\* need.  Either a slot has more than is still to be depleted when it is
\* reached, which then is all, or the slots are emptied one after the other.
LEMMA RecipePaid ==
    ASSUME NEW m, box[m] \in Container, NEW r \in DOMAIN Recipes, NEW k \in Kind,
           Holds(box[m], k) >= Needs(r, k)
    PROVE  /\ Holds(box[m], k) - Holds(Depleted(m, r), k) >= Needs(r, k)
           /\ Needs(r, k) = 0 => Holds(Depleted(m, r), k) = Holds(box[m], k)
  <1> DEFINE c == box[m]
             d == Depleted(m, r)
             n == Needs(r, k)
             p == Pending(m, k, n)
  <1>1. n \in Nat
    BY RecipesTyped DEF RecipeType, Needs
  <1>2. CountsDown(p, c, k, n)
    BY <1>1, PendingCounts
  <1>3. d \in Container /\ \A s \in Slot : Weight(d, k, s) = Weight(c, k, s) - Least(p[s], Weight(c, k, s))
    BY DepletedWeights
  <1>4. N \in Nat /\ \A s \in Slot : s \in 0 .. N /\ s + 1 \in 1 .. N /\ (s + 1) - 1 = s
    BY FactoryAssumption DEF Slot
  <1> HIDE DEF c, d, n, p
  <1>5. c \in Container
    BY DEF c
  <1>6. \A s \in Slot : Weight(c, k, s) \in Nat /\ Weight(d, k, s) \in Nat /\ p[s] \in Nat
    BY <1>2, <1>3, <1>4, <1>5, WeightNat DEF CountsDown
  <1>7. ASSUME NEW s \in Slot
        PROVE  p[s + 1] = p[s] - Least(p[s], Weight(c, k, s) - Least(p[s], Weight(c, k, s)))
    <2>1. p[s + 1] = Rest(c[s], k, p[s])
      BY <1>2, <1>4 DEF CountsDown
    <2>2. p[s] - Least(p[s], 0 - Least(p[s], 0)) = p[s]
      BY <1>6 DEF Least
    <2> QED
      BY <2>1, <2>2 DEF Rest, Weight
  <1>8. \A s \in Slot : Weight(d, k, s) <= Weight(c, k, s)
    BY <1>3, <1>6 DEF Least
  <1>9. Holds(c, k) \in Int /\ Holds(d, k) \in Int
    BY <1>3, <1>5, HoldsInt
  <1>10. Holds(c, k) - Holds(d, k) >= n
    <2>1. CASE \A s \in Slot : Weight(d, k, s) = 0
      <3>1. Holds(d, k) = 0
        BY <1>3, <2>1, HoldsNone
      <3> QED
        BY <1>9, <3>1 DEF c, n
    <2>2. CASE \E s \in Slot : Weight(d, k, s) # 0
      <3> DEFINE S == {s \in Slot : Weight(d, k, s) # 0}
      <3>1. PICK a \in S : \A s \in S : a <= s
        <4>1. S \in SUBSET Nat /\ S # {}
          BY <1>4, <2>2 DEF Slot
        <4> HIDE DEF S
        <4> QED
          BY <4>1, LeastNatural
      <3>2. a \in Slot /\ Weight(d, k, a) # 0
        OBVIOUS
      <3> DEFINE G == {i \in 0 .. a : p[i] = n}
      <3>3. G = 0 .. a
        <4>1. a \in Nat
          BY <3>2, <1>4 DEF Slot
        <4>2. 0 \in G
          BY <1>2, <4>1 DEF CountsDown
        <4>3. ASSUME NEW i \in 1 .. a, i - 1 \in G PROVE i \in G
          <5>1. PICK s \in Slot : s = i - 1 /\ s + 1 = i /\ s < a
            <6>1. i - 1 \in Slot /\ i - 1 < a /\ (i - 1) + 1 = i
              BY <3>2, <4>1, <4>3, <1>4 DEF Slot
            <6> QED
              BY <6>1
          <5>2. Weight(d, k, s) = 0
            BY <3>1, <4>1, <5>1 DEF Slot
          <5>3. Least(p[s], Weight(c, k, s)) = Weight(c, k, s)
            BY <1>3, <1>6, <5>2 DEF Least
          <5>4. p[s + 1] = p[s]
            BY <1>6, <1>7, <5>3 DEF Least
          <5>5. p[s] = n
            BY <4>3, <5>1
          <5> QED
            BY <4>3, <5>1, <5>4, <5>5
        <4>4. G \in SUBSET (0 .. a)
          OBVIOUS
        <4> HIDE DEF G
        <4> QED
          BY <4>1, <4>2, <4>3, <4>4, UpTo
      <3>4. p[a] = n
        <4>1. a \in 0 .. a
          BY <3>2, <1>4 DEF Slot
        <4> QED
          BY <3>3, <4>1
      <3>5. Weight(d, k, a) + n <= Weight(c, k, a)
        BY <1>1, <1>3, <1>6, <3>2, <3>4 DEF Least
      <3>6. Holds(d, k) + n <= Holds(c, k)
        BY <1>1, <1>3, <1>5, <1>8, <3>2, <3>5, HoldsLess
      <3> QED
        BY <1>1, <1>9, <3>6
    <2> QED
      BY <2>1, <2>2
  <1>11. ASSUME n = 0 PROVE Holds(d, k) = Holds(c, k)
    <2> DEFINE G == {i \in 0 .. N : p[i] = 0}
    <2>1. G = 0 .. N
      <3>1. 0 \in G
        BY <1>2, <1>4, <1>11 DEF CountsDown
      <3>2. ASSUME NEW i \in 1 .. N, i - 1 \in G PROVE i \in G
        <4>1. PICK s \in Slot : s = i - 1 /\ s + 1 = i
          <5>1. i - 1 \in Slot /\ (i - 1) + 1 = i
            BY <1>4 DEF Slot
          <5> QED
            BY <5>1
        <4>2. p[s + 1] = 0
          <5>1. p[s] = 0
            BY <3>2, <4>1
          <5> QED
            BY <1>6, <1>7, <5>1 DEF Least
        <4> QED
          BY <1>4, <4>1, <4>2
      <3>3. G \in SUBSET (0 .. N)
        OBVIOUS
      <3> HIDE DEF G
      <3> QED
        BY <1>4, <3>1, <3>2, <3>3, UpTo
    <2>2. \A s \in Slot : Weight(d, k, s) = Weight(c, k, s)
      <3>1. \A s \in Slot : p[s] = 0
        BY <1>4, <2>1
      <3> QED
        BY <1>3, <1>6, <3>1 DEF Least
    <2> QED
      BY <1>3, <1>5, <2>2, HoldsSame
  <1> QED
    BY <1>10, <1>11 DEF c, d, n

----------------------------------------------------------------------------
(* Types, and the theorems about what is in the machines                   *)

LEMMA TypedContainer == ASSUME TypeOK, NEW m \in Machine PROVE box[m] \in Container
  BY DEF TypeOK, Container

\* Types before the first frame.
LEMMA InitTyped == Init => TypeOK
  <1> SUFFICES ASSUME Init PROVE TypeOK
    OBVIOUS
  <1>1. N \in Nat
    BY FactoryAssumption
  <1>2. box \in [Machine -> [Slot -> Stack \cup {Nothing}]]
    BY DEF Init
  <1> QED
    BY <1>1, <1>2 DEF Init, TypeOK, Tasks

\* Requests, deliveries and belts.
LEMMA BetweenTyped == ASSUME TypeOK, BeltTypes', Between PROVE TypeOK'
  <1>1. /\ counter' \in [Machine -> 0 .. 4] /\ belts' \in [Machine -> SUBSET Node]
        /\ got' \in [Node -> Nat] /\ lead' \in [Machine -> [Node -> Nat]] /\ budget' \in Nat
    BY DEF BeltTypes
  <1>2. ASSUME NEW p \in Player, NEW k \in Craftable \cup {Nothing}, Request(p, k) PROVE TypeOK'
    <2>1. k \in Kind \cup {Nothing}
      BY RecipesTyped DEF Craftable, RecipeType
    <2>2. craft' \in [Player -> Kind \cup {Nothing}]
      BY <1>2, <2>1 DEF Request, TypeOK
    <2> QED
      BY <1>1, <1>2, <2>2 DEF Request, TypeOK, crafting
  <1>3. ASSUME NEW p \in Player, NEW m \in Machine \cup {Nothing}, Inspect(p, m) PROVE TypeOK'
    <2>1. open' \in [Player -> Machine \cup {Nothing}]
      BY <1>3 DEF Inspect, TypeOK
    <2> QED
      BY <1>1, <1>3, <2>1 DEF Inspect, TypeOK, crafting
  <1>4. ASSUME NEW m \in Machine, NEW s \in Slot, TakeOut(m, s) PROVE TypeOK'
    <2>1. box' \in [Machine -> [Slot -> Stack \cup {Nothing}]]
      BY <1>4 DEF TakeOut, TypeOK
    <2> QED
      BY <1>1, <1>4, <2>1 DEF TakeOut, TypeOK, crafting, players
  <1>5. ASSUME NEW m \in Machine, NEW s \in Slot, NEW new \in Supply, Deliver(m, s, new) PROVE TypeOK'
    <2>1. box' \in [Machine -> [Slot -> Stack \cup {Nothing}]]
      BY <1>5, FactoryAssumption DEF Deliver, TypeOK
    <2> QED
      BY <1>1, <1>5, <2>1 DEF Deliver, TypeOK, crafting, players
  <1>6. ASSUME NEW m \in Machine, NEW n, Build(m, n) PROVE TypeOK'
    BY <1>1, <1>6 DEF Build, TypeOK, crafting, players
  <1>7. Router \subseteq Machine
    BY FactoryAssumption
  <1> QED
    BY <1>2, <1>3, <1>4, <1>5, <1>6, <1>7 DEF Between

\* A request gets to the machine that is open.
LEMMA CraftTyped == ASSUME TypeOK, BeltTypes', NEW p \in Player, CraftItem(p) PROVE TypeOK'
  <1>1. /\ counter' \in [Machine -> 0 .. 4] /\ belts' \in [Machine -> SUBSET Node]
        /\ got' \in [Node -> Nat] /\ lead' \in [Machine -> [Node -> Nat]] /\ budget' \in Nat
    BY DEF BeltTypes
  <1>2. /\ target' \in [Machine -> Kind \cup {Nothing}]
        /\ task' \in [Machine -> Tasks]
        /\ craft' \in [Player -> Kind \cup {Nothing}]
    <2>1. CASE open[p] \in Producer
      <3>1. open[p] \in Machine
        BY <2>1, FactoryAssumption
      <3>2. craft[p] \in Kind \cup {Nothing} /\ Enqueued(task[open[p]]) \in Tasks
        BY <3>1 DEF TypeOK, Enqueued, Tasks
      <3>3. /\ target' = [target EXCEPT ![open[p]] = craft[p]]
            /\ task' = [task EXCEPT ![open[p]] = Enqueued(task[open[p]])]
            /\ craft' = [craft EXCEPT ![p] = Nothing]
        BY <2>1 DEF CraftItem
      <3> HIDE DEF Tasks
      <3> QED
        BY <3>2, <3>3 DEF TypeOK
    <2>2. CASE open[p] \notin Producer
      BY <2>2 DEF CraftItem, TypeOK
    <2> QED
      BY <2>1, <2>2
  <1> QED
    BY <1>1, <1>2 DEF CraftItem, TypeOK

\* The types of what the work of a machine changes.
Work(b, k, t, l, w) ==
    /\ b \in [Machine -> [Slot -> Stack \cup {Nothing}]]
    /\ k \in [Machine -> Kind \cup {Nothing}]
    /\ t \in [Machine -> Nat] /\ l \in [Machine -> Nat]
    /\ w \in [Machine -> Tasks]

\* What ProduceItems does about a slot.
LEMMA ProduceTyped == ASSUME TypeOK, BeltTypes', ProduceSlot PROVE TypeOK'
  <1>1. /\ counter' \in [Machine -> 0 .. 4] /\ belts' \in [Machine -> SUBSET Node]
        /\ got' \in [Node -> Nat] /\ lead' \in [Machine -> [Node -> Nat]] /\ budget' \in Nat
    BY DEF BeltTypes
  <1>2. now \in Machine /\ cursor \in Slot /\ cursor' \in 0 .. N
    BY FactoryAssumption DEF ProduceSlot, TypeOK, Slot
  <1> DEFINE Made == Work(box', making', ticks', left', task')
  <1>0. Work(box, making, ticks, left, task)
    BY DEF TypeOK, Work
  <1>3. ASSUME UNCHANGED <<box, making, ticks, left, task>> PROVE Made
    BY <1>0, <1>3
  <1>4. ASSUME Burn(now, cursor) PROVE Made
    <2>1. PICK first : box' = [box EXCEPT ![now][cursor] =
                                 IF Fuel[@.kind] = Asset[first] THEN Nothing ELSE @]
      BY <1>4 DEF Burn
    <2>2. PICK x : /\ x = IF Fuel[box[now][cursor].kind] = Asset[first] THEN Nothing
                          ELSE box[now][cursor]
                   /\ box' = [box EXCEPT ![now][cursor] = x]
      BY <2>1
    <2>3. x \in Stack \cup {Nothing}
      BY <1>0, <1>2, <2>2 DEF Work
    <2> QED
      BY <1>0, <1>2, <1>4, <2>2, <2>3 DEF Burn, Work
  <1>5. ASSUME Emit(now) PROVE Made
    <2>1. Finished(task[now]) \in Tasks
      BY <1>2 DEF TypeOK, Finished, Tasks
    <2> QED
      BY <1>0, <1>2, <1>5, <2>1 DEF Emit, Work
  <1>6. ASSUME Attempt(now) PROVE Made
    <2>1. Attempted(task[now], TRUE) \in Tasks /\ Attempted(task[now], FALSE) \in Tasks
      BY <1>2 DEF TypeOK, Attempted, Tasks
    <2>2. ASSUME NEW r \in DOMAIN Recipes,
                 box' = [box EXCEPT ![now] = Depleted(now, r)],
                 making' = [making EXCEPT ![now] = Recipes[r].product],
                 ticks' = [ticks EXCEPT ![now] = Recipes[r].ticks],
                 left' = [left EXCEPT ![now] = Recipes[r].ticks],
                 task' = [task EXCEPT ![now] = Attempted(@, TRUE)]
          PROVE  Made
      <3>1. Depleted(now, r) \in Container
        BY <1>2, TypedContainer, DepletedWeights
      <3>2. Recipes[r].product \in Kind /\ Recipes[r].ticks \in Nat
        BY RecipesTyped DEF RecipeType
      <3>3. box' \in [Machine -> [Slot -> Stack \cup {Nothing}]]
        BY <1>0, <2>2, <3>1 DEF Work, Container
      <3> QED
        BY <1>0, <2>1, <2>2, <3>2, <3>3 DEF Work
    <2>3. CASE /\ left' = [left EXCEPT ![now] = ticks[now]]
               /\ task' = [task EXCEPT ![now] = Attempted(@, FALSE)]
               /\ UNCHANGED <<box, making, ticks>>
      <3>1. ticks[now] \in Nat
        BY <1>2 DEF TypeOK
      <3> QED
        BY <1>0, <2>1, <2>3, <3>1 DEF Work
    <2> QED
      BY <1>6, <2>2, <2>3 DEF Attempt
  <1>7. Made
    BY <1>3, <1>4, <1>5, <1>6 DEF ProduceSlot
  <1> HIDE DEF Made
  <1> QED
    BY <1>1, <1>2, <1>7 DEF ProduceSlot, TypeOK, players, Made, Work

\* A unit leaves its stack.
LEMMA PushTyped == ASSUME TypeOK, BeltTypes', PushUnit PROVE TypeOK'
  <1>1. /\ counter' \in [Machine -> 0 .. 4] /\ belts' \in [Machine -> SUBSET Node]
        /\ got' \in [Node -> Nat] /\ lead' \in [Machine -> [Node -> Nat]] /\ budget' \in Nat
    BY DEF BeltTypes
  <1>2. now \in Machine /\ cursor \in Slot
    BY FactoryAssumption DEF PushUnit, TypeOK, Slot
  <1>3. box[now][cursor] \in Stack
    BY <1>2 DEF PushUnit, Pushable, TypeOK
  <1>4. Pushed(box[now][cursor]) \in Stack \cup {Nothing}
    BY <1>3 DEF Stack, Pushed
  <1>5. box' \in [Machine -> [Slot -> Stack \cup {Nothing}]]
    BY <1>2, <1>4 DEF PushUnit, TypeOK
  <1> QED
    BY <1>1, <1>5 DEF PushUnit, TypeOK, crafting, players

\* Every step keeps the types.
LEMMA StepTyped == ASSUME TypeOK, BeltTypes', [Next]_vars PROVE TypeOK'
  <1>1. /\ counter' \in [Machine -> 0 .. 4] /\ belts' \in [Machine -> SUBSET Node]
        /\ got' \in [Node -> Nat] /\ lead' \in [Machine -> [Node -> Nat]] /\ budget' \in Nat
    BY DEF BeltTypes
  <1>2. Producer \subseteq Machine /\ Router \subseteq Machine /\ N \in Nat
    BY FactoryAssumption
  <1>3. CASE BeginFrame \/ BeginProduce \/ BeginPush \/ EndFrame
    BY <1>1, <1>2, <1>3 DEF BeginFrame, BeginProduce, BeginPush, EndFrame, TypeOK, crafting, players
  <1>4. ASSUME NEW m \in Machine, Visit(m) PROVE TypeOK'
    BY <1>1, <1>2, <1>4 DEF Visit, TypeOK, crafting, players
  <1>5. CASE TickDown
    <2>1. \A n \in Nat : Ticked(n) \in Nat
      BY DEF Ticked
    <2>2. left' \in [Machine -> Nat]
      BY <1>5, <2>1 DEF TickDown, TypeOK
    <2> QED
      BY <1>1, <1>5, <2>2 DEF TickDown, TypeOK, players
  <1>6. CASE PushNextSlot \/ PushDone
    BY <1>1, <1>2, <1>6 DEF PushNextSlot, PushDone, TypeOK, crafting, players
  <1>7. CASE UNCHANGED vars
    BY <1>7 DEF vars, TypeOK
  <1> QED
    BY <1>3, <1>4, <1>5, <1>6, <1>7, BetweenTyped, CraftTyped, ProduceTyped, PushTyped
       DEF Next, Frame

\* Types; no slot ever holds a stack of none, whatever is burnt, depleted,
\* delivered or pushed out while ProduceItems loops over the slots.
THEOREM FactoryTyped == Spec => []TypeOK
  <1>1. BeltInv => BeltTypes
    BY DEF BeltInv
  <1>2. TypeOK /\ BeltTypes' /\ [Next]_vars => TypeOK'
    BY StepTyped
  <1> QED
    BY <1>1, <1>2, InitTyped, InitBelts, StepBelts, PTL DEF Spec

\* One step of PushItemsOnNodes leaves what an automatic machine needs.
LEMMA PushLeaves ==
    ASSUME TypeOK, [Next]_vars, stage = "push", NEW m \in Machine, NEW k \in Kind,
           Filter[m] = "any", Reagent(m, k)
    PROVE  HeldOf(m, k)' = HeldOf(m, k)
  <1>1. CASE box' = box
    BY <1>1, HeldIsHolds
  <1>2. CASE PushUnit
    <2>1. now \in Machine /\ cursor \in Slot
      BY <1>2, FactoryAssumption DEF PushUnit, TypeOK, Slot
    <2>2. PICK x : box' = [box EXCEPT ![now][cursor] = x] /\ x = Pushed(box[now][cursor])
      BY <1>2 DEF PushUnit
    <2>3. box[now][cursor] \in Stack /\ box[now][cursor] # Nothing
      BY <1>2, <2>1 DEF PushUnit, Pushable, TypeOK
    <2>4. CASE m # now
      <3>1. box'[m] = box[m]
        BY <2>2, <2>4 DEF TypeOK
      <3> QED
        BY <3>1, HeldIsHolds
    <2>5. CASE m = now
      <3>1. box[m][cursor].kind # k
        BY <1>2, <2>5 DEF PushUnit, Pushable
      <3>2. x = Nothing \/ (x.kind = box[m][cursor].kind /\ x \in Stack)
        BY <2>2, <2>3, <2>5 DEF Stack, Pushed
      <3>3. \A s \in Slot : box'[m][s] = IF s = cursor THEN x ELSE box[m][s]
        BY <2>1, <2>2, <2>5 DEF TypeOK
      <3>4. box[m] \in Container /\ box'[m] \in Container
        BY <2>1, <2>2, <2>5, <3>2 DEF TypeOK, Container
      <3>5. \A s \in Slot : Weight(box'[m], k, s) = Weight(box[m], k, s)
        BY <3>1, <3>2, <3>3 DEF Weight
      <3>6. Holds(box'[m], k) = Holds(box[m], k)
        BY <3>4, <3>5, HoldsSame
      <3> QED
        BY <3>6, HeldIsHolds
    <2> QED
      BY <2>4, <2>5
  <1> QED
    BY <1>1, <1>2 DEF Next, Between, Frame, Request, Inspect, Deliver, TakeOut, Build,
                      BeginFrame, BeginProduce, BeginPush, EndFrame, CraftItem, Visit,
                      ProduceSlot, TickDown, PushNextSlot, PushDone, vars

\* PushItemsOnNodes leaves the reagents of an automatic machine in it, for
\* every set of recipes and machines.
THEOREM ReagentsAreLeft == Spec => ReagentsStay
  <1>1. TypeOK /\ [Next]_vars =>
            [stage = "push" =>
               \A m \in Machine, k \in Kind :
                   Filter[m] = "any" /\ Reagent(m, k) => HeldOf(m, k)' = HeldOf(m, k)]_vars
    BY PushLeaves
  <1> QED
    BY <1>1, FactoryTyped, PTL DEF Spec, ReagentsStay

\* What a recipe that starts has been paid.
Paid(m, r) ==
    /\ Recipes[r].product = making'[m] /\ Recipes[r].producer = Asset[m]
    /\ \A k \in Kind :
           /\ HeldOf(m, k) - HeldOf(m, k)' >= Needs(r, k)
           /\ Needs(r, k) = 0 => HeldOf(m, k)' = HeldOf(m, k)

LEMMA StartPays ==
    ASSUME TypeOK, [Next]_vars, NEW m \in Machine, making[m] = Nothing, making'[m] # Nothing
    PROVE  \E r \in DOMAIN Recipes : Paid(m, r)
  <1>1. ProduceSlot
    BY DEF Next, Between, Frame, Request, Inspect, Deliver, TakeOut, Build, BeginFrame,
           BeginProduce, BeginPush, EndFrame, CraftItem, Visit, TickDown, PushUnit,
           PushNextSlot, PushDone, vars, crafting
  <1>2. now \in Machine
    BY <1>1 DEF ProduceSlot, TypeOK
  <1>3. Attempt(now) /\ making' # making
    BY <1>1, <1>2 DEF ProduceSlot, Burn, Emit, TypeOK
  <1>4. PICK r \in DOMAIN Recipes :
          /\ Settles(now, r)
          /\ box' = [box EXCEPT ![now] = Depleted(now, r)]
          /\ making' = [making EXCEPT ![now] = Recipes[r].product]
    BY <1>3 DEF Attempt
  <1>5. m = now /\ making'[m] = Recipes[r].product
    BY <1>2, <1>4 DEF TypeOK
  <1>6. Recipes[r].producer = Asset[m] /\ \A k \in Kind : HeldOf(m, k) >= Needs(r, k)
    BY <1>4, <1>5 DEF Settles, Startable
  <1>7. box[m] \in Container /\ box'[m] = Depleted(m, r)
    BY <1>2, <1>4, <1>5, TypedContainer DEF TypeOK
  <1>8. ASSUME NEW k \in Kind
        PROVE  /\ HeldOf(m, k) - HeldOf(m, k)' >= Needs(r, k)
               /\ Needs(r, k) = 0 => HeldOf(m, k)' = HeldOf(m, k)
    <2>1. HeldOf(m, k) = Holds(box[m], k) /\ HeldOf(m, k)' = Holds(Depleted(m, r), k)
      BY <1>7, HeldIsHolds
    <2>2. Holds(box[m], k) >= Needs(r, k)
      BY <1>6, <2>1
    <2>3. /\ Holds(box[m], k) - Holds(Depleted(m, r), k) >= Needs(r, k)
          /\ Needs(r, k) = 0 => Holds(Depleted(m, r), k) = Holds(box[m], k)
      BY <1>7, <2>2, RecipePaid
    <2> QED
      BY <2>1, <2>3
  <1> QED
    BY <1>5, <1>6, <1>8 DEF Paid

\* A recipe that starts has had at least its reagents, and nothing else,
\* although the code counts what is LEFT in a slot as depleted.
THEOREM RecipesArePaid == Spec => ReagentsPaid
  <1>1. TypeOK /\ [Next]_vars =>
            [\A m \in Machine : making[m] = Nothing /\ making'[m] # Nothing =>
               \E r \in DOMAIN Recipes :
                   /\ Recipes[r].product = making'[m] /\ Recipes[r].producer = Asset[m]
                   /\ \A k \in Kind :
                          /\ HeldOf(m, k) - HeldOf(m, k)' >= Needs(r, k)
                          /\ Needs(r, k) = 0 => HeldOf(m, k)' = HeldOf(m, k)]_vars
    BY StartPays DEF Paid
  <1> QED
    BY <1>1, FactoryTyped, PTL DEF Spec, ReagentsPaid
=============================================================================
