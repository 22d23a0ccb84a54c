-------------------------- MODULE StreamingProofs --------------------------
(***************************************************************************)
(* Theorems about Streaming, for any number of viewers, things and         *)
(* messages on the wire: the record of the server and the table of the     *)
(* client match, and nothing goes back.  A single viewer never misses a    *)
(* block change; TLC shows that two viewers do.                            *)
(***************************************************************************)
EXTENDS Streaming, TLAPS

----------------------------------------------------------------------------
(* Typing                                                                  *)

\* The message a pass sends is well formed: its data covers what it creates
\* and updates.
LEMMA MessageTyped ==
    ASSUME TypeOK, NEW v \in Viewer, pass \in Layer
    PROVE  Message(v) \in MessageType
<1> DEFINE S == Created(v) \cup Updated(v)
<1>1. S \in SUBSET Thing /\ Removed(v) \in SUBSET Thing
  BY DEF Created, Updated, Removed
<1>2. \A x \in S : version[x] \in Version
  BY <1>1 DEF TypeOK
<1>3. [x \in S |-> version[x]] \in [S -> Version]
  BY <1>2
<1>4. [x \in S |-> version[x]] \in UNION {[T -> Version] : T \in SUBSET Thing}
  BY <1>1, <1>3
<1> QED
  BY <1>1, <1>4 DEF Message, MessageType, Created, Updated

\* Everything starts inside its domain.
LEMMA InitTyped == Init => TypeOK
<1> SUFFICES ASSUME Init PROVE TypeOK
  OBVIOUS
<1>1. 0 \in Version /\ 0 \in Layer /\ 4 \in Ring
  BY StreamingAssumption DEF Version, Layer, Ring
<1>2. ring \in [Viewer -> [Thing -> Ring]]
  BY <1>1 DEF Init
<1>3. wire \in [Viewer -> Seq(MessageType)]
  BY DEF Init
<1> QED
  BY <1>1, <1>2, <1>3 DEF Init, TypeOK, Thing

\* What a client reads keeps its tables in their domains.
LEMMA ReadTyped ==
    ASSUME TypeOK, NEW v \in Viewer, Read(v)
    PROVE  TypeOK'
<1>1. wire[v] \in Seq(MessageType) /\ wire[v] # <<>>
  BY DEF TypeOK, Read
<1>2. Head(wire[v]) \in MessageType /\ Tail(wire[v]) \in Seq(MessageType)
  BY <1>1
<1>3. wire' \in [Viewer -> Seq(MessageType)]
  BY <1>2 DEF TypeOK, Read
<1> DEFINE m == Head(wire[v])
<1>4. /\ m.layer \in Layer /\ m.create \subseteq Thing /\ m.update \subseteq Thing
      /\ \A x \in m.create \cup m.update : m.data[x] \in Version
  BY <1>2 DEF MessageType
<1> PICK rejecting \in BOOLEAN :
      LET taken == Creating(v) \cup Updating(v, rejecting)
      IN  /\ table' = [table EXCEPT ![v] = [x \in Thing |->
                         IF x \in Removing(v) THEN None
                         ELSE IF x \in taken THEN m.data[x]
                         ELSE table[v][x]]]
          /\ recent' = [recent EXCEPT ![v] = [x \in Thing |->
                          IF x \in Creating(v) \cup Removing(v) THEN None
                          ELSE IF x \in taken THEN m.layer
                          ELSE recent[v][x]]]
  BY DEF Read
<1> DEFINE taken == Creating(v) \cup Updating(v, rejecting)
<1>5. taken \subseteq m.create \cup m.update
  BY <1>4 DEF Creating, Updating
<1>6. table' \in [Viewer -> [Thing -> Version \cup {None}]]
  BY <1>4, <1>5 DEF TypeOK
<1>7. recent' \in [Viewer -> [Thing -> Layer \cup {None}]]
  BY <1>4 DEF TypeOK
<1> QED
  BY <1>3, <1>6, <1>7 DEF Read, TypeOK, world, Between

\* The passes of a frame.
LEMMA FrameTyped ==
    ASSUME TypeOK, Frame
    PROVE  TypeOK'
<1>1. CASE BeginFrame
  BY <1>1 DEF BeginFrame, Enter, TypeOK, world, client, Layer, Between
<1>2. CASE SkipPass \/ EndPass
  <2>1. pass + 1 \in 0 .. 3
    BY <1>2 DEF SkipPass, EndPass, Layer
  <2>2. streams' \subseteq Mover
    BY <1>2 DEF SkipPass, EndPass, TypeOK
  <2> QED
    BY <1>2, <2>1, <2>2 DEF SkipPass, EndPass, Enter, TypeOK, world, client, Layer, Between
<1>3. ASSUME NEW v \in Viewer, WriteViewer(v) PROVE TypeOK'
  <2>1. Message(v) \in MessageType
    BY <1>3, MessageTyped DEF WriteViewer
  <2>2. Sent(v) \in Seq(MessageType)
    BY <2>1 DEF Sent, TypeOK
  <2>3. wire' \in [Viewer -> Seq(MessageType)]
    BY <1>3, <2>2 DEF WriteViewer, TypeOK
  <2>4. known' \in [Viewer -> [Thing -> Version \cup {None}]]
    BY <1>3 DEF WriteViewer, TypeOK
  <2>5. cache' \in [Chunk -> {"none", "clean", "dirty"}]
    BY <1>3 DEF WriteViewer, TypeOK
  <2>6. dirty' \subseteq Chunk /\ turn' \subseteq active
    BY <1>3 DEF WriteViewer, TypeOK
  <2> QED
    BY <1>3, <2>3, <2>4, <2>5, <2>6 DEF WriteViewer, TypeOK, world, client, Layer, Between
<1> QED
  BY <1>1, <1>2, <1>3 DEF Frame

\* Everything that happens to the world between two frames.
LEMMA WorldTyped ==
    ASSUME TypeOK, World
    PROVE  TypeOK'
<1>1. ASSUME NEW x \in Thing, Change(x) PROVE TypeOK'
  <2>1. version[x] + 1 \in Version
    BY <1>1, StreamingAssumption DEF Change, TypeOK, Version
  <2>2. version' \in [Thing -> Version]
    BY <1>1, <2>1 DEF Change, TypeOK
  <2> QED
    BY <1>1, <2>2 DEF Change, TypeOK, client, Between
<1>2. ASSUME NEW v \in Viewer, NEW x \in Thing, NEW r \in Ring, Move(v, x, r)
      PROVE  TypeOK'
  <2>1. ring' \in [Viewer -> [Thing -> Ring]]
    BY <1>2 DEF Move, TypeOK
  <2> QED
    BY <1>2, <2>1 DEF Move, TypeOK, client, Between
<1>3. ASSUME NEW x \in Mover, Show(x) \/ Despawn(x) PROVE TypeOK'
  BY <1>3 DEF Show, Despawn, TypeOK, client, Between
<1>4. ASSUME NEW v \in Viewer, SwitchViewer(v) PROVE TypeOK'
  <2>1. turn = {} /\ active' \subseteq Viewer
    BY <1>4 DEF SwitchViewer, TypeOK
  <2> QED
    BY <1>4, <2>1 DEF SwitchViewer, TypeOK, client, Between
<1> QED
  BY <1>1, <1>2, <1>3, <1>4 DEF World

\* TypeOK is inductive on its own.
LEMMA StepTyped == TypeOK /\ [Next]_vars => TypeOK'
<1> SUFFICES ASSUME TypeOK, [Next]_vars PROVE TypeOK'
  OBVIOUS
<1>1. CASE World
  BY <1>1, WorldTyped
<1>2. CASE Frame
  BY <1>2, FrameTyped
<1>3. CASE Client
  <2>1. ASSUME NEW v \in Viewer, ClientFrame(v) PROVE TypeOK'
    BY <2>1 DEF ClientFrame, TypeOK, world, Between
  <2> QED
    BY <1>3, <2>1, ReadTyped DEF Client
<1>4. CASE UNCHANGED vars
  BY <1>4 DEF vars, TypeOK, Between
<1> QED
  BY <1>1, <1>2, <1>3, <1>4 DEF Next

\* Every variable stays in its domain, for any number of viewers, chunks and
\* entities: the tables of world.c and world_view.c.
THEOREM StreamingTypes == Spec => []TypeOK
  BY InitTyped, StepTyped, PTL DEF Spec

----------------------------------------------------------------------------
(* One viewer                                                              *)

\* One client with one head, as in a local session.
OneViewer == \E u : Viewer = {u}

\* A lone viewer is written with nothing cached: the flag that his write
\* takes from a chunk is the flag he is sent the chunk for.
NothingCached == turn # {} => \A c \in Chunk : cache[c] = "none"

\* The inductive invariant of a lone viewer.
OneInv == TypeOK /\ NoChangeLost /\ NothingCached

\* Nobody has been sent anything at the start.
LEMMA InitOne == Init => OneInv
<1> SUFFICES ASSUME Init PROVE NoChangeLost /\ NothingCached
  BY InitTyped DEF OneInv
<1> QED
  BY DEF Init, NoChangeLost, NothingCached, Has, Thing

\* The write of the only viewer.
LEMMA WriteOne ==
    ASSUME OneViewer, OneInv, NEW v \in Viewer, WriteViewer(v)
    PROVE  NoChangeLost' /\ NothingCached'
<1> USE DEF OneInv
<1>1. turn' = {}
  BY DEF OneViewer, WriteViewer, TypeOK
<1>2. \A c \in Chunk : cache[c] = "none"
  BY DEF NothingCached, WriteViewer
<1>3. ASSUME NEW c \in Chunk, known'[v][c] # None
      PROVE  known'[v][c] = version[c] \/ c \in dirty'
  <2>1. c \in Thing
    BY DEF Thing
  <2>2. known'[v][c] = IF c \in Removed(v) THEN None
                       ELSE IF c \in Created(v) \cup Updated(v) THEN version[c]
                       ELSE known[v][c]
    BY <2>1 DEF WriteViewer, TypeOK
  <2>3. CASE c \in Created(v) \cup Updated(v)
    BY <1>3, <2>2, <2>3
  <2>4. CASE c \notin Created(v) \cup Updated(v)
    <3>1. Has(v, c) /\ known'[v][c] = known[v][c]
      BY <1>3, <2>2, <2>4 DEF Has
    <3>2. known[v][c] = version[c] \/ c \in dirty
      BY <3>1 DEF NoChangeLost
    <3>3. c \in dirty => c \notin Built(v)
      BY <1>2, <2>1, <2>4, <3>1 DEF Built, Updated, Streamable, DirtyView
    <3> QED
      BY <3>1, <3>2, <3>3 DEF WriteViewer
  <2> QED
    BY <2>3, <2>4
<1>4. \A w \in Viewer : w = v
  BY DEF OneViewer
<1>5. version' = version
  BY DEF WriteViewer, world
<1> QED
  BY <1>1, <1>3, <1>4, <1>5 DEF NoChangeLost, NothingCached, Has

\* Only the write of the viewer touches the flags and the record together.
LEMMA StepOne == OneViewer /\ OneInv /\ [Next]_vars => OneInv'
<1> SUFFICES ASSUME OneViewer, OneInv, [Next]_vars
             PROVE  NoChangeLost' /\ NothingCached'
  BY StepTyped DEF OneInv
<1> USE DEF OneInv
<1>1. ASSUME NEW x \in Thing, Change(x) PROVE NoChangeLost' /\ NothingCached'
  BY <1>1 DEF Change, NoChangeLost, NothingCached, Has, TypeOK, client, Thing
<1>2. ASSUME NEW v \in Viewer, NEW x \in Thing, NEW r \in Ring, Move(v, x, r)
      PROVE  NoChangeLost' /\ NothingCached'
  BY <1>2 DEF Move, NoChangeLost, NothingCached, Has, client
<1>3. CASE BeginFrame \/ SkipPass \/ EndPass
  BY <1>3 DEF BeginFrame, SkipPass, EndPass, Enter, NoChangeLost,
              NothingCached, Has, world, client
<1>4. ASSUME NEW v \in Viewer, Read(v) \/ ClientFrame(v)
      PROVE  NoChangeLost' /\ NothingCached'
  BY <1>4 DEF Read, ClientFrame, NoChangeLost, NothingCached, Has, world
<1>5. CASE UNCHANGED vars
  BY <1>5 DEF vars, NoChangeLost, NothingCached, Has
<1>6. ASSUME NEW x \in Mover, Show(x) \/ Despawn(x)
      PROVE  NoChangeLost' /\ NothingCached'
  BY <1>6 DEF Show, Despawn, NoChangeLost, NothingCached, Has, client
<1>7. ASSUME NEW v \in Viewer, SwitchViewer(v)
      PROVE  NoChangeLost' /\ NothingCached'
  BY <1>7 DEF SwitchViewer, NoChangeLost, NothingCached, Has, client
<1>8. CASE World
  BY <1>1, <1>2, <1>6, <1>7, <1>8 DEF World
<1>9. CASE Frame
  BY <1>3, <1>9, WriteOne DEF Frame
<1>10. CASE Client
  BY <1>4, <1>10 DEF Client
<1> QED
  BY <1>5, <1>8, <1>9, <1>10 DEF Next

\* A single viewer never misses a block change, however many chunks there
\* are: world_build_entity_view clears is_dirty only on the way to the one
\* viewer who needs it.
THEOREM OneViewerMissesNothing == OneViewer /\ Spec => []NoChangeLost
<1>1. OneInv => NoChangeLost
  BY DEF OneInv
<1>2. ASSUME OneViewer PROVE Spec => []NoChangeLost
  <2>1. OneInv /\ [Next]_vars => OneInv'
    BY <1>2, StepOne
  <2> QED
    BY <1>1, <2>1, InitOne, PTL DEF Spec
<1> QED
  BY <1>2

----------------------------------------------------------------------------
(* The record of the server and the table of the client                    *)

\* A message about an entity that appears on or disappears from the client.
About(v, i, x) == x \in wire[v][i].create \cup wire[v][i].remove
Quiet(v, x, i, j) == \A k \in i .. j : ~About(v, k, x)

\* The client has the entity, or lacks it, once it has read n messages.
HasAfter(v, x, n) ==
    \/ x \in Present(v) /\ Quiet(v, x, 1, n)
    \/ \E i \in 1 .. n : x \in wire[v][i].create /\ Quiet(v, x, i + 1, n)
LacksAfter(v, x, n) ==
    \/ x \notin Present(v) /\ Quiet(v, x, 1, n)
    \/ \E i \in 1 .. n : x \in wire[v][i].remove /\ Quiet(v, x, i + 1, n)

\* A message creates what the client will lack when it comes to it, and
\* updates or removes what it will have.
Applies(v, n) ==
    /\ wire[v][n].create \cap wire[v][n].remove = {}
    /\ \A x \in wire[v][n].create : LacksAfter(v, x, n - 1)
    /\ \A x \in wire[v][n].update \cup wire[v][n].remove : HasAfter(v, x, n - 1)

\* The record runs ahead of the client by what is on the wire.
RecordAhead(v, x) ==
    IF Has(v, x) THEN HasAfter(v, x, Len(wire[v])) ELSE LacksAfter(v, x, Len(wire[v]))

WireInv ==
    \A v \in Viewer : /\ \A n \in 1 .. Len(wire[v]) : Applies(v, n)
                      /\ \A x \in Thing : RecordAhead(v, x)

\* Nothing is on the wire at the start, and nobody has anything.
LEMMA InitWire == Init => WireInv
<1> SUFFICES ASSUME Init, NEW v \in Viewer
             PROVE  (\A n \in 1 .. Len(wire[v]) : Applies(v, n)) /\ \A x \in Thing : RecordAhead(v, x)
  BY DEF WireInv
<1>1. wire[v] = <<>> /\ Len(wire[v]) = 0 /\ Present(v) = {}
  BY DEF Init, Present
<1>2. \A x \in Thing : ~Has(v, x)
  BY DEF Init, Has
<1>3. \A x \in Thing : RecordAhead(v, x)
  BY <1>1, <1>2 DEF RecordAhead, LacksAfter, Quiet
<1> QED
  BY <1>1, <1>3

\* What the message of a pass is about, in terms of the record.
LEMMA MessageFollowsRecord ==
    ASSUME TypeOK, NEW v \in Viewer, WriteViewer(v)
    PROVE  /\ Message(v).create = Created(v) /\ Message(v).remove = Removed(v)
           /\ Message(v).update = Updated(v)
           /\ Created(v) \cap Removed(v) = {}
           /\ \A x \in Created(v) : x \in Thing /\ ~Has(v, x)
           /\ \A x \in Updated(v) \cup Removed(v) : x \in Thing /\ Has(v, x)
           /\ \A x \in Thing : Has(v, x)' <=> (Has(v, x) \/ x \in Created(v)) /\ x \notin Removed(v)
           /\ \A w \in Viewer \ {v} : \A x \in Thing : Has(w, x)' <=> Has(w, x)
<1>1. \A x \in Thing : known'[v][x] = IF x \in Removed(v) THEN None
                                     ELSE IF x \in Created(v) \cup Updated(v) THEN version[x]
                                     ELSE known[v][x]
  BY DEF WriteViewer, TypeOK
<1>2. \A w \in Viewer \ {v} : known'[w] = known[w]
  BY DEF WriteViewer, TypeOK
<1>3. \A x \in Thing : version[x] # None
  BY StreamingAssumption DEF TypeOK, Version
<1>4. \A x \in Updated(v) : x \notin Removed(v) /\ Has(v, x)
  BY DEF Updated, Removed
<1>5. Message(v).create = Created(v) /\ Message(v).remove = Removed(v)
      /\ Message(v).update = Updated(v)
  BY DEF Message
<1>6. \A x \in Thing : Has(v, x)' <=> (Has(v, x) \/ x \in Created(v)) /\ x \notin Removed(v)
  BY <1>1, <1>3, <1>4 DEF Has
<1>7. \A w \in Viewer \ {v} : \A x \in Thing : Has(w, x)' <=> Has(w, x)
  BY <1>2 DEF Has
<1> QED
  BY <1>4, <1>5, <1>6, <1>7 DEF Created, Removed, Updated

\* A message joins the wire at its end.
LEMMA SendKeepsWire ==
    ASSUME TypeOK, WireInv, NEW v \in Viewer, WriteViewer(v)
    PROVE  WireInv'
<1> DEFINE m == Message(v)
<1>0. PICK L \in Nat : L = Len(wire[v])
  BY DEF TypeOK
<1>1. table' = table /\ \A w \in Viewer : Present(w)' = Present(w)
  BY DEF WriteViewer, client, Present
<1>2. L \in Nat /\ L = Len(wire[v]) /\ wire[v] \in Seq(MessageType)
  BY <1>0 DEF TypeOK
<1>3. ASSUME NEW w \in Viewer, w # v
      PROVE  (\A n \in 1 .. Len(wire'[w]) : Applies(w, n)') /\ \A x \in Thing : RecordAhead(w, x)'
  <2>1. wire'[w] = wire[w]
    BY <1>3 DEF WriteViewer, TypeOK
  <2>2. \A x \in Thing : Has(w, x)' <=> Has(w, x)
    BY <1>3, MessageFollowsRecord
  <2>3. \A x, i, j : Quiet(w, x, i, j)' <=> Quiet(w, x, i, j)
    BY <2>1 DEF Quiet, About
  <2>4. \A x, n : /\ HasAfter(w, x, n)' <=> HasAfter(w, x, n)
                  /\ LacksAfter(w, x, n)' <=> LacksAfter(w, x, n)
    BY <1>1, <2>1, <2>3 DEF HasAfter, LacksAfter
  <2> QED
    BY <2>1, <2>2, <2>4 DEF WireInv, Applies, RecordAhead
<1>4. CASE Created(v) \cup Updated(v) \cup Removed(v) = {}
  <2>1. wire' = wire
    BY <1>4 DEF WriteViewer
  <2>2. \A x \in Thing : Has(v, x)' <=> Has(v, x)
    BY <1>4, MessageFollowsRecord
  <2>3. \A x, i, j : Quiet(v, x, i, j)' <=> Quiet(v, x, i, j)
    BY <2>1 DEF Quiet, About
  <2>4. \A x, n : /\ HasAfter(v, x, n)' <=> HasAfter(v, x, n)
                  /\ LacksAfter(v, x, n)' <=> LacksAfter(v, x, n)
    BY <1>1, <2>1, <2>3 DEF HasAfter, LacksAfter
  <2>5. (\A n \in 1 .. Len(wire'[v]) : Applies(v, n)') /\ \A x \in Thing : RecordAhead(v, x)'
    BY <2>1, <2>2, <2>4 DEF WireInv, Applies, RecordAhead
  <2> QED
    BY <1>3, <2>5 DEF WireInv
<1>5. CASE Created(v) \cup Updated(v) \cup Removed(v) # {}
  <2>1. wire'[v] = Append(wire[v], m)
    BY <1>5 DEF WriteViewer, TypeOK, Sent
  <2> HIDE DEF m
  <2>2. Len(wire'[v]) = L + 1 /\ wire'[v][L + 1] = m /\ \A i \in 1 .. L : wire'[v][i] = wire[v][i]
    BY <1>2, <2>1
  <2>3. ASSUME NEW x, NEW i \in Int, NEW j \in Int, i >= 1, j <= L
        PROVE  Quiet(v, x, i, j)' <=> Quiet(v, x, i, j)
    <3>1. \A k \in i .. j : k \in 1 .. L
      BY <2>3
    <3> QED
      BY <2>2, <3>1 DEF Quiet, About
  <2>4. ASSUME NEW x, NEW n \in 0 .. L
        PROVE  /\ HasAfter(v, x, n)' <=> HasAfter(v, x, n)
               /\ LacksAfter(v, x, n)' <=> LacksAfter(v, x, n)
    <3>1. Present(v)' = Present(v) /\ (Quiet(v, x, 1, n)' <=> Quiet(v, x, 1, n))
      BY <1>1, <2>3
    <3>2. \A i \in 1 .. n : /\ Quiet(v, x, i + 1, n)' <=> Quiet(v, x, i + 1, n)
                            /\ wire'[v][i] = wire[v][i]
      BY <2>2, <2>3
    <3> QED
      BY <3>1, <3>2 DEF HasAfter, LacksAfter
  <2>5. ASSUME NEW n \in 1 .. L PROVE Applies(v, n)'
    <3>1. n - 1 \in 0 .. L /\ wire'[v][n] = wire[v][n] /\ Applies(v, n)
      BY <1>2, <2>2 DEF WireInv
    <3> QED
      BY <2>4, <3>1 DEF Applies
  <2>6. ASSUME NEW x \in Thing
        PROVE  IF Has(v, x) THEN HasAfter(v, x, L)' ELSE LacksAfter(v, x, L)'
    <3>1. L \in 0 .. L /\ RecordAhead(v, x)
      BY <1>2 DEF WireInv
    <3> QED
      BY <1>2, <2>4, <3>1 DEF RecordAhead
  <2>7. /\ m.create = Created(v) /\ m.remove = Removed(v) /\ m.update = Updated(v)
        /\ Created(v) \cap Removed(v) = {}
        /\ \A x \in Created(v) : x \in Thing /\ ~Has(v, x)
        /\ \A x \in Updated(v) \cup Removed(v) : x \in Thing /\ Has(v, x)
        /\ \A x \in Thing : Has(v, x)' <=> (Has(v, x) \/ x \in Created(v)) /\ x \notin Removed(v)
    BY MessageFollowsRecord DEF m
  <2>8. Applies(v, L + 1)'
    BY <1>2, <2>2, <2>6, <2>7 DEF Applies
  <2>9. ASSUME NEW x \in Thing PROVE RecordAhead(v, x)'
    <3>1. Quiet(v, x, L + 2, L + 1)'
      BY <1>2 DEF Quiet
    <3>2. CASE x \in Created(v)
      BY <1>2, <2>2, <2>7, <3>1, <3>2 DEF RecordAhead, HasAfter
    <3>3. CASE x \in Removed(v)
      BY <1>2, <2>2, <2>7, <3>1, <3>3 DEF RecordAhead, LacksAfter
    <3>4. CASE x \notin Created(v) \cup Removed(v)
      <4>1. ~About(v, L + 1, x)'
        BY <2>2, <2>7, <3>4 DEF About
      <4>2. \A i \in 1 .. L + 1 : Quiet(v, x, i, L)' => Quiet(v, x, i, L + 1)'
        BY <1>2, <4>1 DEF Quiet
      <4>3. HasAfter(v, x, L)' => HasAfter(v, x, L + 1)'
        BY <1>2, <4>2 DEF HasAfter
      <4>4. LacksAfter(v, x, L)' => LacksAfter(v, x, L + 1)'
        BY <1>2, <4>2 DEF LacksAfter
      <4> QED
        BY <2>2, <2>6, <2>7, <3>4, <4>3, <4>4 DEF RecordAhead
    <3> QED
      BY <3>2, <3>3, <3>4
  <2>10. \A n \in 1 .. L + 1 : Applies(v, n)'
    BY <1>2, <2>5, <2>8
  <2> QED
    BY <1>3, <2>2, <2>9, <2>10 DEF WireInv
<1> QED
  BY <1>4, <1>5

\* Before the first message the client has what it has.
LEMMA NothingRead ==
    ASSUME NEW v \in Viewer, NEW x
    PROVE  (HasAfter(v, x, 0) <=> x \in Present(v)) /\ (LacksAfter(v, x, 0) <=> x \notin Present(v))
  BY DEF HasAfter, LacksAfter, Quiet

\* The message that is read applies, and does what the server has assumed.
LEMMA HeadApplies ==
    ASSUME TypeOK, WireInv, NEW v \in Viewer, wire[v] # <<>>
    PROVE  LET m == Head(wire[v])
           IN  /\ m.create \cap Present(v) = {} /\ m.create \cap m.remove = {}
               /\ m.update \cup m.remove \subseteq Present(v)
               /\ m = wire[v][1] /\ Len(wire[v]) \in Nat \ {0}
               /\ m.create \subseteq Thing /\ \A x \in m.create \cup m.update : m.data[x] \in Version
<1>1. wire[v] \in Seq(MessageType) /\ Len(wire[v]) \in Nat \ {0} /\ Head(wire[v]) = wire[v][1]
  BY DEF TypeOK
<1>2. Applies(v, 1) /\ Head(wire[v]) \in MessageType
  BY <1>1 DEF WireInv
<1> QED
  BY <1>1, <1>2, NothingRead DEF Applies, MessageType

\* Reading takes the first message off and does what it says.
LEMMA ReadKeepsWire ==
    ASSUME TypeOK, WireInv, NEW v \in Viewer, Read(v)
    PROVE  WireInv'
<1> DEFINE m == Head(wire[v])
<1>0. PICK L \in Nat : L = Len(wire[v])
  BY DEF TypeOK
<1>1. /\ m.create \cap Present(v) = {} /\ m.create \cap m.remove = {}
      /\ m.update \cup m.remove \subseteq Present(v)
      /\ m = wire[v][1] /\ L \in Nat \ {0} /\ L = Len(wire[v])
      /\ m.create \subseteq Thing /\ \A x \in m.create \cup m.update : m.data[x] \in Version
  BY <1>0, HeadApplies DEF Read
<1>2. PICK rejecting \in BOOLEAN :
        table' = [table EXCEPT ![v] = [x \in Thing |->
                    IF x \in Removing(v) THEN None
                    ELSE IF x \in Creating(v) \cup Updating(v, rejecting) THEN m.data[x]
                    ELSE table[v][x]]]
  BY DEF Read
<1>3. \A x \in Thing : table'[v][x] = IF x \in Removing(v) THEN None
                                     ELSE IF x \in Creating(v) \cup Updating(v, rejecting) THEN m.data[x]
                                     ELSE table[v][x]
  BY <1>2 DEF TypeOK
<1>4. \A y \in Version : y # None
  BY StreamingAssumption DEF Version
<1>5. Creating(v) = m.create /\ Removing(v) = m.remove /\ Updating(v, rejecting) \subseteq m.update
  BY <1>1 DEF Creating, Removing, Updating
<1> HIDE DEF m
<1>6. \A x \in Thing : x \in Present(v)' <=> (x \in Present(v) \/ x \in m.create) /\ x \notin m.remove
  BY <1>1, <1>3, <1>4, <1>5 DEF Present
<1>7. wire[v] \in Seq(MessageType) /\ wire'[v] = Tail(wire[v])
  BY DEF Read, TypeOK
<1>8. Len(wire'[v]) = L - 1 /\ \A i \in 1 .. L - 1 : wire'[v][i] = wire[v][i + 1]
  BY <1>1, <1>7
<1>9. ASSUME NEW x \in Thing, NEW i \in Int, NEW j \in Int, i >= 1, j <= L - 1
      PROVE  Quiet(v, x, i, j)' <=> Quiet(v, x, i + 1, j + 1)
  <2>1. \A k \in i .. j : About(v, k, x)' <=> About(v, k + 1, x)
    <3>1. \A k \in i .. j : k \in 1 .. L - 1 /\ wire'[v][k] = wire[v][k + 1]
      BY <1>8, <1>9
    <3> QED
      BY <3>1 DEF About
  <2>2. \A k \in i + 1 .. j + 1 : k - 1 \in i .. j /\ (k - 1) + 1 = k
    OBVIOUS
  <2> QED
    BY <2>1, <2>2 DEF Quiet
<1>10. ASSUME NEW x \in Thing, NEW n \in 0 .. L - 1
       PROVE  /\ HasAfter(v, x, n + 1) => HasAfter(v, x, n)'
              /\ LacksAfter(v, x, n + 1) => LacksAfter(v, x, n)'
  <2>1. Quiet(v, x, 1, n + 1) => Quiet(v, x, 1, n)' /\ ~About(v, 1, x)
    <3>1. Quiet(v, x, 1, n + 1) => Quiet(v, x, 1 + 1, n + 1) /\ ~About(v, 1, x)
      BY DEF Quiet
    <3>2. Quiet(v, x, 1, n)' <=> Quiet(v, x, 1 + 1, n + 1)
      <4>1. 1 \in Int /\ n \in Int /\ n <= L - 1
        OBVIOUS
      <4> QED
        BY <1>9, <4>1
    <3> QED
      BY <3>1, <3>2
  <2>2. Quiet(v, x, 2, n + 1) => Quiet(v, x, 1, n)'
    <3>1. 1 \in Int /\ n \in Int /\ n <= L - 1 /\ 1 + 1 = 2
      OBVIOUS
    <3>2. Quiet(v, x, 1, n)' <=> Quiet(v, x, 1 + 1, n + 1)
      BY <1>9, <3>1
    <3> QED
      BY <3>1, <3>2
  <2>3. ASSUME NEW i \in 2 .. n + 1, Quiet(v, x, i + 1, n + 1)
        PROVE  /\ i - 1 \in 1 .. n /\ Quiet(v, x, (i - 1) + 1, n)'
               /\ wire'[v][i - 1] = wire[v][i]
    BY <1>1, <1>8, <1>9, <2>3
  <2>4. ASSUME HasAfter(v, x, n + 1) PROVE HasAfter(v, x, n)'
    <3>1. CASE x \in Present(v) /\ Quiet(v, x, 1, n + 1)
      BY <1>1, <1>6, <2>1, <3>1 DEF HasAfter, About
    <3>2. ASSUME NEW i \in 1 .. n + 1, x \in wire[v][i].create, Quiet(v, x, i + 1, n + 1)
          PROVE  HasAfter(v, x, n)'
      <4>1. CASE i = 1
        BY <1>1, <1>6, <2>2, <3>2, <4>1 DEF HasAfter
      <4>2. CASE i # 1
        BY <2>3, <3>2, <4>2 DEF HasAfter
      <4> QED
        BY <4>1, <4>2
    <3> QED
      BY <2>4, <3>1, <3>2 DEF HasAfter
  <2>5. ASSUME LacksAfter(v, x, n + 1) PROVE LacksAfter(v, x, n)'
    <3>1. CASE x \notin Present(v) /\ Quiet(v, x, 1, n + 1)
      BY <1>1, <1>6, <2>1, <3>1 DEF LacksAfter, About
    <3>2. ASSUME NEW i \in 1 .. n + 1, x \in wire[v][i].remove, Quiet(v, x, i + 1, n + 1)
          PROVE  LacksAfter(v, x, n)'
      <4>1. CASE i = 1
        BY <1>1, <1>6, <2>2, <3>2, <4>1 DEF LacksAfter
      <4>2. CASE i # 1
        BY <2>3, <3>2, <4>2 DEF LacksAfter
      <4> QED
        BY <4>1, <4>2
    <3> QED
      BY <2>5, <3>1, <3>2 DEF LacksAfter
  <2> QED
    BY <2>4, <2>5
<1>11. \A n \in 1 .. L - 1 : Applies(v, n)'
  <2> SUFFICES ASSUME NEW n \in 1 .. L - 1 PROVE Applies(v, n)'
    OBVIOUS
  <2>1. Applies(v, n + 1) /\ wire'[v][n] = wire[v][n + 1]
    BY <1>1, <1>8 DEF WireInv
  <2>2. wire[v][n + 1] \in MessageType
    BY <1>1, <1>7
  <2>3. \A x \in wire[v][n + 1].create \cup wire[v][n + 1].update \cup wire[v][n + 1].remove : x \in Thing
    BY <2>2 DEF MessageType
  <2>4. n - 1 \in 0 .. L - 1 /\ (n - 1) + 1 = (n + 1) - 1
    BY <1>1
  <2>5. ASSUME NEW x \in Thing
        PROVE  /\ HasAfter(v, x, (n + 1) - 1) => HasAfter(v, x, n - 1)'
               /\ LacksAfter(v, x, (n + 1) - 1) => LacksAfter(v, x, n - 1)'
    <3> DEFINE k == n - 1
    <3>1. /\ HasAfter(v, x, k + 1) => HasAfter(v, x, k)'
          /\ LacksAfter(v, x, k + 1) => LacksAfter(v, x, k)'
      <4> HIDE DEF k
      <4>1. k \in 0 .. L - 1
        BY <2>4 DEF k
      <4> QED
        BY <1>10, <4>1
    <3> QED
      BY <2>4, <3>1
  <2> QED
    BY <2>1, <2>3, <2>5 DEF Applies
<1>12. \A x \in Thing : RecordAhead(v, x)'
  <2>1. L - 1 \in 0 .. L - 1 /\ (L - 1) + 1 = L /\ L = Len(wire[v])
    BY <1>1
  <2>2. \A x \in Thing : Has(v, x)' <=> Has(v, x)
    BY DEF Read, Has
  <2>3. ASSUME NEW x \in Thing
        PROVE  /\ HasAfter(v, x, L) => HasAfter(v, x, L - 1)'
               /\ LacksAfter(v, x, L) => LacksAfter(v, x, L - 1)'
    BY <1>10, <2>1
  <2> QED
    BY <1>8, <2>1, <2>2, <2>3 DEF WireInv, RecordAhead
<1>13. ASSUME NEW w \in Viewer, w # v
       PROVE  (\A n \in 1 .. Len(wire'[w]) : Applies(w, n)') /\ \A x \in Thing : RecordAhead(w, x)'
  <2>1. wire'[w] = wire[w] /\ known' = known /\ Present(w)' = Present(w)
    BY <1>2, <1>13 DEF Read, TypeOK, Present
  <2>2. \A x, i, j : Quiet(w, x, i, j)' <=> Quiet(w, x, i, j)
    BY <2>1 DEF Quiet, About
  <2>3. \A x, n : /\ HasAfter(w, x, n)' <=> HasAfter(w, x, n)
                  /\ LacksAfter(w, x, n)' <=> LacksAfter(w, x, n)
    BY <2>1, <2>2 DEF HasAfter, LacksAfter
  <2> QED
    BY <2>1, <2>3 DEF WireInv, Applies, RecordAhead, Has
<1> QED
  BY <1>8, <1>11, <1>12, <1>13 DEF WireInv

\* Nothing else changes the record, the wire or the tables.
LEMMA StepWire == TypeOK /\ WireInv /\ [Next]_vars => WireInv'
<1> SUFFICES ASSUME TypeOK, WireInv, [Next]_vars PROVE WireInv'
  OBVIOUS
<1>1. ASSUME UNCHANGED <<known, wire, table>> PROVE WireInv'
  <2>1. \A v, x, i, j : Quiet(v, x, i, j)' <=> Quiet(v, x, i, j)
    BY <1>1 DEF Quiet, About
  <2>2. \A v : Present(v)' = Present(v)
    BY <1>1 DEF Present
  <2>3. \A v, x, n : /\ HasAfter(v, x, n)' <=> HasAfter(v, x, n)
                     /\ LacksAfter(v, x, n)' <=> LacksAfter(v, x, n)
    BY <1>1, <2>1, <2>2 DEF HasAfter, LacksAfter
  <2> QED
    BY <1>1, <2>3 DEF WireInv, Applies, RecordAhead, Has
<1>2. CASE World
  BY <1>1, <1>2 DEF World, Change, Move, Show, Despawn, SwitchViewer, client
<1>3. CASE Frame
  <2>1. CASE BeginFrame \/ SkipPass \/ EndPass
    BY <1>1, <2>1 DEF BeginFrame, SkipPass, EndPass, client
  <2> QED
    BY <1>3, <2>1, SendKeepsWire DEF Frame
<1>4. CASE Client
  <2>1. ASSUME NEW v \in Viewer, ClientFrame(v) PROVE WireInv'
    BY <1>1, <2>1 DEF ClientFrame
  <2> QED
    BY <1>4, <2>1, ReadKeepsWire DEF Client
<1>5. CASE UNCHANGED vars
  BY <1>1, <1>5 DEF vars
<1> QED
  BY <1>2, <1>3, <1>4, <1>5 DEF Next

\* What a client will have, told from the last message about an entity.
LEMMA RecordIsWill ==
    ASSUME TypeOK, WireInv, NEW v \in Viewer, NEW x \in Thing
    PROVE  Has(v, x) <=> Will(v, x)
<1> DEFINE L == Len(wire[v])
           about == {i \in DOMAIN wire[v] : x \in wire[v][i].create \cup wire[v][i].remove}
           last == CHOOSE i \in about : \A j \in about : j <= i
<1>1. L \in Nat /\ DOMAIN wire[v] = 1 .. L
  BY DEF TypeOK
<1>2. \A i \in 1 .. L : i \in about <=> About(v, i, x)
  BY <1>1 DEF About
<1>3. Will(v, x) <=> IF about = {} THEN x \in Present(v) ELSE x \in wire[v][last].create
  BY DEF Will
<1>4. RecordAhead(v, x) /\ \A n \in 1 .. L : wire[v][n].create \cap wire[v][n].remove = {}
  BY DEF WireInv, Applies
<1>5. CASE Quiet(v, x, 1, L)
  <2>1. about = {}
    BY <1>1, <1>2, <1>5 DEF Quiet
  <2>2. \A i \in 1 .. L : x \notin wire[v][i].create \cup wire[v][i].remove
    BY <1>5 DEF Quiet, About
  <2> QED
    BY <1>3, <1>4, <2>1, <2>2 DEF RecordAhead, HasAfter, LacksAfter
<1>6. ASSUME NEW i \in 1 .. L, About(v, i, x), Quiet(v, x, i + 1, L)
      PROVE  i = last /\ about # {}
  <2>1. i \in about /\ \A j \in about : j <= i
    BY <1>1, <1>2, <1>6 DEF Quiet
  <2>2. last \in about /\ \A j \in about : j <= last
    BY <2>1
  <2>3. i \in Int /\ last \in Int
    BY <1>1, <2>2
  <2> QED
    BY <2>1, <2>2, <2>3
<1> HIDE DEF about, last
<1>7. CASE ~Quiet(v, x, 1, L) /\ Has(v, x)
  <2>1. PICK i \in 1 .. L : x \in wire[v][i].create /\ Quiet(v, x, i + 1, L)
    BY <1>4, <1>7 DEF RecordAhead, HasAfter
  <2> QED
    BY <1>3, <1>6, <1>7, <2>1 DEF About
<1>8. CASE ~Quiet(v, x, 1, L) /\ ~Has(v, x)
  <2>1. PICK i \in 1 .. L : x \in wire[v][i].remove /\ Quiet(v, x, i + 1, L)
    BY <1>4, <1>8 DEF RecordAhead, LacksAfter
  <2> QED
    BY <1>3, <1>4, <1>6, <1>8, <2>1 DEF About
<1> QED
  BY <1>5, <1>7, <1>8

\* The server's record of a viewer is what the viewer will have: however many
\* passes are on the wire, no entity is left behind on a client and none is
\* kept from it.
THEOREM RecordMatches == Spec => []SnapshotMatches
<1>1. TypeOK /\ WireInv => SnapshotMatches
  BY RecordIsWill DEF SnapshotMatches
<1> QED
  BY <1>1, InitTyped, StepTyped, InitWire, StepWire, PTL DEF Spec

\* No message creates what the client has, or updates or removes what it has
\* not, for which tracker_read_remove has no check.
THEOREM AllMessagesApply == Spec => []MessagesApply
<1>1. TypeOK /\ WireInv => MessagesApply
  BY HeadApplies DEF MessagesApply
<1> QED
  BY <1>1, InitTyped, StepTyped, InitWire, StepWire, PTL DEF Spec

----------------------------------------------------------------------------
(* What a client shows never grows older                                   *)

Carries(v, i, x) == x \in wire[v][i].create \cup wire[v][i].update

\* The states of an entity on their way to a client are in the order in which
\* the entity went through them, none older than what the client shows.
Rising(v, x) ==
    /\ \A i \in 1 .. Len(wire[v]) : Carries(v, i, x) =>
          /\ wire[v][i].data[x] <= version[x]
          /\ table[v][x] # None => table[v][x] <= wire[v][i].data[x]
          /\ \A j \in i + 1 .. Len(wire[v]) :
                Carries(v, j, x) => wire[v][i].data[x] <= wire[v][j].data[x]
    /\ table[v][x] # None => table[v][x] <= version[x]

RisingInv == \A v \in Viewer, x \in Thing : Rising(v, x)

LEMMA InitRising == Init => RisingInv
<1> SUFFICES ASSUME Init, NEW v \in Viewer, NEW x \in Thing PROVE Rising(v, x)
  BY DEF RisingInv
<1>1. wire[v] = <<>> /\ Len(wire[v]) = 0 /\ table[v][x] = None
  BY DEF Init
<1> QED
  BY <1>1 DEF Rising

\* What a message says about an entity is a version of it.
LEMMA CarriesVersion ==
    ASSUME TypeOK, NEW v \in Viewer, NEW x \in Thing, NEW i \in 1 .. Len(wire[v]),
           Carries(v, i, x)
    PROVE  wire[v][i].data[x] \in Nat
<1>1. wire[v][i] \in MessageType
  BY DEF TypeOK
<1>2. PICK S \in SUBSET Thing : wire[v][i].data \in [S -> Version]
  BY <1>1 DEF MessageType
<1>3. x \in S
  BY <1>1, <1>2 DEF MessageType, Carries
<1> QED
  BY <1>2, <1>3, StreamingAssumption DEF Version

\* A pass adds the present state of an entity behind its earlier ones.
LEMMA SendKeepsRising ==
    ASSUME TypeOK, RisingInv, NEW v \in Viewer, WriteViewer(v)
    PROVE  RisingInv'
<1> SUFFICES ASSUME NEW w \in Viewer, NEW x \in Thing PROVE Rising(w, x)'
  BY DEF RisingInv
<1>1. table' = table /\ version' = version
  BY DEF WriteViewer, client, world
<1>2. version[x] \in Nat /\ Rising(w, x) /\ wire[w] \in Seq(MessageType)
  BY StreamingAssumption DEF TypeOK, Version, RisingInv
<1>3. CASE wire'[w] = wire[w]
  BY <1>1, <1>2, <1>3 DEF Rising, Carries
<1>4. CASE wire'[w] # wire[w]
  <2>1. w = v /\ wire'[w] = Append(wire[w], Message(w))
    BY <1>4 DEF WriteViewer, TypeOK, Sent
  <2>2. PICK L \in Nat : L = Len(wire[w])
    BY <1>2
  <2>3. Len(wire'[w]) = L + 1 /\ wire'[w][L + 1] = Message(w) /\ \A i \in 1 .. L : wire'[w][i] = wire[w][i]
    BY <1>2, <2>1, <2>2
  <2>4. Carries(w, L + 1, x)' => wire'[w][L + 1].data[x] = version[x]
    BY <2>3 DEF Carries, Message
  <2>5. ASSUME NEW i \in 1 .. L, Carries(w, i, x)'
        PROVE  /\ Carries(w, i, x) /\ wire'[w][i].data[x] = wire[w][i].data[x]
               /\ wire[w][i].data[x] <= version[x]
               /\ table[w][x] # None => table[w][x] <= wire[w][i].data[x]
               /\ \A j \in i + 1 .. L : Carries(w, j, x) => wire[w][i].data[x] <= wire[w][j].data[x]
    <3>1. Carries(w, i, x) /\ wire'[w][i].data[x] = wire[w][i].data[x]
      BY <2>3, <2>5 DEF Carries
    <3> QED
      BY <1>2, <2>2, <3>1 DEF Rising
  <2>6. ASSUME NEW i \in 1 .. L, NEW j \in i + 1 .. L + 1, Carries(w, i, x)', Carries(w, j, x)'
        PROVE  wire'[w][i].data[x] <= wire'[w][j].data[x]
    <3>1. CASE j = L + 1
      BY <2>4, <2>5, <2>6, <3>1
    <3>2. CASE j # L + 1
      <4>1. j \in 1 .. L /\ j \in i + 1 .. L
        BY <3>2
      <4> QED
        BY <2>5, <2>6, <4>1
    <3> QED
      BY <3>1, <3>2
  <2>7. table[w][x] # None => table[w][x] <= version[x]
    BY <1>2 DEF Rising
  <2>8. ASSUME NEW i \in 1 .. L + 1, Carries(w, i, x)'
        PROVE  /\ wire'[w][i].data[x] <= version[x]
               /\ table[w][x] # None => table[w][x] <= wire'[w][i].data[x]
               /\ \A j \in i + 1 .. L + 1 : Carries(w, j, x)' => wire'[w][i].data[x] <= wire'[w][j].data[x]
    <3>1. CASE i = L + 1
      BY <1>2, <2>4, <2>7, <2>8, <3>1
    <3>2. CASE i # L + 1
      <4>1. i \in 1 .. L
        BY <3>2
      <4> QED
        BY <2>5, <2>6, <2>8, <4>1
    <3> QED
      BY <3>1, <3>2
  <2> QED
    BY <1>1, <2>3, <2>7, <2>8 DEF Rising
<1> QED
  BY <1>3, <1>4

\* A message that is read replaces what the client shows by something that
\* is not older, and nothing behind it is older still.
LEMMA ReadRises ==
    ASSUME TypeOK, RisingInv, NEW v \in Viewer, Read(v), NEW w \in Viewer, NEW x \in Thing
    PROVE  /\ Rising(w, x)'
           /\ table[w][x] # None /\ table'[w][x] # None => table'[w][x] >= table[w][x]
<1>1. Rising(w, x) /\ version' = version
  BY DEF RisingInv, Read, world
<1>2. version[x] \in Nat /\ (table[w][x] # None => table[w][x] \in Nat)
  BY StreamingAssumption DEF TypeOK, Version
<1>3. CASE w # v
  <2>1. wire'[w] = wire[w] /\ table'[w] = table[w]
    BY <1>3 DEF Read, TypeOK
  <2> QED
    BY <1>1, <1>2, <2>1 DEF Rising, Carries
<1>4. CASE w = v
  <2>1. PICK L \in Nat : L = Len(wire[w])
    BY DEF TypeOK
  <2>2. /\ wire[w] \in Seq(MessageType) /\ wire[w] # <<>> /\ wire'[w] = Tail(wire[w])
        /\ Head(wire[w]) = wire[w][1]
    BY <1>4 DEF Read, TypeOK
  <2>3. /\ L \in Nat \ {0} /\ Len(wire'[w]) = L - 1 /\ wire[w][1] \in MessageType
        /\ \A i \in 1 .. L - 1 : wire'[w][i] = wire[w][i + 1]
    BY <2>1, <2>2
  <2>4. \/ table'[w][x] = table[w][x]
        \/ table'[w][x] = None
        \/ Carries(w, 1, x) /\ table'[w][x] = wire[w][1].data[x]
    <3>1. PICK rejecting \in BOOLEAN :
            table'[w][x] = IF x \in Removing(w) THEN None
                           ELSE IF x \in Creating(w) \cup Updating(w, rejecting) THEN wire[w][1].data[x]
                           ELSE table[w][x]
      BY <1>4, <2>2 DEF Read, TypeOK
    <3>2. Creating(w) \cup Updating(w, rejecting) \subseteq wire[w][1].create \cup wire[w][1].update
      BY <2>2 DEF Creating, Updating
    <3> QED
      BY <3>1, <3>2 DEF Carries
  <2>5. ASSUME NEW i \in 1 .. L, Carries(w, i, x)
        PROVE  /\ wire[w][i].data[x] \in Nat /\ wire[w][i].data[x] <= version[x]
               /\ table[w][x] # None => table[w][x] <= wire[w][i].data[x]
               /\ \A j \in i + 1 .. L : Carries(w, j, x) => wire[w][i].data[x] <= wire[w][j].data[x]
    <3>1. wire[w][i].data[x] \in Nat
      BY <2>1, <2>5, CarriesVersion
    <3> QED
      BY <1>1, <2>1, <2>5, <3>1 DEF Rising
  <2>6. ASSUME NEW i \in 1 .. L - 1, Carries(w, i, x)'
        PROVE  /\ i + 1 \in 1 .. L /\ Carries(w, i + 1, x)
               /\ wire'[w][i].data[x] = wire[w][i + 1].data[x]
    BY <2>3, <2>6 DEF Carries
  <2>7. table'[w][x] # None => table'[w][x] \in Nat /\ table'[w][x] <= version[x]
    BY <1>1, <1>2, <2>3, <2>4, <2>5 DEF Rising
  <2>8. ASSUME NEW i \in 1 .. L - 1, Carries(w, i, x)', table'[w][x] # None
        PROVE  table'[w][x] <= wire'[w][i].data[x]
    <3>1. 1 \in 1 .. L /\ i + 1 \in 1 + 1 .. L /\ i + 1 \in 1 .. L
      BY <2>3
    <3> QED
      BY <2>4, <2>5, <2>6, <2>8, <3>1
  <2>9. ASSUME NEW i \in 1 .. L - 1, NEW j \in i + 1 .. L - 1, Carries(w, i, x)', Carries(w, j, x)'
        PROVE  wire'[w][i].data[x] <= wire'[w][j].data[x]
    <3>1. j \in 1 .. L - 1 /\ j + 1 \in (i + 1) + 1 .. L
      OBVIOUS
    <3> QED
      BY <2>5, <2>6, <2>9, <3>1
  <2>10. ASSUME NEW i \in 1 .. L - 1, Carries(w, i, x)'
         PROVE  wire'[w][i].data[x] <= version[x]
    BY <2>5, <2>6, <2>10
  <2>11. Rising(w, x)'
    BY <1>1, <2>3, <2>7, <2>8, <2>9, <2>10 DEF Rising
  <2> QED
    BY <1>2, <2>3, <2>4, <2>5, <2>11
<1> QED
  BY <1>3, <1>4

\* An entity only grows newer, and only a message that is read changes what a
\* client shows.
LEMMA StepRises ==
    ASSUME TypeOK, RisingInv, [Next]_vars
    PROVE  /\ RisingInv'
           /\ \A v \in Viewer, x \in Thing :
                table[v][x] # None /\ table'[v][x] # None => table'[v][x] >= table[v][x]
<1>1. \A v \in Viewer, x \in Thing :
        version[x] \in Nat /\ (table[v][x] # None => table[v][x] \in Nat)
  BY StreamingAssumption DEF TypeOK, Version
<1>2. ASSUME UNCHANGED <<version, wire, table>> PROVE RisingInv'
  BY <1>2 DEF RisingInv, Rising, Carries
<1>3. ASSUME NEW y \in Thing, Change(y) PROVE RisingInv'
  <2> SUFFICES ASSUME NEW v \in Viewer, NEW x \in Thing PROVE Rising(v, x)'
    BY DEF RisingInv
  <2>1. /\ wire' = wire /\ table' = table /\ version'[x] \in Nat
        /\ version[x] <= version'[x] /\ version[x] \in Nat
    BY <1>1, <1>3 DEF Change, client, TypeOK
  <2>2. \A i \in 1 .. Len(wire[v]) : Carries(v, i, x) => wire[v][i].data[x] \in Nat
    BY CarriesVersion
  <2>3. \A i : Carries(v, i, x)' <=> Carries(v, i, x)
    BY <2>1 DEF Carries
  <2>4. Rising(v, x) /\ (table[v][x] # None => table[v][x] \in Nat)
    BY <1>1 DEF RisingInv
  <2> QED
    BY <2>1, <2>2, <2>4 DEF Rising, Carries
<1>4. CASE UNCHANGED table
  <2>1. ASSUME World PROVE RisingInv'
    BY <1>2, <1>3, <1>4, <2>1 DEF World, Move, Show, Despawn, SwitchViewer
  <2>2. ASSUME Frame PROVE RisingInv'
    BY <1>2, <1>4, <2>2, SendKeepsRising DEF Frame, BeginFrame, SkipPass, EndPass, world
  <2>3. ASSUME NEW v \in Viewer, Read(v) PROVE RisingInv'
    BY <2>3, ReadRises DEF RisingInv
  <2>4. ASSUME NEW v \in Viewer, ClientFrame(v) PROVE RisingInv'
    BY <1>2, <2>4 DEF ClientFrame, world
  <2>5. ASSUME UNCHANGED vars PROVE RisingInv'
    BY <1>2, <2>5 DEF vars
  <2>6. RisingInv'
    BY <2>1, <2>2, <2>3, <2>4, <2>5 DEF Next, Client
  <2> QED
    BY <1>1, <1>4, <2>6
<1>5. CASE ~ UNCHANGED table
  <2>1. PICK v \in Viewer : Read(v)
    BY <1>5 DEF Next, World, Frame, Client, Change, Move, Show, Despawn, SwitchViewer,
                BeginFrame, SkipPass, EndPass, WriteViewer, ClientFrame, client, vars
  <2> QED
    BY <2>1, ReadRises DEF RisingInv
<1> QED
  BY <1>4, <1>5

\* No client ever goes back to an older state of an entity it keeps, with any
\* number of passes of any layers on the wire.
THEOREM NeverGoesBack == Spec => NeverBack
<1>1. ASSUME TypeOK, RisingInv, [Next]_vars
      PROVE  [\A v \in Viewer, x \in Thing :
                 table[v][x] # None /\ table'[v][x] # None => table'[v][x] >= table[v][x]]_vars
  BY <1>1, StepRises
<1>2. TypeOK /\ RisingInv /\ [Next]_vars => RisingInv'
  BY StepRises
<1>3. Spec => [](TypeOK /\ RisingInv)
  BY <1>2, InitTyped, StepTyped, InitRising, PTL DEF Spec
<1> QED
  BY <1>1, <1>3, PTL DEF Spec, NeverBack

=============================================================================
