--------------------------- MODULE SessionProofs ---------------------------
(***************************************************************************)
(* Theorems about Session, for any number of clients, views and tables:    *)
(* every view of a client has one player entity and no client leaves any   *)
(* behind, nothing is dropped on the way, and what is shown is what is     *)
(* streamed.                                                               *)
(***************************************************************************)
EXTENDS Session, FiniteSetTheorems, TLAPS

----------------------------------------------------------------------------
(* Recursion over an interval                                              *)

\* Every set of naturals that has an element has a least one.
LEMMA LeastNatural ==
    ASSUME NEW S \in SUBSET Nat, S # {}
    PROVE  \E m \in S : \A k \in S : m <= k
<1> DEFINE R == StrictSubsetOrdering(Nat)
           T == {0 .. n : n \in S}
<1>1. T # {} /\ T \subseteq FiniteSubsetsOf(Nat)
  <2>1. \A n \in S : IsFiniteSet(0 .. n) /\ 0 .. n \in SUBSET Nat
    BY FS_Interval
  <2> QED
    BY <2>1 DEF FiniteSubsetsOf
<1>2. PICK A \in T : \A B \in T : ~(<<B, A>> \in R)
  <2>1. IsWellFoundedOn(R, FiniteSubsetsOf(Nat))
    BY FS_StrictSubsetOrderingWellFounded
  <2> HIDE DEF R, T
  <2> QED
    BY <1>1, <2>1, WFMin
<1>3. PICK m \in S : A = 0 .. m
  OBVIOUS
<1>4. ASSUME NEW k \in S, k < m PROVE FALSE
  <2>1. 0 .. k \subseteq A /\ 0 .. k # A
    BY <1>3, <1>4
  <2>2. 0 .. k \in SUBSET Nat /\ A \in SUBSET Nat
    BY <1>3
  <2> QED
    BY <1>2, <2>1, <2>2 DEF StrictSubsetOrdering
<1> QED
  BY <1>4

\* What holds at 0 and at i whenever it holds at i - 1 holds up to the end.
LEMMA UpTo ==
    ASSUME NEW N \in Nat, NEW G \in SUBSET (0 .. N), 0 \in G,
           \A i \in 1 .. N : i - 1 \in G => i \in G
    PROVE  G = 0 .. N
<1> DEFINE S == (0 .. N) \ G
<1> SUFFICES ASSUME S # {} PROVE FALSE
  OBVIOUS
<1>1. PICK m \in S : \A k \in S : m <= k
  <2>1. S \in SUBSET Nat
    OBVIOUS
  <2> HIDE DEF S
  <2> QED
    BY <2>1, LeastNatural
<1>2. m \in 1 .. N /\ m - 1 \in 0 .. N
  BY <1>1
<1> QED
  BY <1>1, <1>2

\* f is the recursion over 0 .. N that starts from base and goes on by step.
Recursion(f, N, S, base, step) ==
    f \in [0 .. N -> S] /\ f[0] = base /\ \A i \in 1 .. N : f[i] = step[i][f[i - 1]]

\* A recursion over an interval has a solution.
LEMMA RecursionSolved ==
    ASSUME NEW N \in Nat, NEW S, NEW base \in S, NEW step \in [1 .. N -> [S -> S]]
    PROVE  \E f : Recursion(f, N, S, base, step)
<1> DEFINE Solves(f, m) == f[0] = base /\ \A i \in 1 .. m : f[i] = step[i][f[i - 1]]
           G == {m \in 0 .. N : \E f \in [0 .. m -> S] : Solves(f, m)}
<1>1. 0 \in G
  <2> DEFINE f == [i \in 0 .. 0 |-> base]
  <2>1. f \in [0 .. 0 -> S] /\ f[0] = base /\ \A i \in 1 .. 0 : f[i] = step[i][f[i - 1]]
    OBVIOUS
  <2> HIDE DEF f
  <2>2. 0 \in 0 .. N
    OBVIOUS
  <2> QED
    BY <2>1, <2>2
<1>2. ASSUME NEW m \in 1 .. N, m - 1 \in G PROVE m \in G
  <2>1. PICK f \in [0 .. m - 1 -> S] : Solves(f, m - 1)
    BY <1>2
  <2> DEFINE h == [i \in 0 .. m |-> IF i = m THEN step[m][f[m - 1]] ELSE f[i]]
  <2>2. step[m][f[m - 1]] \in S
    OBVIOUS
  <2>3. h \in [0 .. m -> S]
    BY <2>2
  <2>4. ASSUME NEW i \in 1 .. m PROVE h[i] = step[i][h[i - 1]]
    <3>1. h[i - 1] = f[i - 1] /\ i - 1 \in 0 .. m
      OBVIOUS
    <3>2. CASE i = m
      BY <3>1, <3>2
    <3>3. CASE i # m
      <4>1. i \in 1 .. m - 1 /\ h[i] = f[i]
        BY <3>3
      <4> QED
        BY <2>1, <3>1, <4>1
    <3> QED
      BY <3>2, <3>3
  <2>5. h[0] = base
    BY <2>1
  <2>6. m \in 0 .. N
    OBVIOUS
  <2> HIDE DEF h
  <2> QED
    BY <2>3, <2>4, <2>5, <2>6
<1> HIDE DEF G
<1>3. G = 0 .. N
  <2>1. G \in SUBSET (0 .. N)
    BY DEF G
  <2> QED
    BY <1>1, <1>2, <2>1, UpTo
<1>4. N \in G
  BY <1>3
<1> QED
  BY <1>4 DEF G, Recursion

----------------------------------------------------------------------------
(* The loop of network_server_despawn_viewers                              *)

\* No view of a connection is twice in a piece of memory.
Distinct(mem, n) ==
    \A k, l \in 1 .. n : mem[k].peer = mem[l].peer /\ mem[k].view = mem[l].view => k = l

\* What one turn of the loop makes of the memory and the number of rows.
Deleted(g, p, i) ==
    LET at == CHOOSE k \in 1 .. g.n : g.mem[k] = g.mem[i]
    IN  IF g.mem[i].peer # p THEN g
        ELSE [mem |-> SwapRemoved(g.mem, g.n, at), n |-> g.n - 1]
Loop(mem, p, f) ==
    [i \in 0 .. Len(mem) |->
        IF i = 0 THEN [mem |-> mem, n |-> Len(mem)] ELSE Deleted(f[i - 1], p, i)]

\* What turn i leaves of N rows: those behind it are untouched, and the live
\* ones are those the loop has not looked at and those of other connections.
Stays(mem, p, i, j) == j > i \/ mem[j].peer # p
Halfway(mem, p, N, g, i) ==
    /\ g = [mem |-> g.mem, n |-> g.n]
    /\ g.mem \in [1 .. N -> Row] /\ g.n \in 0 .. N
    /\ \A j \in i + 1 .. N : g.mem[j] = mem[j]
    /\ Distinct(g.mem, g.n)
    /\ \A k \in 1 .. g.n : \E j \in 1 .. N : Stays(mem, p, i, j) /\ g.mem[k] = mem[j]
    /\ \A j \in 1 .. N : Stays(mem, p, i, j) => \E k \in 1 .. g.n : g.mem[k] = mem[j]

LEMMA DespawnedLoop ==
    ASSUME NEW mem, NEW p
    PROVE  Despawned(mem, p) = LET f == CHOOSE f : f = Loop(mem, p, f)
                               IN  SubSeq(f[Len(mem)].mem, 1, f[Len(mem)].n)
  BY DEF Despawned, Loop, Deleted

\* A turn keeps Halfway.
LEMMA TurnKeeps ==
    ASSUME NEW N \in Nat, NEW mem \in [1 .. N -> Row], Distinct(mem, N), NEW p \in Peer,
           NEW i \in 1 .. N, NEW g, Halfway(mem, p, N, g, i - 1)
    PROVE  Halfway(mem, p, N, Deleted(g, p, i), i)
<1> DEFINE at == CHOOSE k \in 1 .. g.n : g.mem[k] = g.mem[i]
<1>1. /\ g.mem \in [1 .. N -> Row] /\ g.n \in 0 .. N /\ g.mem[i] = mem[i]
      /\ Distinct(g.mem, g.n)
  BY DEF Halfway
<1>2. CASE mem[i].peer # p
  <2>1. \A j \in 1 .. N : Stays(mem, p, i, j) <=> Stays(mem, p, i - 1, j)
    BY <1>2 DEF Stays
  <2>2. Deleted(g, p, i) = g
    BY <1>1, <1>2 DEF Deleted
  <2> QED
    BY <2>1, <2>2 DEF Halfway
<1>3. CASE mem[i].peer = p
  <2>1. \E k \in 1 .. g.n : g.mem[k] = g.mem[i]
    BY <1>1 DEF Halfway, Stays
  <2>2. at \in 1 .. g.n /\ g.mem[at] = mem[i]
    BY <1>1, <2>1
  <2>3. Deleted(g, p, i) = [mem |-> SwapRemoved(g.mem, g.n, at), n |-> g.n - 1]
    BY <1>1, <1>3 DEF Deleted
  <2> HIDE DEF at
  <2>4. at <= i
    <3>1. CASE g.n < i
      BY <1>1, <2>2, <3>1
    <3>2. CASE g.n >= i
      <4>1. i \in 1 .. g.n
        BY <1>1, <3>2
      <4> QED
        BY <1>1, <2>2, <4>1 DEF Distinct
    <3> QED
      BY <1>1, <3>1, <3>2
  <2> DEFINE new == SwapRemoved(g.mem, g.n, at)
             last == g.n - 1
  <2>5. /\ new \in [1 .. N -> Row] /\ new[at] = g.mem[g.n] /\ g.n \in 1 .. N /\ at \in 1 .. N
        /\ \A k \in 1 .. N : k # at => new[k] = g.mem[k]
    BY <1>1, <2>2 DEF SwapRemoved
  <2>6. Deleted(g, p, i) = [mem |-> new, n |-> last] /\ last \in 0 .. N /\ g.n = last + 1
    BY <2>3, <2>5
  <2> HIDE DEF new, last
  <2>7. ASSUME NEW j \in i + 1 .. N PROVE new[j] = mem[j]
    <3>1. j \in (i - 1) + 1 .. N /\ j \in 1 .. N /\ j # at
      BY <2>4, <2>5
    <3>2. g.mem[j] = mem[j]
      BY <3>1 DEF Halfway
    <3> QED
      BY <2>5, <3>1, <3>2
  <2>8. \A k \in 1 .. last : /\ k \in 1 .. g.n /\ k # g.n
                              /\ new[k] = IF k = at THEN g.mem[g.n] ELSE g.mem[k]
    BY <2>5, <2>6
  <2>9. Distinct(new, last)
    <3> DEFINE was(k) == IF k = at THEN g.n ELSE k
    <3>1. \A k \in 1 .. last : was(k) \in 1 .. g.n /\ new[k] = g.mem[was(k)]
      BY <2>5, <2>8
    <3>2. \A k, l \in 1 .. last : was(k) = was(l) => k = l
      BY <2>8
    <3> HIDE DEF was
    <3>3. ASSUME NEW k \in 1 .. last, NEW l \in 1 .. last,
                 new[k].peer = new[l].peer, new[k].view = new[l].view
          PROVE  k = l
      <4>1. /\ was(k) \in 1 .. g.n /\ was(l) \in 1 .. g.n
            /\ g.mem[was(k)].peer = g.mem[was(l)].peer
            /\ g.mem[was(k)].view = g.mem[was(l)].view
        BY <3>1, <3>3
      <4>2. was(k) = was(l)
        BY <1>1, <4>1 DEF Distinct
      <4> QED
        BY <3>2, <4>2
    <3> QED
      BY <3>3 DEF Distinct
  <2>10. \A k, l \in 1 .. g.n : g.mem[k] = g.mem[l] => k = l
    BY <1>1 DEF Distinct
  <2>11. \A j \in 1 .. N : Stays(mem, p, i, j) <=> Stays(mem, p, i - 1, j) /\ j # i
    BY <1>3 DEF Stays
  <2>12. ASSUME NEW k \in 1 .. last
         PROVE  \E j \in 1 .. N : Stays(mem, p, i, j) /\ new[k] = mem[j]
    <3>1. PICK l \in 1 .. g.n : new[k] = g.mem[l] /\ l # at
      BY <2>5, <2>8
    <3>2. PICK j \in 1 .. N : Stays(mem, p, i - 1, j) /\ g.mem[l] = mem[j]
      BY DEF Halfway
    <3>3. j # i
      BY <2>2, <2>10, <3>1, <3>2
    <3> QED
      BY <2>11, <3>1, <3>2, <3>3
  <2>13. ASSUME NEW j \in 1 .. N, Stays(mem, p, i, j)
         PROVE  \E k \in 1 .. last : new[k] = mem[j]
    <3>1. PICK l \in 1 .. g.n : g.mem[l] = mem[j]
      BY <2>11, <2>13 DEF Halfway
    <3>2. j # i /\ l # at
      BY <2>2, <2>11, <2>13, <3>1 DEF Distinct
    <3>3. CASE l = g.n
      <4>1. at \in 1 .. last
        BY <2>2, <2>5, <2>6, <3>2, <3>3
      <4> QED
        BY <2>5, <3>1, <3>3, <4>1
    <3>4. CASE l # g.n
      <4>1. l \in 1 .. last /\ l \in 1 .. N
        BY <2>5, <2>6, <3>4
      <4> QED
        BY <2>5, <3>1, <3>2, <4>1
    <3> QED
      BY <3>3, <3>4
  <2> QED
    BY <2>5, <2>6, <2>7, <2>9, <2>12, <2>13 DEF Halfway
<1> QED
  BY <1>2, <1>3

\* The loop deletes the rows of the connection and no others, although it
\* runs over the rows it moves and past the end of those that are left.
LEMMA DespawnedRows ==
    ASSUME NEW mem \in Seq(Row), Distinct(mem, Len(mem)), NEW p \in Peer
    PROVE  /\ Despawned(mem, p) \in Seq(Row)
           /\ Distinct(Despawned(mem, p), Len(Despawned(mem, p)))
           /\ ToSet(Despawned(mem, p)) = {r \in ToSet(mem) : r.peer # p}
<1>0. PICK N \in Nat : N = Len(mem) /\ mem \in [1 .. N -> Row]
  OBVIOUS
<1> DEFINE S == [mem : [1 .. N -> Row], n : 0 .. N]
           base == [mem |-> mem, n |-> N]
           step == [i \in 1 .. N |-> [s \in S |-> IF Deleted(s, p, i) \in S THEN Deleted(s, p, i) ELSE base]]
           f == CHOOSE f : f = Loop(mem, p, f)
<1>1. base \in S /\ Halfway(mem, p, N, base, 0)
  <2>1. base \in S
    BY <1>0
  <2>2. \A j \in 1 .. N : Stays(mem, p, 0, j)
    BY DEF Stays
  <2> QED
    BY <1>0, <2>1, <2>2 DEF Halfway
<1>2. PICK h : Recursion(h, N, S, base, step)
  <2>1. step \in [1 .. N -> [S -> S]]
    BY <1>1
  <2>2. base \in S
    BY <1>1
  <2> HIDE DEF step, S, base
  <2> QED
    BY <2>1, <2>2, RecursionSolved
<1>3. ASSUME NEW i \in 1 .. N, Halfway(mem, p, N, h[i - 1], i - 1)
      PROVE  h[i] = Deleted(h[i - 1], p, i) /\ Halfway(mem, p, N, h[i], i)
  <2> DEFINE d == Deleted(h[i - 1], p, i)
  <2>1. Halfway(mem, p, N, d, i)
    BY <1>0, <1>3, TurnKeeps
  <2>2. d \in S
    <3> HIDE DEF d
    <3>1. d = [mem |-> d.mem, n |-> d.n] /\ d.mem \in [1 .. N -> Row] /\ d.n \in 0 .. N
      BY <2>1 DEF Halfway
    <3> QED
      BY <3>1
  <2>3. h[i - 1] \in S /\ h[i] = step[i][h[i - 1]]
    <3> HIDE DEF S, step
    <3>1. i - 1 \in 0 .. N
      OBVIOUS
    <3> QED
      BY <1>2, <3>1 DEF Recursion
  <2> QED
    BY <2>1, <2>2, <2>3
<1>4. \A i \in 0 .. N : Halfway(mem, p, N, h[i], i)
  <2> DEFINE G == {i \in 0 .. N : Halfway(mem, p, N, h[i], i)}
  <2>1. 0 \in G /\ \A i \in 1 .. N : i - 1 \in G => i \in G
    BY <1>1, <1>2, <1>3 DEF Recursion
  <2> HIDE DEF G
  <2>2. G \in SUBSET (0 .. N)
    BY DEF G
  <2>3. G = 0 .. N
    BY <2>1, <2>2, UpTo
  <2> QED
    BY <2>3 DEF G
<1>5. h = Loop(mem, p, h)
  <2>1. \A i \in 0 .. N : h[i] = IF i = 0 THEN base ELSE Deleted(h[i - 1], p, i)
    <3>1. h[0] = base
      BY <1>2 DEF Recursion
    <3>2. ASSUME NEW i \in 1 .. N PROVE h[i] = Deleted(h[i - 1], p, i)
      <4>1. i - 1 \in 0 .. N
        OBVIOUS
      <4> QED
        BY <1>3, <1>4, <4>1
    <3>3. \A i \in 0 .. N : i = 0 \/ i \in 1 .. N
      OBVIOUS
    <3> HIDE DEF base
    <3> QED
      BY <3>1, <3>2, <3>3
  <2>2. h = [i \in 0 .. N |-> h[i]]
    <3> HIDE DEF S, base, step
    <3> QED
      BY <1>2 DEF Recursion
  <2> QED
    BY <1>0, <2>1, <2>2 DEF Loop
<1>6. f = Loop(mem, p, f)
  BY <1>5
<1>7. Despawned(mem, p) = SubSeq(f[N].mem, 1, f[N].n)
  BY <1>0, DespawnedLoop
<1> HIDE DEF f
<1>8. \A i \in 0 .. N : f[i] = IF i = 0 THEN base ELSE Deleted(f[i - 1], p, i)
  BY <1>0, <1>6 DEF Loop
<1>9. Halfway(mem, p, N, f[N], N)
  <2> DEFINE G == {i \in 0 .. N : Halfway(mem, p, N, f[i], i)}
  <2>1. ASSUME NEW i \in 1 .. N, Halfway(mem, p, N, f[i - 1], i - 1)
        PROVE  Halfway(mem, p, N, f[i], i)
    BY <1>0, <1>8, <2>1, TurnKeeps
  <2>2. 0 \in G /\ \A i \in 1 .. N : i - 1 \in G => i \in G
    BY <1>1, <1>8, <2>1
  <2> HIDE DEF G
  <2>3. G \in SUBSET (0 .. N)
    BY DEF G
  <2>4. G = 0 .. N
    BY <2>2, <2>3, UpTo
  <2>5. N \in G
    BY <2>4
  <2> QED
    BY <2>5 DEF G
<1> HIDE DEF S, base, step
<1> DEFINE g == f[N]
           d == [k \in 1 .. g.n |-> g.mem[k]]
<1>10. d = Despawned(mem, p) /\ d \in [1 .. g.n -> Row] /\ g.n \in 0 .. N /\ Distinct(d, g.n)
  <2>1. g.mem \in [1 .. N -> Row] /\ g.n \in 0 .. N /\ Distinct(g.mem, g.n)
    BY <1>9 DEF Halfway
  <2> HIDE DEF g
  <2>2. d \in [1 .. g.n -> Row]
    BY <2>1
  <2>3. d = SubSeq(g.mem, 1, g.n)
    BY <2>1
  <2> QED
    BY <1>7, <2>1, <2>2, <2>3 DEF g, Distinct
<1>11. d \in Seq(Row) /\ Len(d) = g.n /\ DOMAIN d = 1 .. g.n
  <2> HIDE DEF g, d
  <2> QED
    BY <1>10
<1>12. ToSet(d) = {r \in ToSet(mem) : r.peer # p}
  <2>1. \A j \in 1 .. N : Stays(mem, p, N, j) <=> mem[j].peer # p
    BY DEF Stays
  <2>2. /\ \A k \in 1 .. g.n : \E j \in 1 .. N : mem[j].peer # p /\ d[k] = mem[j]
        /\ \A j \in 1 .. N : mem[j].peer # p => \E k \in 1 .. g.n : d[k] = mem[j]
    BY <1>9, <2>1 DEF Halfway
  <2>3. ToSet(mem) = {mem[j] : j \in 1 .. N}
    BY <1>0 DEF ToSet
  <2>4. ToSet(d) = {d[k] : k \in 1 .. g.n}
    BY <1>11 DEF ToSet
  <2>5. \A j \in 1 .. N : mem[j].peer # p <=> mem[j] \in {r \in ToSet(mem) : r.peer # p}
    BY <2>3
  <2> HIDE DEF d, g
  <2>6. ToSet(d) \subseteq {r \in ToSet(mem) : r.peer # p}
    BY <2>2, <2>3, <2>4
  <2>7. {r \in ToSet(mem) : r.peer # p} \subseteq ToSet(d)
    BY <2>2, <2>3, <2>4
  <2> QED
    BY <2>6, <2>7
<1> HIDE DEF d
<1> QED
  BY <1>10, <1>11, <1>12

----------------------------------------------------------------------------
(* The rows of the tables                                                  *)

SameKey(r, q) == r.peer = q.peer /\ r.view = q.view

\* R are the rows of the tables: no two of them are of the same view.
RowsOk(R) ==
    /\ R \in [Table -> Seq(Row)]
    /\ \A t \in Table : Distinct(R[t], Len(R[t]))
    /\ \A s, t \in Table : s # t =>
          \A r \in ToSet(R[s]), q \in ToSet(R[t]) : ~SameKey(r, q)

PlayersIn(R) == UNION {ToSet(R[t]) : t \in Table}

\* The rows of a table, as a set.
LEMMA RowSet ==
    ASSUME NEW mem \in Seq(Row)
    PROVE  /\ ToSet(mem) = {mem[i] : i \in 1 .. Len(mem)}
           /\ ToSet(mem) \subseteq Row
  BY DEF ToSet

LEMMA RowsAreEntities == RowsOk(rows) => OneEntityPerView
<1> SUFFICES ASSUME RowsOk(rows), NEW s \in Table, NEW t \in Table,
                    NEW i \in DOMAIN rows[s], NEW j \in DOMAIN rows[t],
                    SameKey(rows[s][i], rows[t][j])
             PROVE  s = t /\ i = j
  BY DEF OneEntityPerView, SameKey
<1>1. rows[s] \in Seq(Row) /\ rows[t] \in Seq(Row)
  BY DEF RowsOk
<1>2. i \in 1 .. Len(rows[s]) /\ j \in 1 .. Len(rows[t])
  BY <1>1
<1>3. rows[s][i] \in ToSet(rows[s]) /\ rows[t][j] \in ToSet(rows[t])
  BY DEF ToSet
<1>4. s = t
  BY <1>3 DEF RowsOk
<1> QED
  BY <1>2, <1>4 DEF RowsOk, Distinct, SameKey

\* A new player, whose view has none yet.
LEMMA JoinRows ==
    ASSUME NEW R, NEW Q, RowsOk(R), NEW r \in Row, \A q \in PlayersIn(R) : ~SameKey(r, q),
           Q = [R EXCEPT ![Joining] = Append(@, r)]
    PROVE  RowsOk(Q) /\ PlayersIn(Q) = PlayersIn(R) \cup {r}
<1> DEFINE mem == R[Joining]
           new == Append(mem, r)
<1>1. Joining \in Table /\ mem \in Seq(Row) /\ Q[Joining] = new
      /\ \A t \in Table : t # Joining => Q[t] = R[t]
  BY SessionAssumption DEF RowsOk
<1>2. PICK n \in Nat : n = Len(mem)
  BY <1>1
<1>3. /\ new \in Seq(Row) /\ Len(new) = n + 1 /\ new[n + 1] = r
      /\ \A i \in 1 .. n : new[i] = mem[i]
  BY <1>1, <1>2
<1>4. ToSet(new) = ToSet(mem) \cup {r}
  <2> HIDE DEF new
  <2>1. \A i \in 1 .. n + 1 : i \in 1 .. n \/ i = n + 1
    OBVIOUS
  <2>2. ToSet(new) = {new[i] : i \in 1 .. n + 1} /\ ToSet(mem) = {mem[i] : i \in 1 .. n}
    BY <1>1, <1>2, <1>3, RowSet
  <2>3. \A i \in 1 .. n : i \in 1 .. n + 1
    OBVIOUS
  <2>4. n + 1 \in 1 .. n + 1
    OBVIOUS
  <2> QED
    BY <1>3, <2>1, <2>2, <2>3, <2>4
<1>5. \A t \in Table : \A q \in ToSet(R[t]) : q \in PlayersIn(R)
  BY DEF PlayersIn
<1>6. Distinct(new, n + 1)
  <2> HIDE DEF new
  <2>1. Distinct(mem, n)
    BY <1>1, <1>2 DEF RowsOk
  <2>2. \A i \in 1 .. n : mem[i] \in ToSet(mem)
    BY <1>1, <1>2, RowSet
  <2>3. \A i \in 1 .. n : new[i] = mem[i] /\ ~SameKey(r, mem[i])
    BY <1>1, <1>3, <1>5, <2>2
  <2>4. ASSUME NEW i \in 1 .. n + 1, NEW j \in 1 .. n + 1, SameKey(new[i], new[j])
        PROVE  i = j
    <3>1. (i \in 1 .. n \/ i = n + 1) /\ (j \in 1 .. n \/ j = n + 1)
      OBVIOUS
    <3>2. CASE i \in 1 .. n /\ j \in 1 .. n
      BY <2>1, <2>3, <2>4, <3>2 DEF Distinct, SameKey
    <3>3. CASE i = n + 1 \/ j = n + 1
      BY <1>3, <2>3, <2>4, <3>1, <3>3 DEF SameKey
    <3> QED
      BY <3>1, <3>2, <3>3
  <2> QED
    BY <2>4 DEF Distinct, SameKey
<1> HIDE DEF new, mem
<1>7. Q \in [Table -> Seq(Row)]
  BY <1>1, <1>3 DEF RowsOk, mem, new
<1>8. \A t \in Table : Distinct(Q[t], Len(Q[t]))
  BY <1>1, <1>3, <1>6 DEF RowsOk
<1>9. \A t \in Table : \A x : x \in ToSet(Q[t]) <=> x \in ToSet(R[t]) \/ (t = Joining /\ x = r)
  <2> SUFFICES ASSUME NEW t \in Table, NEW x
               PROVE  x \in ToSet(Q[t]) <=> x \in ToSet(R[t]) \/ (t = Joining /\ x = r)
    OBVIOUS
  <2>1. CASE t = Joining
    BY <1>1, <1>4, <2>1 DEF mem
  <2>2. CASE t # Joining
    BY <1>1, <2>2
  <2> QED
    BY <2>1, <2>2
<1>10. ASSUME NEW s \in Table, NEW t \in Table, s # t, NEW a \in ToSet(Q[s]), NEW b \in ToSet(Q[t])
       PROVE  ~SameKey(a, b)
  <2>1. CASE s # Joining /\ t # Joining
    BY <1>9, <1>10, <2>1 DEF RowsOk
  <2>2. CASE s = Joining
    BY <1>5, <1>9, <1>10, <2>2 DEF RowsOk, SameKey
  <2>3. CASE t = Joining
    BY <1>5, <1>9, <1>10, <2>3 DEF RowsOk, SameKey
  <2> QED
    BY <2>1, <2>2, <2>3
<1>11. PlayersIn(Q) = PlayersIn(R) \cup {r}
  <2>1. \A x : x \in PlayersIn(R) <=> \E t \in Table : x \in ToSet(R[t])
    BY DEF PlayersIn
  <2>2. \A x : x \in PlayersIn(Q) <=> \E t \in Table : x \in ToSet(Q[t])
    BY DEF PlayersIn
  <2>3. \A x : (\E t \in Table : x \in ToSet(Q[t])) <=> (\E t \in Table : x \in ToSet(R[t])) \/ x = r
    BY <1>1, <1>9
  <2>4. \A x : x \in PlayersIn(Q) <=> x \in PlayersIn(R) \/ x = r
    BY <2>1, <2>2, <2>3
  <2> QED
    BY <2>4
<1> QED
  BY <1>7, <1>8, <1>10, <1>11 DEF RowsOk

AllActivated(P, p, v) == {Activated(r, p, v) : r \in P}

\* A player stays where it is when another viewer is streamed.
LEMMA ActivateRows ==
    ASSUME NEW R, NEW Q, RowsOk(R), NEW p, NEW v,
           Q = [t \in Table |-> [i \in DOMAIN R[t] |-> Activated(R[t][i], p, v)]]
    PROVE  RowsOk(Q) /\ PlayersIn(Q) = AllActivated(PlayersIn(R), p, v)
<1>1. \A r \in Row : Activated(r, p, v) \in Row /\ SameKey(Activated(r, p, v), r)
  BY DEF Activated, Row, SameKey
<1>2. ASSUME NEW t \in Table
      PROVE  /\ Q[t] \in Seq(Row) /\ Len(Q[t]) = Len(R[t]) /\ Len(R[t]) \in Nat
             /\ \A i \in 1 .. Len(R[t]) : Q[t][i] = Activated(R[t][i], p, v) /\ R[t][i] \in Row
             /\ ToSet(Q[t]) = {Activated(r, p, v) : r \in ToSet(R[t])}
             /\ ToSet(R[t]) \subseteq Row
  <2>1. R[t] \in Seq(Row) /\ DOMAIN R[t] = 1 .. Len(R[t]) /\ Len(R[t]) \in Nat
    BY DEF RowsOk
  <2>2. Q[t] = [i \in 1 .. Len(R[t]) |-> Activated(R[t][i], p, v)]
    BY <2>1
  <2>3. \A i \in 1 .. Len(R[t]) : R[t][i] \in Row /\ Activated(R[t][i], p, v) \in Row
    BY <1>1, <2>1
  <2>4. Q[t] \in Seq(Row) /\ Len(Q[t]) = Len(R[t])
    BY <2>1, <2>2, <2>3
  <2>5. /\ ToSet(Q[t]) = {Q[t][i] : i \in 1 .. Len(R[t])}
        /\ ToSet(R[t]) = {R[t][i] : i \in 1 .. Len(R[t])}
    BY <2>1, <2>4, RowSet
  <2>6. \A i \in 1 .. Len(R[t]) : Q[t][i] = Activated(R[t][i], p, v)
    BY <2>2
  <2>7. ToSet(Q[t]) = {Activated(r, p, v) : r \in ToSet(R[t])}
    BY <2>5, <2>6
  <2> QED
    BY <2>1, <2>3, <2>4, <2>6, <2>7, RowSet
<1>3. Q \in [Table -> Seq(Row)]
  <2>1. Q = [t \in Table |-> Q[t]]
    OBVIOUS
  <2> QED
    BY <1>2, <2>1
<1>4. ASSUME NEW t \in Table PROVE Distinct(Q[t], Len(Q[t]))
  <2>1. PICK n \in Nat : n = Len(R[t]) /\ n = Len(Q[t])
    BY <1>2
  <2>2. \A k \in 1 .. n : SameKey(Q[t][k], R[t][k])
    BY <1>1, <1>2, <2>1
  <2>3. Distinct(R[t], n)
    BY <2>1 DEF RowsOk
  <2> QED
    BY <2>1, <2>2, <2>3 DEF Distinct, SameKey
<1>5. ASSUME NEW s \in Table, NEW t \in Table, s # t, NEW a \in ToSet(Q[s]), NEW b \in ToSet(Q[t])
      PROVE  ~SameKey(a, b)
  <2>1. PICK r \in ToSet(R[s]), q \in ToSet(R[t]) : a = Activated(r, p, v) /\ b = Activated(q, p, v)
    BY <1>2
  <2>2. r \in Row /\ q \in Row /\ ~SameKey(r, q)
    BY <1>2, <1>5 DEF RowsOk
  <2> QED
    BY <1>1, <2>1, <2>2 DEF SameKey
<1>6. PlayersIn(Q) = AllActivated(PlayersIn(R), p, v)
  BY <1>2 DEF PlayersIn, AllActivated
<1> QED
  BY <1>3, <1>4, <1>5, <1>6 DEF RowsOk

\* The players of a connection are deleted, in every table.
LEMMA DespawnRows ==
    ASSUME NEW R, NEW Q, RowsOk(R), NEW p \in Peer, Q = [t \in Table |-> Despawned(R[t], p)]
    PROVE  RowsOk(Q) /\ PlayersIn(Q) = {r \in PlayersIn(R) : r.peer # p}
<1>1. ASSUME NEW t \in Table
      PROVE  /\ Q[t] \in Seq(Row) /\ Distinct(Q[t], Len(Q[t]))
             /\ ToSet(Q[t]) = {r \in ToSet(R[t]) : r.peer # p}
  BY DespawnedRows DEF RowsOk
<1>2. Q \in [Table -> Seq(Row)]
  <2>1. Q = [t \in Table |-> Q[t]]
    OBVIOUS
  <2> QED
    BY <1>1, <2>1
<1>3. PlayersIn(Q) = {r \in PlayersIn(R) : r.peer # p}
  BY <1>1 DEF PlayersIn
<1> QED
  BY <1>1, <1>2, <1>3 DEF RowsOk

\* A player changes tables: its row is taken by the last one of the table.
LEMMA MigrateRows ==
    ASSUME NEW R, NEW Q, RowsOk(R), NEW s \in Table, NEW t \in Table, NEW i \in DOMAIN R[s], s # t,
           Q = [R EXCEPT ![s] = Front(SwapRemoved(@, Len(@), i)), ![t] = Append(@, R[s][i])]
    PROVE  RowsOk(Q) /\ PlayersIn(Q) = PlayersIn(R)
<1> DEFINE mem == R[s]
           left == Front(SwapRemoved(mem, Len(mem), i))
           came == Append(R[t], mem[i])
<1>0. mem \in Seq(Row)
  BY DEF RowsOk
<1>1. PICK n \in Nat : n = Len(mem) /\ mem \in Seq(Row) /\ i \in 1 .. n
  <2> HIDE DEF left, came
  <2> QED
    BY <1>0
<1>2. PICK m \in Nat : m = Len(R[t]) /\ R[t] \in Seq(Row)
  BY DEF RowsOk
<1>3. /\ s # t /\ Q = [R EXCEPT ![s] = left, ![t] = came]
      /\ \A u \in Table \ {s, t} : Q[u] = R[u]
      /\ Q[s] = left /\ Q[t] = came
  BY DEF RowsOk
<1>4. /\ left \in Seq(Row) /\ Len(left) = n - 1
      /\ \A k \in 1 .. n - 1 : left[k] = IF k = i THEN mem[n] ELSE mem[k]
  <2> DEFINE swapped == SwapRemoved(mem, n, i)
  <2>1. swapped \in [1 .. n -> Row] /\ \A k \in 1 .. n : swapped[k] = IF k = i THEN mem[n] ELSE mem[k]
    BY <1>1 DEF SwapRemoved
  <2> HIDE DEF swapped
  <2>2. swapped \in Seq(Row) /\ Len(swapped) = n
    BY <2>1
  <2>3. Front(swapped) = SubSeq(swapped, 1, n - 1)
    BY <2>2 DEF Front
  <2> DEFINE cut == [k \in 1 .. n - 1 |-> swapped[k]]
  <2>4. left = Front(swapped)
    BY <1>1 DEF swapped
  <2> HIDE DEF left
  <2>5. n - 1 \in Nat /\ \A k \in 1 .. n - 1 : k \in 1 .. n
    BY <1>1
  <2>6. cut = SubSeq(swapped, 1, n - 1)
    OBVIOUS
  <2>7. cut \in [1 .. n - 1 -> Row] /\ \A k \in 1 .. n - 1 : cut[k] = swapped[k]
    BY <2>1, <2>5
  <2> HIDE DEF cut
  <2>8. left = cut
    BY <2>3, <2>4, <2>6
  <2>9. cut \in Seq(Row) /\ Len(cut) = n - 1
    BY <2>5, <2>7
  <2> QED
    BY <2>1, <2>5, <2>7, <2>8, <2>9
<1>5. /\ came \in Seq(Row) /\ Len(came) = m + 1 /\ came[m + 1] = mem[i]
      /\ \A k \in 1 .. m : came[k] = R[t][k]
  BY <1>1, <1>2
<1> HIDE DEF left, came
<1>6. ToSet(mem) = {mem[k] : k \in 1 .. n} /\ ToSet(R[t]) = {R[t][k] : k \in 1 .. m}
      /\ ToSet(left) = {left[k] : k \in 1 .. n - 1} /\ ToSet(came) = {came[k] : k \in 1 .. m + 1}
  BY <1>1, <1>2, <1>4, <1>5, RowSet
<1>7. \A k, l \in 1 .. n : SameKey(mem[k], mem[l]) => k = l
  BY <1>1 DEF RowsOk, Distinct, SameKey
<1> DEFINE was(k) == IF k = i THEN n ELSE k
<1>8. \A k \in 1 .. n - 1 : was(k) \in 1 .. n /\ was(k) # i /\ left[k] = mem[was(k)]
  BY <1>1, <1>4
<1>9. \A k \in 1 .. n : k # i => \E l \in 1 .. n - 1 : was(l) = k
  <2> SUFFICES ASSUME NEW k \in 1 .. n, k # i PROVE \E l \in 1 .. n - 1 : was(l) = k
    OBVIOUS
  <2>1. CASE k = n
    <3>1. i \in 1 .. n - 1 /\ was(i) = k
      BY <1>1, <2>1
    <3> QED
      BY <3>1
  <2>2. CASE k # n
    <3>1. k \in 1 .. n - 1 /\ was(k) = k
      BY <2>2
    <3> QED
      BY <3>1
  <2> QED
    BY <2>1, <2>2
<1>10. \A k, l \in 1 .. n - 1 : was(k) = was(l) => k = l
  BY <1>1
<1> HIDE DEF was
<1>11. Distinct(left, n - 1)
  <2>1. ASSUME NEW k \in 1 .. n - 1, NEW l \in 1 .. n - 1, SameKey(left[k], left[l])
        PROVE  k = l
    <3>1. was(k) = was(l)
      BY <1>7, <1>8, <2>1
    <3> QED
      BY <1>10, <3>1
  <2> QED
    BY <2>1 DEF Distinct, SameKey
<1>12. ToSet(left) = ToSet(mem) \ {mem[i]}
  <2>1. \A k \in 1 .. n : mem[k] = mem[i] => k = i
    BY <1>1, <1>7 DEF SameKey
  <2>2. ToSet(left) \subseteq ToSet(mem) \ {mem[i]}
    BY <1>6, <1>8, <2>1
  <2>3. ASSUME NEW r \in ToSet(mem), r # mem[i] PROVE r \in ToSet(left)
    <3>1. PICK k \in 1 .. n : r = mem[k] /\ k # i
      BY <1>6, <2>3
    <3> QED
      BY <1>6, <1>8, <1>9, <3>1
  <2> QED
    BY <2>2, <2>3
<1>13. mem[i] \in ToSet(mem) /\ ToSet(came) = ToSet(R[t]) \cup {mem[i]}
  <2>1. \A k \in 1 .. m + 1 : k \in 1 .. m \/ k = m + 1
    OBVIOUS
  <2>2. \A k \in 1 .. m : k \in 1 .. m + 1
    OBVIOUS
  <2>3. m + 1 \in 1 .. m + 1
    OBVIOUS
  <2>4. ToSet(came) \subseteq ToSet(R[t]) \cup {mem[i]}
    BY <1>5, <1>6, <2>1
  <2>5. ToSet(R[t]) \cup {mem[i]} \subseteq ToSet(came)
    BY <1>5, <1>6, <2>2, <2>3
  <2> QED
    BY <1>1, <1>6, <2>4, <2>5
<1>14. \A q \in ToSet(R[t]) : ~SameKey(mem[i], q)
  BY <1>3, <1>13 DEF RowsOk
<1>15. Distinct(came, m + 1)
  <2>1. Distinct(R[t], m)
    BY <1>2 DEF RowsOk
  <2>2. \A k \in 1 .. m : came[k] = R[t][k] /\ ~SameKey(mem[i], R[t][k])
    BY <1>5, <1>6, <1>14
  <2>3. ASSUME NEW k \in 1 .. m + 1, NEW l \in 1 .. m + 1, SameKey(came[k], came[l])
        PROVE  k = l
    <3>1. (k \in 1 .. m \/ k = m + 1) /\ (l \in 1 .. m \/ l = m + 1)
      OBVIOUS
    <3>2. CASE k \in 1 .. m /\ l \in 1 .. m
      BY <2>1, <2>2, <2>3, <3>2 DEF Distinct, SameKey
    <3>3. CASE k = m + 1 \/ l = m + 1
      BY <1>5, <2>2, <2>3, <3>1, <3>3 DEF SameKey
    <3> QED
      BY <3>1, <3>2, <3>3
  <2> QED
    BY <2>3 DEF Distinct, SameKey
<1>16. Q \in [Table -> Seq(Row)]
  BY <1>3, <1>4, <1>5 DEF RowsOk
<1>17. \A u \in Table : Distinct(Q[u], Len(Q[u]))
  BY <1>3, <1>4, <1>5, <1>11, <1>15 DEF RowsOk
<1>18. \A u \in Table : \A x : x \in ToSet(Q[u]) <=>
            (x \in ToSet(R[u]) /\ ~(u = s /\ x = mem[i])) \/ (u = t /\ x = mem[i])
  <2> SUFFICES ASSUME NEW u \in Table, NEW x
               PROVE  x \in ToSet(Q[u]) <=>
            (x \in ToSet(R[u]) /\ ~(u = s /\ x = mem[i])) \/ (u = t /\ x = mem[i])
    OBVIOUS
  <2>1. CASE u = s
    BY <1>3, <1>12, <2>1
  <2>2. CASE u = t
    BY <1>3, <1>13, <2>2
  <2>3. CASE u # s /\ u # t
    BY <1>3, <2>3
  <2> QED
    BY <2>1, <2>2, <2>3
<1>19. ASSUME NEW u \in Table, NEW w \in Table, u # w, NEW a \in ToSet(Q[u]), NEW b \in ToSet(Q[w])
       PROVE  ~SameKey(a, b)
  <2>1. \A r \in ToSet(R[s]) : r # mem[i] => ~SameKey(r, mem[i])
    BY <1>1, <1>6, <1>7
  <2>2. \A x \in Table \ {s} : \A r \in ToSet(R[x]) : ~SameKey(r, mem[i])
    BY <1>13 DEF RowsOk
  <2>3. \A x, y \in Table : x # y => \A r \in ToSet(R[x]), q \in ToSet(R[y]) : ~SameKey(r, q)
    BY DEF RowsOk
  <2>4. CASE a \in ToSet(R[u]) /\ b \in ToSet(R[w])
    BY <1>19, <2>3, <2>4
  <2>5. CASE a \notin ToSet(R[u])
    <3>1. u = t /\ a = mem[i] /\ (w = s => b \in ToSet(R[s]) /\ b # mem[i])
          /\ (w # s => b \in ToSet(R[w]))
      <4>1. u = t /\ a = mem[i] /\ w # t
        BY <1>19, <1>18, <2>5
      <4>2. w = s => b \in ToSet(R[s]) /\ b # mem[i]
        BY <1>18, <1>19
      <4>3. w # s => b \in ToSet(R[w])
        BY <1>18, <1>19, <4>1
      <4> QED
        BY <4>1, <4>2, <4>3
    <3> QED
      BY <2>1, <2>2, <3>1 DEF SameKey
  <2>6. CASE b \notin ToSet(R[w])
    <3>1. w = t /\ b = mem[i] /\ (u = s => a \in ToSet(R[s]) /\ a # mem[i])
          /\ (u # s => a \in ToSet(R[u]))
      BY <1>3, <1>18, <1>19, <2>6
    <3> QED
      BY <2>1, <2>2, <3>1
  <2> QED
    BY <2>4, <2>5, <2>6
<1>20. PlayersIn(Q) = PlayersIn(R)
  <2>1. \A u \in Table : ToSet(Q[u]) \subseteq PlayersIn(R)
    <3>1. \A u \in Table : ToSet(R[u]) \subseteq PlayersIn(R)
      BY DEF PlayersIn
    <3>2. mem[i] \in PlayersIn(R)
      BY <1>13, <3>1
    <3> QED
      BY <1>18, <3>1, <3>2
  <2>2. \A u \in Table : \A r \in ToSet(R[u]) : r \in ToSet(Q[IF r = mem[i] THEN t ELSE u])
    BY <1>3, <1>18
  <2>3. PlayersIn(Q) \subseteq PlayersIn(R)
    BY <2>1 DEF PlayersIn
  <2>4. ASSUME NEW r \in PlayersIn(R) PROVE r \in PlayersIn(Q)
    <3>1. PICK u \in Table : r \in ToSet(R[u])
      BY DEF PlayersIn
    <3>2. \E w \in Table : r \in ToSet(Q[w])
      BY <2>2, <3>1
    <3> QED
      BY <3>2 DEF PlayersIn
  <2> QED
    BY <2>3, <2>4
<1> QED
  BY <1>16, <1>17, <1>19, <1>20 DEF RowsOk

----------------------------------------------------------------------------
(* A client and what the server knows of it                                *)
(*                                                                         *)
(* own are the players of a connection, u and d the messages on the way to *)
(* the server and to the client, w the views that are welcomed and s the   *)
(* one that is shown.                                                      *)

Up == [kind : {"init", "switch", "keystate"}, view : View]
Down == [kind : {"welcome", "update"}, view : View]

\* The views are asked for in order and before anything else; k of them have
\* not been heard, the others have their player.
Asked(own, u, k) ==
    /\ k <= Len(u)
    /\ \A i \in 1 .. Len(u) : IF i <= k THEN u[i] = Init0(Views - k + i - 1)
                                        ELSE u[i].kind # "init"
    /\ \A v \in View : v < Views - k <=> \E r \in own : r.view = v

\* The client has welcomed the view by the time it has read n messages.
Greeted(w, d, n, v) == v \in w \/ \E j \in 1 .. n : d[j] = Welcome(v)

\* The last switch on its way is to the view that is shown.
LastSwitch(u, i) ==
    u[i].kind = "switch" /\ \A j \in i + 1 .. Len(u) : u[j].kind # "switch"
Follows(u, s) == \A i \in 1 .. Len(u) : LastSwitch(u, i) => u[i].view = s

\* Somebody has still something to say, or client and server agree.
Settled(own, u, d, s) ==
    \/ \E i \in 1 .. Len(u) : u[i].kind \in {"init", "switch"}
    \/ \E i \in 1 .. Len(d) : d[i].kind = "welcome"
    \/ \A r \in own : r.active <=> r.view = s

Heard(own, u, d, w, s) ==
    /\ \A r \in own : Greeted(w, d, Len(d), r.view)
    /\ \A i \in 1 .. Len(d) : d[i].kind = "update" => Greeted(w, d, i - 1, d[i].view)
    /\ Follows(u, s)
    /\ Settled(own, u, d, s)

Sound(own, l, u, d, w, s) ==
    /\ l = "free" => own = {} /\ u = <<>>
    /\ l # "client" => d = <<>>
    /\ l # "free" => \E k \in 0 .. Views : Asked(own, u, k)
    /\ l = "client" => Heard(own, u, d, w, s)

\* The inductive invariant.
SoundFor(p) == Sound(Of(p), link[p], up[p], down[p], welcomed[p], shown[p])
IInv == TypeOK /\ RowsOk(rows) /\ \A p \in Peer : SoundFor(p)

\* The client sends something that is not a request to join.
LEMMA ClientSends ==
    ASSUME NEW own, NEW u \in Seq(Up), NEW d, NEW w, NEW s, NEW s2, NEW m \in Up,
           Sound(own, "client", u, d, w, s),
           \/ m.kind = "switch" /\ m.view = s2
           \/ m.kind = "keystate" /\ s2 = s
    PROVE  Sound(own, "client", Append(u, m), d, w, s2)
<1> DEFINE new == Append(u, m)
<1>1. PICK n \in Nat : n = Len(u)
  OBVIOUS
<1>2. Len(new) = n + 1 /\ new[n + 1] = m /\ \A i \in 1 .. n : new[i] = u[i]
  BY <1>1
<1> HIDE DEF new
<1>3. \A i \in 1 .. n + 1 : i \in 1 .. n \/ i = n + 1
  OBVIOUS
<1>4. PICK k \in 0 .. Views : Asked(own, u, k)
  BY DEF Sound
<1>5. Asked(own, new, k)
  <2>1. k <= n + 1 /\ ~(n + 1 <= k)
    BY <1>1, <1>4, SessionAssumption DEF Asked
  <2> QED
    BY <1>1, <1>2, <1>3, <1>4, <2>1 DEF Asked
<1>6. Follows(new, s2)
  <2> SUFFICES ASSUME NEW i \in 1 .. n + 1, LastSwitch(new, i) PROVE new[i].view = s2
    BY <1>2 DEF Follows
  <2>1. CASE m.kind = "switch" /\ m.view = s2
    <3>1. i = n + 1
      <4>1. n + 1 \in i + 1 .. Len(new) \/ i = n + 1
        BY <1>2
      <4> QED
        BY <1>2, <2>1, <4>1 DEF LastSwitch
    <3> QED
      BY <1>2, <2>1, <3>1
  <2>2. CASE m.kind = "keystate" /\ s2 = s
    <3>1. i \in 1 .. n
      BY <1>2, <1>3, <2>2 DEF LastSwitch
    <3>2. \A j \in i + 1 .. n : j \in i + 1 .. n + 1 /\ j \in 1 .. n
      BY <3>1
    <3>3. LastSwitch(u, i)
      BY <1>1, <1>2, <3>1, <3>2 DEF LastSwitch
    <3> QED
      BY <1>1, <1>2, <2>2, <3>1, <3>3 DEF Sound, Heard, Follows
  <2> QED
    BY <2>1, <2>2
<1>7. Settled(own, new, d, s2)
  <2>1. CASE m.kind = "switch"
    BY <1>2, <2>1 DEF Settled
  <2>2. CASE s2 = s
    <3>1. Settled(own, u, d, s)
      BY DEF Sound, Heard
    <3>2. \A i \in 1 .. n : i \in 1 .. Len(new) /\ new[i] = u[i]
      BY <1>2
    <3> QED
      BY <1>1, <2>2, <3>1, <3>2 DEF Settled
  <2> QED
    BY <2>1, <2>2
<1> QED
  BY <1>5, <1>6, <1>7 DEF Sound, Heard, new

\* The client reads a message.
LEMMA ClientReads ==
    ASSUME NEW own, NEW u \in Seq(Up), NEW d \in Seq(Down), NEW w, NEW s, d # <<>>,
           Sound(own, "client", u, d, w, s)
    PROVE  /\ Head(d).kind = "update" => Sound(own, "client", u, Tail(d), w, s)
           /\ Head(d).kind = "welcome" =>
                Sound(own, "client", Append(u, Switch(Head(d).view)), Tail(d),
                      w \cup {Head(d).view}, Head(d).view)
<1> DEFINE left == Tail(d)
           m == Head(d)
<1>1. PICK n \in Nat : Len(d) = n + 1
  <2>1. Len(d) \in Nat /\ Len(d) # 0
    OBVIOUS
  <2>2. Len(d) - 1 \in Nat /\ Len(d) = (Len(d) - 1) + 1
    BY <2>1
  <2> QED
    BY <2>2
<1>2. /\ Len(left) = n /\ m = d[1] /\ m \in Down
      /\ \A i \in 1 .. n : left[i] = d[i + 1] /\ d[i + 1] \in Down
  BY <1>1
<1> HIDE DEF left, m
<1>3. ASSUME NEW i \in 0 .. n, NEW v, Greeted(w, d, i + 1, v)
      PROVE  Greeted(w, left, i, v) \/ m = Welcome(v)
  <2>1. CASE v \in w
    BY <2>1 DEF Greeted
  <2>2. ASSUME NEW j \in 1 .. i + 1, d[j] = Welcome(v)
        PROVE  Greeted(w, left, i, v) \/ m = Welcome(v)
    <3>1. CASE j = 1
      BY <1>2, <2>2, <3>1
    <3>2. CASE j # 1
      <4>1. j - 1 \in 1 .. i /\ j - 1 \in 1 .. n /\ (j - 1) + 1 = j
        BY <3>2
      <4>2. left[j - 1] = d[j]
        BY <1>2, <4>1
      <4> QED
        BY <2>2, <4>1, <4>2 DEF Greeted
    <3> QED
      BY <3>1, <3>2
  <2> QED
    BY <1>3, <2>1, <2>2 DEF Greeted
<1>4. ASSUME NEW x, \A v : m = Welcome(v) => v \in x, w \subseteq x
      PROVE  /\ \A r \in own : Greeted(x, left, Len(left), r.view)
             /\ \A i \in 1 .. Len(left) :
                   left[i].kind = "update" => Greeted(x, left, i - 1, left[i].view)
  <2>1. ASSUME NEW i \in 0 .. n, NEW v, Greeted(w, d, i + 1, v) PROVE Greeted(x, left, i, v)
    BY <1>3, <1>4, <2>1 DEF Greeted
  <2>2. ASSUME NEW r \in own PROVE Greeted(x, left, Len(left), r.view)
    <3>1. Greeted(w, d, n + 1, r.view) /\ n \in 0 .. n
      BY <1>1 DEF Sound, Heard
    <3> QED
      BY <1>2, <2>1, <3>1
  <2>3. ASSUME NEW i \in 1 .. n, left[i].kind = "update" PROVE Greeted(x, left, i - 1, left[i].view)
    <3>1. left[i] = d[i + 1] /\ i + 1 \in 1 .. Len(d) /\ (i + 1) - 1 = (i - 1) + 1 /\ i - 1 \in 0 .. n
      BY <1>1, <1>2
    <3>2. Greeted(w, d, (i + 1) - 1, d[i + 1].view)
      BY <2>3, <3>1 DEF Sound, Heard
    <3>3. Greeted(w, d, (i - 1) + 1, left[i].view)
      BY <3>1, <3>2
    <3> QED
      BY <2>1, <3>1, <3>3
  <2> QED
    BY <1>2, <2>2, <2>3
<1>5. ASSUME m.kind = "update" PROVE Sound(own, "client", u, left, w, s)
  <2>1. \A v : m # Welcome(v)
    BY <1>5 DEF Welcome
  <2>2. Settled(own, u, d, s)
    BY DEF Sound, Heard
  <2>3. ASSUME NEW i \in 1 .. Len(d), d[i].kind = "welcome"
        PROVE  \E j \in 1 .. Len(left) : left[j].kind = "welcome"
    <3>1. i # 1
      BY <1>2, <1>5, <2>3
    <3>2. i - 1 \in 1 .. n /\ (i - 1) + 1 = i
      BY <1>1, <3>1
    <3>3. left[i - 1] = d[i]
      BY <1>2, <3>2
    <3> QED
      BY <1>2, <2>3, <3>2, <3>3
  <2>4. Settled(own, u, left, s)
    BY <2>2, <2>3 DEF Settled
  <2> QED
    BY <1>4, <2>1, <2>4 DEF Sound, Heard
<1>6. ASSUME m.kind = "welcome"
      PROVE  Sound(own, "client", Append(u, Switch(m.view)), left, w \cup {m.view}, m.view)
  <2>1. \A v : m = Welcome(v) => v \in w \cup {m.view}
    BY DEF Welcome
  <2>2. Switch(m.view) \in Up /\ Switch(m.view).kind = "switch" /\ Switch(m.view).view = m.view
    BY <1>2 DEF Switch, Up, Down
  <2>3. Sound(own, "client", Append(u, Switch(m.view)), d, w, m.view)
    BY <2>2, ClientSends
  <2>4. \E i \in 1 .. Len(Append(u, Switch(m.view))) :
          Append(u, Switch(m.view))[i].kind \in {"init", "switch"}
    <3>1. Len(u) + 1 \in 1 .. Len(u) + 1
      OBVIOUS
    <3>2. Append(u, Switch(m.view))[Len(u) + 1] = Switch(m.view) /\ Len(Append(u, Switch(m.view))) = Len(u) + 1
      OBVIOUS
    <3> QED
      BY <2>2, <3>1, <3>2
  <2>5. Settled(own, Append(u, Switch(m.view)), left, m.view)
    BY <2>4 DEF Settled
  <2> QED
    BY <1>4, <2>1, <2>3, <2>5 DEF Sound, Heard
<1> QED
  BY <1>5, <1>6 DEF m, left

\* The server takes the first message off; what is left of the others.
LEMMA Heard1 ==
    ASSUME NEW u \in Seq(Up), u # <<>>
    PROVE  /\ Len(Tail(u)) \in Nat /\ Len(u) = Len(Tail(u)) + 1
           /\ Head(u) = u[1] /\ Head(u) \in Up
           /\ \A i \in 1 .. Len(Tail(u)) : Tail(u)[i] = u[i + 1]
  OBVIOUS

LEMMA FollowsOn ==
    ASSUME NEW u \in Seq(Up), u # <<>>, NEW s, Follows(u, s)
    PROVE  Follows(Tail(u), s)
<1> SUFFICES ASSUME NEW i \in 1 .. Len(Tail(u)), LastSwitch(Tail(u), i) PROVE Tail(u)[i].view = s
  BY DEF Follows
<1>1. PICK n \in Nat : n = Len(Tail(u)) /\ Len(u) = n + 1
  BY Heard1
<1>2. i + 1 \in 1 .. Len(u) /\ Tail(u)[i] = u[i + 1]
  BY <1>1, Heard1
<1>3. ASSUME NEW j \in (i + 1) + 1 .. Len(u) PROVE u[j].kind # "switch"
  <2>1. j - 1 \in i + 1 .. n /\ j - 1 \in 1 .. n /\ (j - 1) + 1 = j
    BY <1>1
  <2>2. Tail(u)[j - 1] = u[j]
    BY <1>1, <2>1, Heard1
  <2> QED
    BY <1>1, <2>1, <2>2 DEF LastSwitch
<1>4. LastSwitch(u, i + 1)
  BY <1>2, <1>3 DEF LastSwitch
<1> QED
  BY <1>2, <1>4 DEF Follows

\* What is Asked when a message that is no request is heard.
LEMMA AskedOn ==
    ASSUME NEW own, NEW own2, NEW u \in Seq(Up), u # <<>>, NEW k \in 0 .. Views, Asked(own, u, k),
           Head(u).kind # "init",
           \A v \in View : (\E r \in own2 : r.view = v) <=> (\E r \in own : r.view = v)
    PROVE  k = 0 /\ Asked(own2, Tail(u), 0)
<1>1. PICK n \in Nat : n = Len(Tail(u)) /\ Len(u) = n + 1
  BY Heard1
<1>2. k = 0
  <2>1. 1 \in 1 .. Len(u) /\ u[1].kind # "init"
    BY <1>1, Heard1
  <2>2. 1 <= k => u[1] = Init0(Views - k + 1 - 1)
    BY <2>1 DEF Asked
  <2> QED
    BY <2>1, <2>2 DEF Init0
<1>3. ASSUME NEW i \in 1 .. n PROVE Tail(u)[i].kind # "init" /\ ~(i <= 0)
  <2>1. i + 1 \in 1 .. Len(u) /\ ~(i + 1 <= k)
    BY <1>1, <1>2
  <2> QED
    BY <1>1, <2>1, Heard1 DEF Asked
<1> QED
  BY <1>1, <1>2, <1>3 DEF Asked

\* What is sent to a client.
Sent(l, d, m) == IF l = "client" THEN Append(d, m) ELSE d

\* A message to the client is added behind those it is to be read after.
LEMMA SendsOn ==
    ASSUME NEW d \in Seq(Down), NEW w, NEW m \in Down
    PROVE  /\ Len(Append(d, m)) = Len(d) + 1 /\ Append(d, m)[Len(d) + 1] = m
           /\ \A i \in 1 .. Len(d) : Append(d, m)[i] = d[i]
           /\ \A v : \A n \in 0 .. Len(d) : Greeted(w, d, n, v) => Greeted(w, Append(d, m), n, v)
           /\ \A v : Greeted(w, d, Len(d), v) => Greeted(w, Append(d, m), Len(d) + 1, v)
<1>1. /\ Len(Append(d, m)) = Len(d) + 1 /\ Append(d, m)[Len(d) + 1] = m /\ Len(d) \in Nat
      /\ \A i \in 1 .. Len(d) : Append(d, m)[i] = d[i]
  OBVIOUS
<1>2. \A v : \A n \in 0 .. Len(d) : Greeted(w, d, n, v) => Greeted(w, Append(d, m), n, v)
  <2> SUFFICES ASSUME NEW v, NEW n \in 0 .. Len(d), Greeted(w, d, n, v) PROVE Greeted(w, Append(d, m), n, v)
    OBVIOUS
  <2>1. \A j \in 1 .. n : j \in 1 .. Len(d)
    BY <1>1
  <2> QED
    BY <1>1, <2>1 DEF Greeted
<1>3. \A v : Greeted(w, Append(d, m), Len(d), v) => Greeted(w, Append(d, m), Len(d) + 1, v)
  <2>1. \A j \in 1 .. Len(d) : j \in 1 .. Len(d) + 1
    BY <1>1
  <2> QED
    BY <2>1 DEF Greeted
<1>4. Len(d) \in 0 .. Len(d)
  BY <1>1
<1> QED
  BY <1>1, <1>2, <1>3, <1>4

\* pkt_00_init_handler: the view has no player yet, and gets one.
LEMMA HearsInit ==
    ASSUME NEW own, NEW l, NEW u \in Seq(Up), NEW d \in Seq(Down), NEW w, NEW s,
           Sound(own, l, u, d, w, s), u # <<>>, Head(u).kind = "init",
           NEW r, r.view = Head(u).view
    PROVE  /\ \A q \in own : q.view \in View => q.view # r.view
           /\ Sound(own \cup {r}, l, Tail(u), Sent(l, d, Welcome(r.view)), w, s)
<1>1. PICK n \in Nat : n = Len(Tail(u)) /\ Len(u) = n + 1
  BY Heard1
<1>2. PICK k \in 0 .. Views : Asked(own, u, k)
  BY DEF Sound
<1>3. k \in 1 .. Views /\ r.view = Views - k /\ r.view \in View
  <2>1. 1 \in 1 .. Len(u) /\ u[1].kind = "init" /\ u[1].view = r.view /\ u[1].view \in View
    <3>1. Head(u) \in Up /\ Head(u) = u[1]
      BY Heard1
    <3>2. Head(u).view \in View
      BY <3>1 DEF Up
    <3> QED
      BY <1>1, <3>1, <3>2
  <2>2. 1 <= k
    BY <1>2, <2>1 DEF Asked
  <2>3. u[1] = Init0(Views - k + 1 - 1)
    BY <1>2, <2>1, <2>2 DEF Asked
  <2>4. Views - k + 1 - 1 = Views - k
    BY <2>2, SessionAssumption
  <2> QED
    BY <2>1, <2>2, <2>3, <2>4, SessionAssumption DEF Init0
<1>4. \A q \in own : q.view \in View => q.view # r.view
  BY <1>2, <1>3, SessionAssumption DEF Asked, View
<1>5. Asked(own \cup {r}, Tail(u), k - 1) /\ k - 1 \in 0 .. Views
  <2>1. k - 1 <= n /\ k - 1 \in 0 .. Views
    BY <1>1, <1>2, <1>3, SessionAssumption DEF Asked
  <2>2. ASSUME NEW i \in 1 .. n
        PROVE  IF i <= k - 1 THEN Tail(u)[i] = Init0(Views - (k - 1) + i - 1)
                             ELSE Tail(u)[i].kind # "init"
    <3>1. i + 1 \in 1 .. Len(u) /\ Tail(u)[i] = u[i + 1]
      BY <1>1, Heard1
    <3>2. (i + 1 <= k <=> i <= k - 1) /\ Views - k + (i + 1) - 1 = Views - (k - 1) + i - 1
      BY <1>3, SessionAssumption
    <3>3. IF i + 1 <= k THEN u[i + 1] = Init0(Views - k + (i + 1) - 1) ELSE u[i + 1].kind # "init"
      BY <1>2, <3>1 DEF Asked
    <3> QED
      BY <3>1, <3>2, <3>3
  <2>3. ASSUME NEW v \in View
        PROVE  v < Views - (k - 1) <=> \E q \in own \cup {r} : q.view = v
    <3>1. v < Views - (k - 1) <=> v < Views - k \/ v = Views - k
      BY <1>3, SessionAssumption DEF View
    <3>2. v < Views - k <=> \E q \in own : q.view = v
      BY <1>2 DEF Asked
    <3> QED
      BY <1>3, <3>1, <3>2
  <2> QED
    BY <1>1, <2>1, <2>2, <2>3 DEF Asked
<1>6. l # "free"
  BY DEF Sound
<1>7. ASSUME l = "client"
      PROVE  Heard(own \cup {r}, Tail(u), Append(d, Welcome(r.view)), w, s)
  <2> DEFINE m == Welcome(r.view)
             new == Append(d, m)
  <2>1. m \in Down /\ m.kind = "welcome"
    BY <1>3 DEF Welcome, Down
  <2>2. /\ Len(new) = Len(d) + 1 /\ new[Len(d) + 1] = m
        /\ \A i \in 1 .. Len(d) : new[i] = d[i]
        /\ \A v : \A i \in 0 .. Len(d) : Greeted(w, d, i, v) => Greeted(w, new, i, v)
        /\ \A v : Greeted(w, d, Len(d), v) => Greeted(w, new, Len(d) + 1, v)
    <3> HIDE DEF m
    <3> QED
      BY <2>1, SendsOn
  <2> HIDE DEF new, m
  <2>3. Heard(own, u, d, w, s)
    BY <1>7 DEF Sound
  <2>4. PICK N \in Nat : N = Len(d)
    OBVIOUS
  <2>5. N + 1 \in 1 .. N + 1 /\ \A i \in 1 .. N + 1 : i = N + 1 \/ i \in 1 .. N
    OBVIOUS
  <2>6. \A q \in own \cup {r} : Greeted(w, new, Len(new), q.view)
    <3>1. Greeted(w, new, N + 1, r.view)
      BY <2>2, <2>4, <2>5 DEF Greeted, m
    <3>2. \A q \in own : Greeted(w, new, N + 1, q.view)
      BY <2>2, <2>3, <2>4 DEF Heard
    <3> QED
      BY <2>2, <2>4, <3>1, <3>2
  <2>7. ASSUME NEW i \in 1 .. N + 1, new[i].kind = "update" PROVE Greeted(w, new, i - 1, new[i].view)
    <3>1. i \in 1 .. N
      BY <2>1, <2>2, <2>4, <2>5, <2>7
    <3>2. new[i] = d[i] /\ Greeted(w, d, i - 1, d[i].view) /\ i - 1 \in 0 .. N
      BY <2>2, <2>3, <2>4, <2>7, <3>1 DEF Heard
    <3> QED
      BY <2>2, <2>4, <3>2
  <2>8. Follows(Tail(u), s)
    BY <2>3, FollowsOn DEF Heard
  <2>9. Settled(own \cup {r}, Tail(u), new, s)
    BY <2>1, <2>2, <2>4, <2>5 DEF Settled
  <2>10. Heard(own \cup {r}, Tail(u), new, w, s)
    BY <2>2, <2>4, <2>6, <2>7, <2>8, <2>9 DEF Heard
  <2> QED
    BY <2>10 DEF new, m
<1>8. l # "client" => d = <<>>
  BY DEF Sound
<1> QED
  BY <1>4, <1>5, <1>6, <1>7, <1>8 DEF Sound, Sent

OwnedBy(own, p) == \A r \in own : r \in Row /\ r.peer = p

\* pkt_switch_viewer_handler: the view has its player, and if no other switch
\* follows it is the one that is shown.
LEMMA HearsSwitch ==
    ASSUME NEW own, NEW l, NEW u \in Seq(Up), NEW d \in Seq(Down), NEW w, NEW s, NEW p, NEW v,
           Sound(own, l, u, d, w, s), u # <<>>, Head(u).kind = "switch", v = Head(u).view,
           OwnedBy(own, p)
    PROVE  /\ \E r \in own : r.view = v
           /\ Sound(AllActivated(own, p, v), l, Tail(u), d, w, s)
<1> DEFINE own2 == AllActivated(own, p, v)
<1>1. PICK n \in Nat : n = Len(Tail(u)) /\ Len(u) = n + 1
  BY Heard1
<1>2. \A r \in own : /\ Activated(r, p, v).view = r.view
                     /\ Activated(r, p, v).active <=> r.view = v
  BY DEF Activated, Row, OwnedBy
<1>3. \A x : (\E r \in own2 : r.view = x) <=> (\E r \in own : r.view = x)
  BY <1>2 DEF AllActivated
<1>4. l # "free"
  BY DEF Sound
<1>5. PICK k \in 0 .. Views : Asked(own, u, k)
  BY <1>4 DEF Sound
<1> HIDE DEF own2
<1>6. k = 0 /\ Asked(own2, Tail(u), 0)
  BY <1>3, <1>5, AskedOn
<1>7. \E r \in own : r.view = v
  <2>1. v \in View /\ v < Views - k
    <3>1. Head(u) \in Up
      BY Heard1
    <3>2. Head(u).view \in View
      BY <3>1 DEF Up
    <3> QED
      BY <1>6, <3>2, SessionAssumption DEF View
  <2> QED
    BY <1>5, <2>1 DEF Asked
<1>8. ASSUME l = "client" PROVE Heard(own2, Tail(u), d, w, s)
  <2>1. Heard(own, u, d, w, s)
    BY <1>8 DEF Sound
  <2>2. \A r \in own2 : Greeted(w, d, Len(d), r.view)
    BY <1>2, <2>1 DEF Heard, own2, AllActivated
  <2>3. Settled(own2, Tail(u), d, s)
    <3>1. CASE LastSwitch(u, 1)
      <4>1. v = s
        BY <1>1, <2>1, <3>1, Heard1 DEF Heard, Follows
      <4> QED
        BY <1>2, <4>1 DEF Settled, own2, AllActivated
    <3>2. CASE ~LastSwitch(u, 1)
      <4>1. PICK j \in 2 .. n + 1 : u[j].kind = "switch"
        BY <1>1, <3>2, Heard1 DEF LastSwitch
      <4>2. j - 1 \in 1 .. n /\ (j - 1) + 1 = j
        OBVIOUS
      <4>3. Tail(u)[j - 1] = u[j]
        BY <1>1, <4>2, Heard1
      <4> QED
        BY <1>1, <4>1, <4>2, <4>3 DEF Settled
    <3> QED
      BY <3>1, <3>2
  <2> QED
    BY <2>1, <2>2, <2>3, FollowsOn DEF Heard
<1>9. 0 \in 0 .. Views
  BY SessionAssumption
<1>10. l # "client" => d = <<>>
  BY DEF Sound
<1>11. Sound(own2, l, Tail(u), d, w, s)
  BY <1>4, <1>6, <1>8, <1>9, <1>10 DEF Sound
<1> QED
  BY <1>7, <1>11 DEF own2

\* A key state changes nothing here.
LEMMA HearsKeystate ==
    ASSUME NEW own, NEW l, NEW u \in Seq(Up), NEW d \in Seq(Down), NEW w, NEW s,
           Sound(own, l, u, d, w, s), u # <<>>, Head(u).kind = "keystate"
    PROVE  Sound(own, l, Tail(u), d, w, s)
<1>1. PICK n \in Nat : n = Len(Tail(u)) /\ Len(u) = n + 1
  BY Heard1
<1>2. l # "free"
  BY DEF Sound
<1>3. PICK k \in 0 .. Views : Asked(own, u, k)
  BY <1>2 DEF Sound
<1>4. Asked(own, Tail(u), 0)
  BY <1>3, AskedOn
<1>5. ASSUME l = "client" PROVE Heard(own, Tail(u), d, w, s)
  <2>1. Heard(own, u, d, w, s)
    BY <1>5 DEF Sound
  <2>2. ASSUME NEW i \in 1 .. n + 1, u[i].kind \in {"init", "switch"}
        PROVE  \E j \in 1 .. n : Tail(u)[j].kind \in {"init", "switch"}
    <3>1. i # 1
      BY <2>2, Heard1
    <3>2. i - 1 \in 1 .. n /\ (i - 1) + 1 = i
      BY <3>1
    <3>3. Tail(u)[i - 1] = u[i]
      BY <1>1, <3>2, Heard1
    <3> QED
      BY <2>2, <3>2, <3>3
  <2>3. Settled(own, Tail(u), d, s)
    BY <1>1, <2>1, <2>2 DEF Heard, Settled
  <2> QED
    BY <2>1, <2>3, FollowsOn DEF Heard
<1>6. 0 \in 0 .. Views
  BY SessionAssumption
<1>7. l # "client" => d = <<>>
  BY DEF Sound
<1> QED
  BY <1>2, <1>4, <1>5, <1>6, <1>7 DEF Sound

\* A viewer that is streamed has been welcomed, or will be first.
LEMMA Streams ==
    ASSUME NEW own, NEW l, NEW u, NEW d \in Seq(Down), NEW w, NEW s, NEW r \in own, r.view \in View,
           Sound(own, l, u, d, w, s)
    PROVE  Sound(own, l, u, Sent(l, d, Update(r.view)), w, s)
<1> DEFINE m == Update(r.view)
           new == Append(d, m)
<1>1. CASE l = "client"
  <2>1. m \in Down /\ m.view = r.view
    BY DEF Update, Down
  <2>2. /\ Len(new) = Len(d) + 1 /\ new[Len(d) + 1] = m
        /\ \A i \in 1 .. Len(d) : new[i] = d[i]
        /\ \A v : \A i \in 0 .. Len(d) : Greeted(w, d, i, v) => Greeted(w, new, i, v)
        /\ \A v : Greeted(w, d, Len(d), v) => Greeted(w, new, Len(d) + 1, v)
    <3> HIDE DEF m
    <3> QED
      BY <2>1, SendsOn
  <2> HIDE DEF new, m
  <2>3. Heard(own, u, d, w, s)
    BY <1>1 DEF Sound
  <2>4. PICK N \in Nat : N = Len(d)
    OBVIOUS
  <2>5. \A q \in own : Greeted(w, new, Len(new), q.view)
    BY <2>2, <2>3, <2>4 DEF Heard
  <2>6. ASSUME NEW i \in 1 .. N + 1, new[i].kind = "update" PROVE Greeted(w, new, i - 1, new[i].view)
    <3>1. CASE i = N + 1
      <4>1. new[i].view = r.view /\ i - 1 \in 0 .. Len(d) /\ i - 1 = Len(d)
        BY <2>1, <2>2, <2>4, <3>1
      <4>2. Greeted(w, d, i - 1, r.view)
        BY <2>3, <4>1 DEF Heard
      <4> QED
        BY <2>2, <4>1, <4>2
    <3>2. CASE i # N + 1
      <4>1. i \in 1 .. N /\ i - 1 \in 0 .. N
        BY <3>2
      <4>2. new[i] = d[i] /\ Greeted(w, d, i - 1, d[i].view)
        BY <2>2, <2>3, <2>4, <2>6, <4>1 DEF Heard
      <4> QED
        BY <2>2, <2>4, <4>1, <4>2
    <3> QED
      BY <3>1, <3>2
  <2>7. Settled(own, u, new, s)
    <3>1. Settled(own, u, d, s)
      BY <2>3 DEF Heard
    <3>2. \A i \in 1 .. Len(d) : i \in 1 .. Len(new) /\ new[i] = d[i]
      BY <2>2, <2>4
    <3> QED
      BY <3>1, <3>2 DEF Settled
  <2>8. Heard(own, u, new, w, s)
    BY <2>2, <2>3, <2>4, <2>5, <2>6, <2>7 DEF Heard
  <2> QED
    BY <1>1, <2>8 DEF Sound, Sent, new, m
<1>2. CASE l # "client"
  BY <1>2 DEF Sound, Sent
<1> QED
  BY <1>1, <1>2

----------------------------------------------------------------------------
(* Every step keeps the invariant                                          *)

LEMMA InitIInv == Init => IInv
<1> SUFFICES ASSUME Init PROVE IInv
  OBVIOUS
<1>1. TypeOK
  <2>1. 0 \in View
    BY SessionAssumption DEF View
  <2> QED
    BY <2>1 DEF Init, TypeOK
<1>2. \A t \in Table : rows[t] = <<>> /\ ToSet(rows[t]) = {}
  BY DEF Init, ToSet
<1>3. RowsOk(rows)
  <2>1. \A t \in Table : Distinct(rows[t], Len(rows[t]))
    BY <1>2 DEF Distinct
  <2> QED
    BY <1>1, <1>2, <2>1 DEF RowsOk, TypeOK
<1>4. Players = {}
  BY <1>2 DEF Players
<1>5. ASSUME NEW p \in Peer PROVE SoundFor(p)
  BY <1>4 DEF Init, SoundFor, Sound, Of
<1> QED
  BY <1>1, <1>3, <1>5 DEF IInv

\* What the invariant says of one connection.
LEMMA Known ==
    ASSUME IInv, NEW p \in Peer
    PROVE  /\ Sound(Of(p), link[p], up[p], down[p], welcomed[p], shown[p])
           /\ up[p] \in Seq(Up) /\ down[p] \in Seq(Down) /\ shown[p] \in View
           /\ link[p] \in {"free", "client", "gone"} /\ welcomed[p] \in SUBSET View
           /\ Players \subseteq Row /\ \A r \in Of(p) : r \in Players /\ r.peer = p
<1>1. Players \subseteq Row
  BY RowSet DEF IInv, RowsOk, Players
<1> QED
  BY <1>1 DEF IInv, TypeOK, SoundFor, Up, Down, Of

\* A step that concerns one connection.
LEMMA OneConnection ==
    ASSUME IInv, TypeOK', RowsOk(rows'), NEW p \in Peer,
           Sound(Of(p)', link'[p], up'[p], down'[p], welcomed'[p], shown'[p]),
           \A q \in Peer \ {p} :
              /\ link'[q] = link[q] /\ up'[q] = up[q] /\ down'[q] = down[q]
              /\ welcomed'[q] = welcomed[q] /\ shown'[q] = shown[q],
           \A r : r \in Players' /\ r.peer # p <=> r \in Players /\ r.peer # p
    PROVE  IInv'
<1>1. SoundFor(p)'
  BY DEF SoundFor
<1>2. ASSUME NEW q \in Peer, q # p PROVE SoundFor(q)'
  <2>1. Of(q)' = Of(q)
    BY <1>2 DEF Of
  <2>2. Sound(Of(q), link[q], up[q], down[q], welcomed[q], shown[q])
    BY DEF IInv, SoundFor
  <2>3. Sound(Of(q)', link'[q], up'[q], down'[q], welcomed'[q], shown'[q])
    BY <1>2, <2>1, <2>2
  <2> QED
    BY <2>3 DEF SoundFor
<1>3. RowsOk(rows)'
  BY DEF RowsOk
<1> QED
  BY <1>1, <1>2, <1>3 DEF IInv

\* A step that leaves the rows alone.
LEMMA SameRows ==
    ASSUME IInv, rows' = rows
    PROVE  /\ RowsOk(rows') /\ rows' \in [Table -> Seq(Row)]
           /\ Players' = Players /\ \A q : Of(q)' = Of(q)
  BY DEF IInv, RowsOk, Players, Of

LEMMA ConnectKeeps == ASSUME IInv, NEW p \in Peer, Connect(p) PROVE IInv'
<1> DEFINE asked == [i \in 1 .. Views |-> Init0(i - 1)]
<1>1. /\ up' = [up EXCEPT ![p] = asked] /\ link' = [link EXCEPT ![p] = "client"]
      /\ welcomed' = [welcomed EXCEPT ![p] = {}] /\ rows' = rows /\ down' = down /\ link[p] = "free"
  BY DEF Connect
<1>2. asked \in Seq(Up) /\ Len(asked) = Views /\ \A i \in 1 .. Views : asked[i] = Init0(i - 1)
  <2>1. \A i \in 1 .. Views : Init0(i - 1) \in Up
    BY SessionAssumption DEF Init0, Up, View
  <2>2. asked \in [1 .. Views -> Up]
    BY <2>1
  <2> QED
    BY <2>2, SessionAssumption
<1> HIDE DEF asked
<1>3. PICK v \in View : shown' = [shown EXCEPT ![p] = v]
  BY DEF Connect
<1>4. TypeOK'
  BY <1>1, <1>2, <1>3, SameRows DEF IInv, TypeOK, Up
<1>5. Of(p)' = {} /\ Of(p) = {} /\ down[p] = <<>>
  BY <1>1, Known, SameRows DEF Sound
<1>6. Asked({}, asked, Views) /\ Views \in 0 .. Views
  <2>1. \A i \in 1 .. Views : Views - Views + i - 1 = i - 1
    BY SessionAssumption
  <2> QED
    BY <1>2, <2>1, SessionAssumption DEF Asked, View
<1>7. Heard({}, asked, <<>>, {}, v)
  <2>1. \A i \in 1 .. Views : asked[i].kind # "switch"
    BY <1>2 DEF Init0
  <2> QED
    BY <1>2, <2>1 DEF Heard, Follows, LastSwitch, Settled
<1>8. Sound({}, "client", asked, <<>>, {}, v)
  BY <1>6, <1>7 DEF Sound
<1>9. up'[p] = asked /\ link'[p] = "client" /\ welcomed'[p] = {} /\ shown'[p] = v /\ down'[p] = <<>>
  BY <1>1, <1>3, <1>5 DEF IInv, TypeOK
<1>10. Sound(Of(p)', link'[p], up'[p], down'[p], welcomed'[p], shown'[p])
  BY <1>5, <1>8, <1>9
<1>11. \A q \in Peer \ {p} : /\ link'[q] = link[q] /\ up'[q] = up[q] /\ down'[q] = down[q]
                             /\ welcomed'[q] = welcomed[q] /\ shown'[q] = shown[q]
  BY <1>1, <1>3 DEF IInv, TypeOK
<1> QED
  BY <1>1, <1>4, <1>10, <1>11, SameRows, OneConnection

\* Cycling the views and pressing keys.
LEMMA SayKeeps ==
    ASSUME IInv, NEW p \in Peer, Press(p) \/ \E dir \in {-1, 1} : Cycle(p, dir)
    PROVE  IInv'
<1>1. PICK m \in Up, v \in View :
        /\ (m.kind = "switch" /\ m.view = v) \/ (m.kind = "keystate" /\ v = shown[p])
        /\ up' = [up EXCEPT ![p] = Append(@, m)]
        /\ shown' = [shown EXCEPT ![p] = v]
  <2>1. CASE Press(p)
    <3> DEFINE m == Keystate(shown[p])
    <3>1. m \in Up /\ m.kind = "keystate" /\ shown[p] \in View
      BY Known DEF Keystate, Up
    <3>2. shown' = [shown EXCEPT ![p] = shown[p]] /\ up' = [up EXCEPT ![p] = Append(@, m)]
      BY <2>1 DEF Press, IInv, TypeOK
    <3> QED
      BY <3>1, <3>2
  <2>2. ASSUME NEW dir \in {-1, 1}, Cycle(p, dir)
        PROVE  \E m \in Up, v \in View :
                  /\ (m.kind = "switch" /\ m.view = v) \/ (m.kind = "keystate" /\ v = shown[p])
                  /\ up' = [up EXCEPT ![p] = Append(@, m)]
                  /\ shown' = [shown EXCEPT ![p] = v]
    <3> DEFINE next == Cycled(shown[p], dir)
    <3>1. next \in View
      BY Known, SessionAssumption DEF Cycled, View
    <3>2. shown' = [shown EXCEPT ![p] = next] /\ up' = [up EXCEPT ![p] = Append(@, Switch(next))]
      BY <2>2 DEF Cycle
    <3> HIDE DEF next
    <3>3. Switch(next) \in Up /\ Switch(next).kind = "switch" /\ Switch(next).view = next
      BY <3>1 DEF Switch, Up
    <3>4. \E m \in Up : /\ m.kind = "switch" /\ m.view = next
                       /\ up' = [up EXCEPT ![p] = Append(@, m)]
      BY <3>2, <3>3
    <3> QED
      BY <3>1, <3>2, <3>4
  <2> QED
    BY <2>1, <2>2
<1>2. /\ rows' = rows /\ link' = link /\ down' = down /\ welcomed' = welcomed
      /\ link[p] = "client"
  BY DEF Press, Cycle
<1>3. Append(up[p], m) \in Seq(Up)
  BY Known
<1>4. TypeOK'
  BY <1>1, <1>2, <1>3, SameRows DEF IInv, TypeOK, Up
<1>5. Sound(Of(p), "client", Append(up[p], m), down[p], welcomed[p], v)
  BY <1>1, <1>2, Known, ClientSends
<1>6. up'[p] = Append(up[p], m) /\ shown'[p] = v
  BY <1>1 DEF IInv, TypeOK
<1>7. Sound(Of(p)', link'[p], up'[p], down'[p], welcomed'[p], shown'[p])
  BY <1>2, <1>5, <1>6, SameRows
<1>8. \A q \in Peer \ {p} : up'[q] = up[q] /\ shown'[q] = shown[q]
  BY <1>1 DEF IInv, TypeOK
<1> QED
  BY <1>2, <1>4, <1>7, <1>8, SameRows, OneConnection

LEMMA ReceiveKeeps == ASSUME IInv, NEW p \in Peer, ClientReceives(p) PROVE IInv'
<1> DEFINE m == Head(down[p])
<1>1. /\ link[p] = "client" /\ down[p] # <<>> /\ down' = [down EXCEPT ![p] = Tail(@)]
      /\ rows' = rows /\ link' = link
  BY DEF ClientReceives
<1>2. m \in Down /\ m.view \in View /\ Tail(down[p]) \in Seq(Down) /\ Switch(m.view) \in Up
  <2>1. m \in Down /\ Tail(down[p]) \in Seq(Down)
    BY <1>1, Known
  <2>2. m.view \in View
    BY <2>1 DEF Down
  <2> HIDE DEF m
  <2> QED
    BY <2>1, <2>2 DEF Switch, Up
<1> HIDE DEF m
<1>3. CASE m.kind = "welcome" /\ ClientHears(p, m)
  <2>1. /\ welcomed' = [welcomed EXCEPT ![p] = @ \cup {m.view}]
        /\ shown' = [shown EXCEPT ![p] = m.view]
        /\ up' = [up EXCEPT ![p] = Append(@, Switch(m.view))]
    BY <1>3 DEF ClientHears
  <2>2. Append(up[p], Switch(m.view)) \in Seq(Up)
    BY <1>2, Known
  <2>3. TypeOK'
    BY <1>1, <1>2, <2>1, <2>2, SameRows DEF IInv, TypeOK, Up, Down
  <2>4. Sound(Of(p), "client", Append(up[p], Switch(m.view)), Tail(down[p]),
              welcomed[p] \cup {m.view}, m.view)
    <3>1. /\ Sound(Of(p), "client", up[p], down[p], welcomed[p], shown[p])
          /\ up[p] \in Seq(Up) /\ down[p] \in Seq(Down) /\ down[p] # <<>>
      BY <1>1, Known
    <3>2. Head(down[p]).kind = "welcome"
      BY <1>3 DEF m
    <3> QED
      BY <3>1, <3>2, ClientReads DEF m
  <2>5. Sound(Of(p)', link'[p], up'[p], down'[p], welcomed'[p], shown'[p])
    <3>1. /\ link'[p] = "client" /\ up'[p] = Append(up[p], Switch(m.view)) /\ down'[p] = Tail(down[p])
          /\ welcomed'[p] = welcomed[p] \cup {m.view} /\ shown'[p] = m.view
      BY <1>1, <2>1 DEF IInv, TypeOK
    <3> QED
      BY <1>1, <2>4, <3>1, SameRows
  <2>6. \A q \in Peer \ {p} : /\ up'[q] = up[q] /\ down'[q] = down[q]
                              /\ welcomed'[q] = welcomed[q] /\ shown'[q] = shown[q]
    BY <1>1, <2>1 DEF IInv, TypeOK
  <2> QED
    BY <1>1, <2>3, <2>5, <2>6, SameRows, OneConnection
<1>4. CASE m.kind = "update" /\ UNCHANGED <<welcomed, shown, up>>
  <2>1. TypeOK'
    <3>1. down' \in [Peer -> Seq(Down)]
      BY <1>1, <1>2 DEF IInv, TypeOK, Down
    <3> QED
      BY <1>1, <1>4, <3>1, SameRows DEF IInv, TypeOK, Down
  <2>2. Sound(Of(p), "client", up[p], Tail(down[p]), welcomed[p], shown[p])
    <3>1. /\ Sound(Of(p), "client", up[p], down[p], welcomed[p], shown[p])
          /\ up[p] \in Seq(Up) /\ down[p] \in Seq(Down) /\ down[p] # <<>>
      BY <1>1, Known
    <3>2. Head(down[p]).kind = "update"
      BY <1>4 DEF m
    <3> QED
      BY <3>1, <3>2, ClientReads
  <2>3. Sound(Of(p)', link'[p], up'[p], down'[p], welcomed'[p], shown'[p])
    <3>1. link'[p] = "client" /\ down'[p] = Tail(down[p])
      BY <1>1 DEF IInv, TypeOK
    <3> QED
      BY <1>1, <1>4, <2>2, <3>1, SameRows
  <2>4. \A q \in Peer \ {p} : down'[q] = down[q]
    BY <1>1 DEF IInv, TypeOK
  <2> QED
    BY <1>1, <1>4, <2>1, <2>3, <2>4, SameRows, OneConnection
<1> QED
  BY <1>3, <1>4 DEF ClientReceives, m

LEMMA VanishKeeps == ASSUME IInv, NEW p \in Peer, Vanish(p) PROVE IInv'
<1>1. /\ link[p] = "client" /\ link' = [link EXCEPT ![p] = "gone"] /\ down' = [down EXCEPT ![p] = <<>>]
      /\ rows' = rows /\ up' = up /\ welcomed' = welcomed /\ shown' = shown
  BY DEF Vanish
<1>2. TypeOK'
  <2>1. down \in [Peer -> Seq(Down)]
    BY DEF IInv, TypeOK, Down
  <2>2. down' \in [Peer -> Seq(Down)]
    BY <1>1, <2>1
  <2> QED
    BY <1>1, <2>2, SameRows DEF IInv, TypeOK, Down
<1>3. Sound(Of(p), "gone", up[p], <<>>, welcomed[p], shown[p])
  BY <1>1, Known DEF Sound
<1>4. link'[p] = "gone" /\ down'[p] = <<>>
  BY <1>1 DEF IInv, TypeOK
<1>5. Sound(Of(p)', link'[p], up'[p], down'[p], welcomed'[p], shown'[p])
  BY <1>1, <1>3, <1>4, SameRows
<1>6. \A q \in Peer \ {p} : link'[q] = link[q] /\ down'[q] = down[q]
  BY <1>1 DEF IInv, TypeOK
<1> QED
  BY <1>1, <1>2, <1>5, <1>6, SameRows, OneConnection

LEMMA DisconnectKeeps == ASSUME IInv, NEW p \in Peer, Disconnect(p) PROVE IInv'
<1>1. /\ link' = [link EXCEPT ![p] = "free"] /\ rows' = [t \in Table |-> Despawned(rows[t], p)]
      /\ up' = [up EXCEPT ![p] = <<>>] /\ down' = [down EXCEPT ![p] = <<>>]
      /\ welcomed' = welcomed /\ shown' = shown
  BY DEF Disconnect
<1>2. RowsOk(rows') /\ Players' = {r \in Players : r.peer # p}
  <2>1. RowsOk(rows') /\ PlayersIn(rows') = {r \in PlayersIn(rows) : r.peer # p}
    BY <1>1, DespawnRows DEF IInv
  <2> QED
    BY <2>1 DEF Players, PlayersIn
<1>3. TypeOK'
  <2>1. down \in [Peer -> Seq(Down)] /\ up \in [Peer -> Seq(Up)]
    BY DEF IInv, TypeOK, Down, Up
  <2>2. down' \in [Peer -> Seq(Down)] /\ up' \in [Peer -> Seq(Up)]
    BY <1>1, <2>1
  <2> QED
    BY <1>1, <1>2, <2>2 DEF IInv, TypeOK, RowsOk, Down, Up
<1>4. Of(p)' = {}
  BY <1>2 DEF Of
<1>5. link'[p] = "free" /\ up'[p] = <<>> /\ down'[p] = <<>>
  BY <1>1 DEF IInv, TypeOK
<1>6. Sound(Of(p)', link'[p], up'[p], down'[p], welcomed'[p], shown'[p])
  BY <1>4, <1>5 DEF Sound
<1>7. \A q \in Peer \ {p} : link'[q] = link[q] /\ up'[q] = up[q] /\ down'[q] = down[q]
  BY <1>1 DEF IInv, TypeOK
<1> QED
  BY <1>1, <1>2, <1>3, <1>6, <1>7, OneConnection

\* What is sent, or goes nowhere.
LEMMA Delivered ==
    ASSUME IInv, NEW p \in Peer, NEW m \in Down, Deliver(p, m)
    PROVE  /\ down' \in [Peer -> Seq(Down)]
           /\ down'[p] = Sent(link[p], down[p], m)
           /\ \A q \in Peer \ {p} : down'[q] = down[q]
<1>1. Append(down[p], m) \in Seq(Down) /\ down \in [Peer -> Seq(Down)]
  <2>1. down \in [Peer -> Seq(Down)]
    BY DEF IInv, TypeOK, Down
  <2> QED
    BY <2>1
<1> QED
  BY <1>1 DEF Deliver, Sent

LEMMA ServeKeeps == ASSUME IInv, NEW p \in Peer, ServerReceives(p) PROVE IInv'
<1> DEFINE m == Head(up[p])
<1>1. /\ up[p] # <<>> /\ up' = [up EXCEPT ![p] = Tail(@)]
      /\ link' = link /\ welcomed' = welcomed /\ shown' = shown
  BY DEF ServerReceives
<1>2. m \in Up /\ m.view \in View /\ Tail(up[p]) \in Seq(Up)
  <2>1. m \in Up /\ Tail(up[p]) \in Seq(Up)
    BY <1>1, Known
  <2> HIDE DEF m
  <2> QED
    BY <2>1 DEF Up
<1>3. up' \in [Peer -> Seq(Up)] /\ up'[p] = Tail(up[p]) /\ \A q \in Peer \ {p} : up'[q] = up[q]
  BY <1>1, <1>2 DEF IInv, TypeOK, Up
<1> HIDE DEF m
<1>4. CASE m.kind = "init" /\ HearInit(p, m.view)
  <2> DEFINE r == [peer |-> p, view |-> m.view, active |-> FALSE]
  <2>1. rows' = [rows EXCEPT ![Joining] = Append(@, r)] /\ Deliver(p, Welcome(m.view))
    BY <1>4 DEF HearInit
  <2>2. Welcome(m.view) \in Down /\ r \in Row /\ r.view = m.view /\ r.peer = p
    BY <1>2 DEF Welcome, Down, Row
  <2> HIDE DEF r
  <2>3. /\ \A q \in Of(p) : q.view \in View => q.view # r.view
        /\ Sound(Of(p) \cup {r}, link[p], Tail(up[p]), Sent(link[p], down[p], Welcome(r.view)),
                 welcomed[p], shown[p])
    BY <1>1, <1>4, <2>2, Known, HearsInit DEF m
  <2>4. \A q \in Players : ~SameKey(r, q)
    BY <2>2, <2>3, Known DEF SameKey, Of, Row
  <2>5. RowsOk(rows') /\ Players' = Players \cup {r}
    <3>1. \A q \in PlayersIn(rows) : ~SameKey(r, q)
      BY <2>4 DEF Players, PlayersIn
    <3>2. RowsOk(rows') /\ PlayersIn(rows') = PlayersIn(rows) \cup {r}
      BY <2>1, <2>2, <3>1, JoinRows DEF IInv
    <3> QED
      BY <3>2 DEF Players, PlayersIn
  <2>6. Of(p)' = Of(p) \cup {r}
    BY <2>2, <2>5 DEF Of
  <2>7. /\ down' \in [Peer -> Seq(Down)] /\ down'[p] = Sent(link[p], down[p], Welcome(r.view))
        /\ \A q \in Peer \ {p} : down'[q] = down[q]
    BY <2>1, <2>2, Delivered
  <2>8. TypeOK'
    BY <1>1, <1>3, <2>5, <2>7 DEF IInv, TypeOK, RowsOk, Up, Down
  <2>9. Sound(Of(p)', link'[p], up'[p], down'[p], welcomed'[p], shown'[p])
    BY <1>1, <1>3, <2>3, <2>6, <2>7
  <2>10. \A q : q \in Players' /\ q.peer # p <=> q \in Players /\ q.peer # p
    BY <2>2, <2>5
  <2>11. \A q \in Peer \ {p} : /\ link'[q] = link[q] /\ up'[q] = up[q] /\ down'[q] = down[q]
                               /\ welcomed'[q] = welcomed[q] /\ shown'[q] = shown[q]
    BY <1>1, <1>3, <2>7
  <2> QED
    BY <2>5, <2>8, <2>9, <2>10, <2>11, OneConnection
<1>5. CASE m.kind = "switch" /\ HearSwitch(p, m.view)
  <2> DEFINE v == m.view
  <2>1. /\ \E r \in Of(p) : r.view = v
        /\ Sound(AllActivated(Of(p), p, v), link[p], Tail(up[p]), down[p], welcomed[p], shown[p])
    <3>1. /\ Sound(Of(p), link[p], up[p], down[p], welcomed[p], shown[p])
          /\ up[p] \in Seq(Up) /\ down[p] \in Seq(Down) /\ up[p] # <<>>
          /\ OwnedBy(Of(p), p)
      BY <1>1, Known DEF OwnedBy
    <3>2. Head(up[p]).kind = "switch" /\ v = Head(up[p]).view
      BY <1>5 DEF m
    <3> HIDE DEF v
    <3> QED
      BY <3>1, <3>2, HearsSwitch
  <2>2. /\ rows' = [t \in Table |-> [i \in DOMAIN rows[t] |-> Activated(rows[t][i], p, v)]]
        /\ down' = down
    BY <1>5, <2>1 DEF HearSwitch
  <2>3. RowsOk(rows') /\ Players' = AllActivated(Players, p, v)
    <3>1. RowsOk(rows') /\ PlayersIn(rows') = AllActivated(PlayersIn(rows), p, v)
      <4> HIDE DEF v
      <4>1. RowsOk(rows)
        BY DEF IInv
      <4> QED
        BY <2>2, <4>1, ActivateRows
    <3> QED
      BY <3>1 DEF Players, PlayersIn
  <2>4. \A r \in Players : /\ Activated(r, p, v).peer = r.peer
                           /\ r.peer # p => Activated(r, p, v) = r
    BY Known DEF Activated, Row
  <2>5. Of(p)' = AllActivated(Of(p), p, v)
    BY <2>3, <2>4 DEF Of, AllActivated
  <2>6. \A r : r \in Players' /\ r.peer # p <=> r \in Players /\ r.peer # p
    BY <2>3, <2>4 DEF AllActivated
  <2>7. TypeOK'
    BY <1>1, <1>3, <2>2, <2>3 DEF IInv, TypeOK, RowsOk, Up
  <2>8. Sound(Of(p)', link'[p], up'[p], down'[p], welcomed'[p], shown'[p])
    BY <1>1, <1>3, <2>1, <2>2, <2>5
  <2> QED
    BY <1>1, <1>3, <2>2, <2>3, <2>6, <2>7, <2>8, OneConnection
<1>6. CASE m.kind = "keystate" /\ UNCHANGED <<rows, down>>
  <2>1. TypeOK'
    BY <1>1, <1>3, <1>6, SameRows DEF IInv, TypeOK, Up
  <2>2. Sound(Of(p), link[p], Tail(up[p]), down[p], welcomed[p], shown[p])
    BY <1>1, <1>6, Known, HearsKeystate DEF m
  <2>3. Sound(Of(p)', link'[p], up'[p], down'[p], welcomed'[p], shown'[p])
    BY <1>1, <1>3, <1>6, <2>2, SameRows
  <2> QED
    BY <1>1, <1>3, <1>6, <2>1, <2>3, SameRows, OneConnection
<1> QED
  BY <1>4, <1>5, <1>6 DEF ServerReceives, m

LEMMA StreamKeeps == ASSUME IInv, NEW r \in Players, ServerStreams(r) PROVE IInv'
<1> DEFINE p == r.peer
<1>1. r \in Row /\ p \in Peer /\ r.view \in View /\ r \in Of(p)
  <2>1. r \in Row
    BY RowSet DEF IInv, RowsOk, Players
  <2> QED
    BY <2>1 DEF Row, Of
<1>2. Update(r.view) \in Down
  BY <1>1 DEF Update, Down
<1>3. /\ Deliver(p, Update(r.view)) /\ rows' = rows /\ link' = link /\ up' = up
      /\ welcomed' = welcomed /\ shown' = shown
  BY DEF ServerStreams
<1> HIDE DEF p
<1>4. /\ down' \in [Peer -> Seq(Down)] /\ down'[p] = Sent(link[p], down[p], Update(r.view))
      /\ \A q \in Peer \ {p} : down'[q] = down[q]
  BY <1>1, <1>2, <1>3, Delivered
<1>5. TypeOK'
  BY <1>3, <1>4, SameRows DEF IInv, TypeOK, Down
<1>6. Sound(Of(p), link[p], up[p], Sent(link[p], down[p], Update(r.view)), welcomed[p], shown[p])
  BY <1>1, Known, Streams
<1>7. Sound(Of(p)', link'[p], up'[p], down'[p], welcomed'[p], shown'[p])
  BY <1>3, <1>4, <1>6, SameRows
<1> QED
  BY <1>1, <1>3, <1>4, <1>5, <1>7, SameRows, OneConnection

LEMMA MigrateKeeps ==
    ASSUME IInv, NEW s \in Table, NEW t \in Table, NEW i \in DOMAIN rows[s], Migrate(s, t, i)
    PROVE  IInv'
<1>1. /\ s # t
      /\ rows' = [rows EXCEPT ![s] = Front(SwapRemoved(@, Len(@), i)), ![t] = Append(@, rows[s][i])]
      /\ UNCHANGED <<link, up, down, welcomed, shown>>
  BY DEF Migrate
<1>2. RowsOk(rows') /\ Players' = Players
  <2>1. RowsOk(rows') /\ PlayersIn(rows') = PlayersIn(rows)
    BY <1>1, MigrateRows DEF IInv
  <2> QED
    BY <2>1 DEF Players, PlayersIn
<1>3. TypeOK'
  BY <1>1, <1>2 DEF IInv, TypeOK, RowsOk
<1>4. ASSUME NEW p \in Peer PROVE SoundFor(p)'
  <2>1. Of(p)' = Of(p)
    BY <1>2 DEF Of
  <2>2. Sound(Of(p)', link'[p], up'[p], down'[p], welcomed'[p], shown'[p])
    BY <1>1, <2>1, Known
  <2> QED
    BY <2>2 DEF SoundFor
<1>5. RowsOk(rows)'
  BY <1>2 DEF RowsOk
<1> QED
  BY <1>3, <1>4, <1>5 DEF IInv

LEMMA StepIInv == IInv /\ [Next]_vars => IInv'
<1> SUFFICES ASSUME IInv, [Next]_vars PROVE IInv'
  OBVIOUS
<1>1. ASSUME NEW p \in Peer, Connect(p) PROVE IInv'
  BY <1>1, ConnectKeeps
<1>2. ASSUME NEW p \in Peer, Press(p) \/ \E dir \in {-1, 1} : Cycle(p, dir) PROVE IInv'
  BY <1>2, SayKeeps
<1>3. ASSUME NEW p \in Peer, ClientReceives(p) PROVE IInv'
  BY <1>3, ReceiveKeeps
<1>4. ASSUME NEW p \in Peer, Vanish(p) PROVE IInv'
  BY <1>4, VanishKeeps
<1>5. ASSUME NEW p \in Peer, Disconnect(p) PROVE IInv'
  BY <1>5, DisconnectKeeps
<1>6. ASSUME NEW p \in Peer, ServerReceives(p) PROVE IInv'
  BY <1>6, ServeKeeps
<1>7. ASSUME NEW r \in Players, ServerStreams(r) PROVE IInv'
  BY <1>7, StreamKeeps
<1>8. ASSUME NEW s \in Table, NEW t \in Table, NEW i \in DOMAIN rows[s], Migrate(s, t, i) PROVE IInv'
  BY <1>8, MigrateKeeps
<1>9. CASE UNCHANGED vars
  <2>1. TypeOK' /\ RowsOk(rows)'
    BY <1>9 DEF vars, IInv, TypeOK, RowsOk
  <2>2. ASSUME NEW p \in Peer PROVE SoundFor(p)'
    <3>1. Of(p)' = Of(p)
      BY <1>9 DEF vars, Of, Players
    <3>2. Sound(Of(p)', link'[p], up'[p], down'[p], welcomed'[p], shown'[p])
      BY <1>9, <3>1, Known DEF vars
    <3> QED
      BY <3>2 DEF SoundFor
  <2> QED
    BY <2>1, <2>2 DEF IInv
<1> QED
  BY <1>1, <1>2, <1>3, <1>4, <1>5, <1>6, <1>7, <1>8, <1>9 DEF Next

----------------------------------------------------------------------------
(* Theorems                                                                *)

LEMMA Invariance == Spec => []IInv
  BY InitIInv, StepIInv, PTL DEF Spec

\* Every variable stays in its domain.
THEOREM SessionTyped == Spec => []TypeOK
<1>1. IInv => TypeOK
  BY DEF IInv
<1> QED
  BY <1>1, Invariance, PTL

\* No view of a client ever has two player entities: a client asks for each
\* once, and the peer of one that has left is taken only when the loop of
\* network_server_despawn_viewers has deleted all of its rows.
THEOREM OneEntity == Spec => []OneEntityPerView
<1>1. IInv => OneEntityPerView
  BY RowsAreEntities DEF IInv
<1> QED
  BY <1>1, Invariance, PTL

\* No player entity outlives its connection.
THEOREM NobodyLeftBehind == Spec => []NoOrphans
<1>1. IInv => NoOrphans
  <2> SUFFICES ASSUME IInv, NEW r \in Players, link[r.peer] = "free" PROVE FALSE
    BY DEF NoOrphans
  <2>1. r.peer \in Peer /\ r \in Of(r.peer)
    <3>1. r \in Row
      BY RowSet DEF IInv, RowsOk, Players
    <3> QED
      BY <3>1 DEF Row, Of
  <2> QED
    BY <2>1, Known DEF Sound
<1> QED
  BY <1>1, Invariance, PTL

\* A switch or a key state always finds the player entity it is for.
THEOREM EverythingHeard == Spec => []NothingDropped
<1>1. IInv => NothingDropped
  <2> SUFFICES ASSUME IInv, NEW p \in Peer, up[p] # <<>>, Head(up[p]).kind # "init"
               PROVE  \E r \in Of(p) : r.view = Head(up[p]).view
    BY DEF NothingDropped
  <2>1. link[p] # "free" /\ Head(up[p]).view \in View
    <3>1. Head(up[p]) \in Up
      BY Known
    <3> QED
      BY <3>1, Known DEF Sound, Up
  <2>2. PICK k \in 0 .. Views : Asked(Of(p), up[p], k)
    BY <2>1, Known DEF Sound
  <2>3. k = 0
    BY <2>2, Known, AskedOn
  <2> QED
    BY <2>1, <2>2, <2>3, SessionAssumption DEF Asked, View
<1> QED
  BY <1>1, Invariance, PTL

\* A view is initialised before anything is written into it.
THEOREM GreetedFirst == Spec => []WelcomeFirst
<1>1. IInv => WelcomeFirst
  <2> SUFFICES ASSUME IInv, NEW p \in Peer, down[p] # <<>>, Head(down[p]).kind = "update"
               PROVE  Head(down[p]).view \in welcomed[p]
    BY DEF WelcomeFirst
  <2>1. 1 \in 1 .. Len(down[p]) /\ Head(down[p]) = down[p][1]
    BY Known
  <2>2. Heard(Of(p), up[p], down[p], welcomed[p], shown[p])
    BY Known DEF Sound
  <2>3. Greeted(welcomed[p], down[p], 1 - 1, Head(down[p]).view)
    BY <2>1, <2>2 DEF Heard
  <2> QED
    BY <2>3 DEF Greeted
<1> QED
  BY <1>1, Invariance, PTL

\* A client and the server agree on the view whenever nothing is on its way
\* between them, whatever was said in whatever order before.
THEOREM ViewsAgree == Spec => []SameView
<1>1. IInv => SameView
  <2> SUFFICES ASSUME IInv, NEW p \in Peer, link[p] = "client", up[p] = <<>>,
                      \A i \in DOMAIN down[p] : down[p][i].kind # "welcome"
               PROVE  \A r \in Of(p) : r.active <=> r.view = shown[p]
    BY DEF SameView
  <2>1. Settled(Of(p), <<>>, down[p], shown[p])
    BY Known DEF Sound, Heard
  <2>2. DOMAIN down[p] = 1 .. Len(down[p])
    BY Known
  <2> QED
    BY <2>1, <2>2 DEF Settled
<1> QED
  BY <1>1, Invariance, PTL

=============================================================================
