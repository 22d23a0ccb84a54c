---------------------------- MODULE CodecProofs ----------------------------
(***************************************************************************)
(* Theorems about Codec, for every descriptor, record and length of buffer:*)
(* packer and unpacker walk in step, the run-length code loses nothing, no *)
(* field gets the value of another, and what is accepted is whole.         *)
(***************************************************************************)
EXTENDS Codec, FiniteSetTheorems, SequenceTheorems, WellFoundedInduction, TLAPS

Tokens == {Token(i) : i \in DOMAIN Desc}

\* Where packing stands after the first k tokens.
Past(k) == IF k = 0 THEN 1 ELSE Behind(wire[k].at)

Types ==
    /\ stage \in {"pack", "unpack", "done", "failed"}
    /\ view \in Views
    /\ full \in BOOLEAN
    /\ pos \in 1 .. Len(Desc) + 1 /\ upos \in 1 .. Len(Desc) + 1
    /\ wire \in Seq(Tokens)
    /\ read \in 0 .. Len(wire)

\* The tokens are those of the entries the packer visits, in its order.
Walk ==
    \A k \in 1 .. Len(wire) :
        /\ wire[k].at \in DOMAIN Desc /\ wire[k].at >= k
        /\ wire[k] = Token(wire[k].at)
        /\ wire[k].at = Past(k - 1)

Packed ==
    /\ stage = "pack" /\ ~full => pos = Past(Len(wire))
    /\ stage # "pack" /\ ~full => Past(Len(wire)) > Len(Desc)

Unpacked == stage = "unpack" => upos = Past(read)

IInv == Types /\ Walk /\ Packed /\ Unpacked

----------------------------------------------------------------------------
(* The descriptor                                                          *)

LEMMA DescriptorEntries ==
    /\ Len(Desc) \in Nat /\ DOMAIN Desc = 1 .. Len(Desc)
    /\ \A i \in DOMAIN Desc :
         /\ Desc[i].field \in DOMAIN Blank /\ Desc[i].type \in {"uint", "half", "bin"}
         /\ Desc[i].skip \in Int /\ Abs(Desc[i].skip) \in Nat
         /\ i + Abs(Desc[i].skip) <= Len(Desc)
<1>1. Desc \in Seq(FieldType)
  BY CodecAssumption
<1>2. ASSUME NEW i \in DOMAIN Desc
      PROVE  /\ Desc[i].field \in DOMAIN Blank /\ Desc[i].type \in {"uint", "half", "bin"}
             /\ Desc[i].skip \in Int
  <2>1. Desc[i] \in FieldType
    BY <1>1, <1>2
  <2> QED
    BY <2>1 DEF FieldType
<1>3. ASSUME NEW n \in Int PROVE Abs(n) \in Nat
  BY DEF Abs
<1> QED
  BY <1>1, <1>2, <1>3, CodecAssumption

\* Wherever the packer is, the next entry lies ahead and within the
\* descriptor, or at its end.
LEMMA GoesAhead ==
    ASSUME NEW i \in DOMAIN Desc
    PROVE  Behind(i) \in i + 1 .. Len(Desc) + 1
<1>1. Skipped(i) \in {0, Abs(Desc[i].skip)}
  BY DEF Skipped
<1>2. i \in Int /\ i <= Len(Desc)
  BY DescriptorEntries
<1> QED
  BY <1>1, <1>2, DescriptorEntries DEF Behind

LEMMA TokenKnowsItsEntry ==
    ASSUME NEW i \in DOMAIN Desc
    PROVE  Token(i).at = i
BY DEF Token

\* Tokens and stride depend on the record only.
LEMMA SameRecord ==
    ASSUME view' = view
    PROVE  /\ Tokens' = Tokens
           /\ \A i : Behind(i)' = Behind(i) /\ Token(i)' = Token(i)
BY DEF Tokens, Token, Behind, Skipped, Coded, IsCondition

----------------------------------------------------------------------------
(* The invariant                                                           *)

LEMMA InitInv == Init => IInv
<1> SUFFICES ASSUME Init PROVE IInv
  OBVIOUS
<1>1. pos \in 1 .. Len(Desc) + 1 /\ upos \in 1 .. Len(Desc) + 1
  BY DescriptorEntries DEF Init
<1>2. wire \in Seq(Tokens) /\ Len(wire) = 0 /\ read \in 0 .. Len(wire)
  BY DEF Init
<1>3. Types
  BY <1>1, <1>2 DEF Init, Types
<1> QED
  BY <1>2, <1>3 DEF Init, IInv, Walk, Packed, Unpacked, Past

\* The packer's step appends the token of the entry it stands at.
LEMMA PackKeepsInv == IInv /\ PackField => IInv'
<1> SUFFICES ASSUME IInv, PackField PROVE IInv'
  OBVIOUS
<1> USE DEF IInv
<1>1. pos \in DOMAIN Desc /\ pos' = Behind(pos) /\ view' = view /\ stage = "pack" /\ stage' = "pack"
  BY DescriptorEntries DEF PackField, Types
<1>2. pos' \in 1 .. Len(Desc) + 1
  BY <1>1, GoesAhead, DescriptorEntries
<1>3. Token(pos) \in Tokens
  BY <1>1 DEF Tokens
<1>4. CASE full
  <2>1. wire' = wire
    BY <1>4 DEF PackField
  <2>2. Types'
    BY <1>1, <1>2, <2>1, SameRecord DEF PackField, Types
  <2>3. Walk'
    BY <1>1, <2>1, SameRecord DEF Walk, Past
  <2> QED
    BY <1>1, <1>4, <2>2, <2>3 DEF PackField, Packed, Unpacked
<1>5. CASE ~full
  <2>1. wire' = Append(wire, Token(pos)) /\ Len(wire') = Len(wire) + 1 /\ Len(wire) \in Nat
    BY <1>3, <1>5 DEF PackField, Types
  <2>2. Types'
    <3>1. wire' \in Seq(Tokens')
      BY <1>1, <1>3, <2>1, SameRecord DEF Types
    <3>2. read' \in 0 .. Len(wire')
      BY <2>1 DEF PackField, Types
    <3> QED
      BY <1>1, <1>2, <3>1, <3>2 DEF PackField, Types
  <2>3. wire'[Len(wire')] = Token(pos) /\ \A k \in 1 .. Len(wire) : wire'[k] = wire[k]
    BY <1>3, <2>1 DEF Types
  <2>4. pos = Past(Len(wire)) /\ pos >= Len(wire) + 1
    <3>1. pos = Past(Len(wire))
      BY <1>1, <1>5 DEF Packed
    <3>2. CASE Len(wire) = 0
      BY <1>1, <3>1, <3>2 DEF Past
    <3>3. CASE Len(wire) # 0
      <4>1. wire[Len(wire)].at \in DOMAIN Desc /\ wire[Len(wire)].at >= Len(wire)
        BY <2>1, <3>3 DEF Walk
      <4>2. Behind(wire[Len(wire)].at) >= wire[Len(wire)].at + 1
        BY <4>1, GoesAhead, DescriptorEntries
      <4> QED
        BY <2>1, <3>1, <3>3, <4>1, <4>2, DescriptorEntries DEF Past
    <3> QED
      BY <3>1, <3>2, <3>3
  <2>5. Walk'
    <3> SUFFICES ASSUME NEW k \in 1 .. Len(wire')
                 PROVE  /\ wire'[k].at \in DOMAIN Desc /\ wire'[k].at >= k
                        /\ wire'[k] = Token(wire'[k].at)
                        /\ wire'[k].at = Past(k - 1)'
      BY <1>1, SameRecord DEF Walk
    <3>1. CASE k = Len(wire')
      <4>1. wire'[k] = Token(pos) /\ wire'[k].at = pos
        BY <1>1, <2>3, <3>1, TokenKnowsItsEntry
      <4>2. k - 1 = Len(wire) /\ Past(k - 1)' = Past(Len(wire))
        BY <1>1, <2>1, <2>3, <3>1, SameRecord DEF Past
      <4> QED
        BY <1>1, <2>1, <2>4, <3>1, <4>1, <4>2
    <3>2. CASE k \in 1 .. Len(wire)
      <4>1. wire'[k] = wire[k]
        BY <2>3, <3>2
      <4>2. Past(k - 1)' = Past(k - 1)
        BY <1>1, <2>1, <2>3, <3>2, SameRecord DEF Past
      <4> QED
        BY <3>2, <4>1, <4>2 DEF Walk
    <3> QED
      BY <2>1, <3>1, <3>2
  <2>6. Packed' /\ Unpacked'
    <3>1. Past(Len(wire))' = Behind(pos)
      BY <1>1, <2>1, <2>3, TokenKnowsItsEntry, SameRecord DEF Past
    <3> QED
      BY <1>1, <3>1 DEF Packed, Unpacked
  <2> QED
    BY <2>2, <2>5, <2>6
<1> QED
  BY <1>4, <1>5 DEF Types

\* Every token is read by the entry it was written for.
LEMMA UnpackKeepsInv ==
    ASSUME IInv, UnpackCondition \/ UnpackField
    PROVE  IInv' /\ Upcoming.at = upos
<1> USE DEF IInv
<1>1. /\ stage = "unpack" /\ upos <= Len(Desc) /\ read < Len(wire)
      /\ read' = read + 1 /\ UNCHANGED <<stage, view, pos, wire, full>>
  BY DEF UnpackCondition, UnpackField
<1>2. read + 1 \in 1 .. Len(wire) /\ upos \in DOMAIN Desc
  BY <1>1, DescriptorEntries DEF Types
<1>3. Upcoming = Token(upos) /\ Upcoming.at = upos
  <2>1. wire[read + 1].at = Past(read) /\ wire[read + 1] = Token(wire[read + 1].at)
    BY <1>2 DEF Walk, Types
  <2> QED
    BY <1>1, <2>1 DEF Unpacked, Upcoming
<1>4. upos' = Behind(upos)
  <2>1. CASE UnpackCondition
    <3>1. IsCondition(upos) /\ upos' = upos + 1 + Upcoming.data[1]
      BY <2>1 DEF UnpackCondition
    <3>2. Upcoming.data = <<Skipped(upos)>>
      BY <1>3, <3>1 DEF Token
    <3> QED
      BY <3>1, <3>2 DEF Behind
  <2>2. CASE UnpackField
    BY <2>2 DEF UnpackField, Behind
  <2> QED
    BY <2>1, <2>2
<1>5. upos' = Past(read)' /\ upos' \in 1 .. Len(Desc) + 1
  <2>1. upos' \in 1 .. Len(Desc) + 1
    BY <1>2, <1>4, GoesAhead, DescriptorEntries
  <2>2. wire[read'].at = upos
    BY <1>1, <1>3 DEF Upcoming
  <2>3. read' # 0
    BY <1>1, <1>2 DEF Types
  <2> QED
    BY <1>1, <1>4, <2>1, <2>2, <2>3, SameRecord DEF Past
<1>6. Types'
  BY <1>1, <1>2, <1>5, SameRecord DEF Types
<1>7. Walk' /\ Past(Len(wire))' = Past(Len(wire))
  BY <1>1, SameRecord DEF Walk, Past
<1> QED
  BY <1>1, <1>3, <1>5, <1>6, <1>7 DEF Packed, Unpacked

\* The steps that neither write nor read a token.
LEMMA OtherStepsKeepInv ==
    ASSUME IInv, Overflow \/ StartUnpacking \/ Reject \/ Accept \/ UNCHANGED vars
    PROVE  IInv'
<1> USE DEF IInv
<1>1. UNCHANGED <<view, wire, pos>>
  BY DEF Overflow, StartUnpacking, Reject, Accept, vars
<1>2. Walk' /\ \A k \in 0 .. Len(wire) : Behind(wire[k].at)' = Behind(wire[k].at)
  BY <1>1, SameRecord DEF Walk, Past
<1>3. Past(Len(wire))' = Past(Len(wire))
  BY <1>1, SameRecord DEF Past
<1>4. CASE StartUnpacking
  <2>1. Types'
    BY <1>1, <1>4, SameRecord, DescriptorEntries DEF StartUnpacking, Types
  <2>2. Packed' /\ Unpacked'
    BY <1>1, <1>3, <1>4 DEF StartUnpacking, Packed, Unpacked, Past
  <2> QED
    BY <1>2, <2>1, <2>2
<1>5. CASE Overflow
  BY <1>1, <1>2, <1>5, SameRecord DEF Overflow, Types, Packed, Unpacked
<1>6. CASE Reject \/ Accept
  BY <1>1, <1>2, <1>3, <1>6, SameRecord DEF Reject, Accept, Types, Packed, Unpacked
<1>7. CASE UNCHANGED vars
  BY <1>1, <1>2, <1>3, <1>7, SameRecord DEF vars, Types, Packed, Unpacked, Past
<1> QED
  BY <1>4, <1>5, <1>6, <1>7

LEMMA StartKeepsInv ==
    ASSUME NEW v \in Views, Start(v)
    PROVE  IInv'
<1>1. wire' = <<>> /\ Len(wire') = 0 /\ read' = 0 /\ pos' = 1 /\ upos' = 1 /\ stage' = "pack"
  BY DEF Start
<1>2. 1 \in 1 .. Len(Desc) + 1
  BY DescriptorEntries
<1>3. wire' \in Seq(Tokens') /\ read' \in 0 .. Len(wire')
  BY <1>1
<1>4. view' \in Views /\ full' = FALSE
  BY DEF Start
<1>5. Types'
  BY <1>1, <1>2, <1>3, <1>4 DEF Types
<1> QED
  BY <1>1, <1>5 DEF IInv, Walk, Packed, Unpacked, Past

\* The invariant of packing and unpacking, whatever the values.
THEOREM Invariance == Spec => []IInv
<1>1. IInv /\ [Next]_vars => IInv'
  BY PackKeepsInv, UnpackKeepsInv, OtherStepsKeepInv, StartKeepsInv DEF Next
<1> QED
  BY InitInv, <1>1, PTL DEF Spec

----------------------------------------------------------------------------
(* Recursion over an interval                                              *)

\* Every set of naturals that has an element has a least one.
LEMMA LeastNatural ==
    ASSUME NEW S \in SUBSET Nat, S # {}
    PROVE  \E m \in S : \A k \in S : m <= k
<1> DEFINE R == StrictSubsetOrdering(Nat)
           T == {0 .. n : n \in S}
<1>1. T # {} /\ T \subseteq FiniteSubsetsOf(Nat)
  <2>1. \A n \in S : IsFiniteSet(0 .. n) /\ 0 .. n \in SUBSET Nat
    BY FS_Interval
  <2> QED
    BY <2>1 DEF FiniteSubsetsOf
<1>2. PICK A \in T : \A B \in T : ~(<<B, A>> \in R)
  <2>1. IsWellFoundedOn(R, FiniteSubsetsOf(Nat))
    BY FS_StrictSubsetOrderingWellFounded
  <2> HIDE DEF R, T
  <2> QED
    BY <1>1, <2>1, WFMin
<1>3. PICK m \in S : A = 0 .. m
  OBVIOUS
<1>4. ASSUME NEW k \in S, k < m PROVE FALSE
  <2>1. 0 .. k \subseteq A /\ 0 .. k # A
    BY <1>3, <1>4
  <2>2. 0 .. k \in SUBSET Nat /\ A \in SUBSET Nat
    BY <1>3
  <2> QED
    BY <1>2, <2>1, <2>2 DEF StrictSubsetOrdering
<1> QED
  BY <1>4

\* What holds at 0 and at i whenever it holds at i - 1 holds up to the end.
LEMMA UpTo ==
    ASSUME NEW N \in Nat, NEW G \in SUBSET (0 .. N), 0 \in G,
           \A i \in 1 .. N : i - 1 \in G => i \in G
    PROVE  G = 0 .. N
<1> DEFINE S == (0 .. N) \ G
<1> SUFFICES ASSUME S # {} PROVE FALSE
  OBVIOUS
<1>1. PICK m \in S : \A k \in S : m <= k
  <2>1. S \in SUBSET Nat
    OBVIOUS
  <2> HIDE DEF S
  <2> QED
    BY <2>1, LeastNatural
<1>2. m \in 1 .. N /\ m - 1 \in 0 .. N
  BY <1>1
<1> QED
  BY <1>1, <1>2

\* f is the recursion over 0 .. N that starts from base and goes on by step.
Recursion(f, N, S, base, step) ==
    f \in [0 .. N -> S] /\ f[0] = base /\ \A i \in 1 .. N : f[i] = step[i][f[i - 1]]

\* A recursion over an interval has a solution.
LEMMA RecursionSolved ==
    ASSUME NEW N \in Nat, NEW S, NEW base \in S, NEW step \in [1 .. N -> [S -> S]]
    PROVE  \E f : Recursion(f, N, S, base, step)
<1> DEFINE Solves(f, m) == f[0] = base /\ \A i \in 1 .. m : f[i] = step[i][f[i - 1]]
           G == {m \in 0 .. N : \E f \in [0 .. m -> S] : Solves(f, m)}
<1>1. 0 \in G
  <2> DEFINE f == [i \in 0 .. 0 |-> base]
  <2>1. f \in [0 .. 0 -> S] /\ f[0] = base /\ \A i \in 1 .. 0 : f[i] = step[i][f[i - 1]]
    OBVIOUS
  <2> HIDE DEF f
  <2>2. 0 \in 0 .. N
    OBVIOUS
  <2> QED
    BY <2>1, <2>2
<1>2. ASSUME NEW m \in 1 .. N, m - 1 \in G PROVE m \in G
  <2>1. PICK f \in [0 .. m - 1 -> S] : Solves(f, m - 1)
    BY <1>2
  <2> DEFINE h == [i \in 0 .. m |-> IF i = m THEN step[m][f[m - 1]] ELSE f[i]]
  <2>2. step[m][f[m - 1]] \in S
    OBVIOUS
  <2>3. h \in [0 .. m -> S]
    BY <2>2
  <2>4. ASSUME NEW i \in 1 .. m PROVE h[i] = step[i][h[i - 1]]
    <3>1. h[i - 1] = f[i - 1] /\ i - 1 \in 0 .. m
      OBVIOUS
    <3>2. CASE i = m
      BY <3>1, <3>2
    <3>3. CASE i # m
      <4>1. i \in 1 .. m - 1 /\ h[i] = f[i]
        BY <3>3
      <4> QED
        BY <2>1, <3>1, <4>1
    <3> QED
      BY <3>2, <3>3
  <2>5. h[0] = base
    BY <2>1
  <2>6. m \in 0 .. N
    OBVIOUS
  <2> HIDE DEF h
  <2> QED
    BY <2>3, <2>4, <2>5, <2>6
<1> HIDE DEF G
<1>3. G = 0 .. N
  <2>1. G \in SUBSET (0 .. N)
    BY DEF G
  <2> QED
    BY <1>1, <1>2, <2>1, UpTo
<1>4. N \in G
  BY <1>3
<1> QED
  BY <1>4 DEF G, Recursion

----------------------------------------------------------------------------
(* Folds over sequences                                                    *)

\* A round of a fold takes the last index off: the indices before it are
\* left.
LEMMA LastIndex ==
    ASSUME NEW n \in Nat, NEW i \in 1 .. n
    PROVE  /\ 1 .. i \in SUBSET (1 .. n) /\ 1 .. i # {}
           /\ Max(1 .. i) = i /\ (1 .. i) \ {i} = 1 .. i - 1
<1>1. i \in 1 .. i /\ \A y \in 1 .. i : i >= y
  OBVIOUS
<1>2. \A x \in 1 .. i : (\A y \in 1 .. i : x >= y) => x = i
  BY <1>1
<1>3. Max(1 .. i) = i
  BY <1>1, <1>2 DEF Max
<1> QED
  BY <1>1, <1>3

\* iter is what a fold of n rounds computes, for every set of indices.
Folds(iter, n, base, step) ==
    iter = [s \in SUBSET (1 .. n) |->
              IF s = {} THEN base ELSE step[Max(s)][iter[s \ {Max(s)}]]]

LEMMA MaxOfIndices ==
    ASSUME NEW n \in Nat, NEW s \in SUBSET (1 .. n), s # {}
    PROVE  Max(s) \in s /\ \A y \in s : Max(s) >= y
<1> DEFINE T == {n - y : y \in s}
<1>1. PICK m \in T : \A k \in T : m <= k
  <2>1. ASSUME NEW y \in s PROVE n - y \in Nat
    OBVIOUS
  <2>2. T \in SUBSET Nat /\ T # {}
    BY <2>1
  <2> HIDE DEF T
  <2> QED
    BY <2>2, LeastNatural
<1>2. PICK x \in s : m = n - x
  BY <1>1
<1>3. ASSUME NEW y \in s PROVE x >= y
  <2>1. n - y \in T /\ x \in 1 .. n /\ y \in 1 .. n
    OBVIOUS
  <2>2. n - x <= n - y
    BY <1>1, <1>2, <2>1
  <2> QED
    BY <2>1, <2>2
<1> QED
  BY <1>2, <1>3 DEF Max

\* A fold over a sequence has a solution: the rounds of the indices of s, in
\* their order.
LEMMA FoldFound ==
    ASSUME NEW n \in Nat, NEW S, NEW base \in S, NEW step \in [1 .. n -> [S -> S]]
    PROVE  \E iter \in [SUBSET (1 .. n) -> S] : Folds(iter, n, base, step)
<1> DEFINE D == SUBSET (1 .. n)
           V == [D -> S]
           turn == [i \in 1 .. n |-> [g \in V |->
                      [s \in D |-> IF i \in s THEN step[i][g[s]] ELSE g[s]]]]
           first == [s \in D |-> base]
<1>1. first \in V /\ turn \in [1 .. n -> [V -> V]]
  <2>1. ASSUME NEW i \in 1 .. n, NEW g \in V
        PROVE  [s \in D |-> IF i \in s THEN step[i][g[s]] ELSE g[s]] \in V
    <3> HIDE DEF D
    <3>1. ASSUME NEW s \in D PROVE g[s] \in S /\ step[i][g[s]] \in S
      OBVIOUS
    <3> QED
      BY <3>1
  <2>2. first \in V
    OBVIOUS
  <2> HIDE DEF V, D, first
  <2> QED
    BY <2>1, <2>2
<1>2. PICK f : Recursion(f, n, V, first, turn)
  <2> HIDE DEF D, V, turn, first
  <2> QED
    BY <1>1, RecursionSolved
<1>3. \A i \in 0 .. n : f[i] \in V
  BY <1>2 DEF Recursion
<1>4. ASSUME NEW i \in 1 .. n, NEW s \in D
      PROVE  f[i][s] = IF i \in s THEN step[i][f[i - 1][s]] ELSE f[i - 1][s]
  <2> HIDE DEF D, V, turn, first
  <2>1. f[i] = turn[i][f[i - 1]] /\ i - 1 \in 0 .. n
    BY <1>2 DEF Recursion
  <2>2. PICK g \in V : g = f[i - 1]
    BY <1>3, <2>1
  <2>3. f[i] = [r \in D |-> IF i \in r THEN step[i][g[r]] ELSE g[r]]
    BY <2>1, <2>2 DEF turn
  <2> QED
    BY <2>2, <2>3
<1>5. \A s \in D : f[0][s] = base
  BY <1>2 DEF Recursion
<1> HIDE DEF turn, first
\* Two sets that agree up to i agree in round i.
<1>6. ASSUME NEW s \in D, NEW t \in D, NEW m \in 0 .. n, \A k \in 1 .. m : k \in s <=> k \in t
      PROVE  f[m][s] = f[m][t]
  <2> DEFINE G == {i \in 0 .. m : f[i][s] = f[i][t]}
  <2>1. 0 \in G
    BY <1>5
  <2>2. ASSUME NEW i \in 1 .. m, i - 1 \in G PROVE i \in G
    <3>1. i \in 1 .. n /\ (i \in s <=> i \in t) /\ f[i - 1][s] = f[i - 1][t]
      BY <1>6, <2>2
    <3> HIDE DEF D
    <3>2. f[i][s] = f[i][t]
      BY <1>4, <3>1
    <3> QED
      BY <3>2
  <2>3. m \in Nat /\ G \in SUBSET (0 .. m)
    OBVIOUS
  <2> HIDE DEF G
  <2>4. G = 0 .. m
    BY <2>1, <2>2, <2>3, UpTo
  <2> QED
    BY <2>4 DEF G
\* Rounds behind the last index of s change nothing.
<1>7. ASSUME NEW s \in D, NEW m \in 0 .. n, \A k \in s : k <= m
      PROVE  f[n][s] = f[m][s]
  <2> DEFINE G == {j \in 0 .. n - m : f[m + j][s] = f[m][s]}
  <2>1. 0 \in G
    OBVIOUS
  <2>2. ASSUME NEW j \in 1 .. n - m, j - 1 \in G PROVE j \in G
    <3>1. m + j \in 1 .. n /\ m + j \notin s /\ m + j - 1 = m + (j - 1)
      BY <1>7
    <3>2. f[m + j][s] = f[m + j - 1][s]
      BY <1>4, <3>1
    <3> QED
      BY <2>2, <3>1, <3>2
  <2>3. n - m \in Nat /\ G \in SUBSET (0 .. n - m)
    OBVIOUS
  <2> HIDE DEF G
  <2>4. G = 0 .. n - m
    BY <2>1, <2>2, <2>3, UpTo
  <2>5. n - m \in G /\ m + (n - m) = n
    BY <2>4
  <2> QED
    BY <2>5 DEF G
<1> DEFINE iter == [s \in D |-> f[n][s]]
<1>8. iter \in V
  <2>1. n \in 0 .. n
    OBVIOUS
  <2>2. f[n] \in V
    BY <1>3, <2>1
  <2> QED
    BY <2>2
<1>9. iter[{}] = base
  BY <1>5, <1>7
<1>10. ASSUME NEW s \in D, s # {} PROVE iter[s] = step[Max(s)][iter[s \ {Max(s)}]]
  <2>1. PICK m \in 1 .. n : m = Max(s) /\ m \in s /\ \A y \in s : m >= y
    BY <1>10, MaxOfIndices
  <2>2. PICK t \in D : t = s \ {m}
    OBVIOUS
  <2> HIDE DEF D, V
  <2>3. f[n][s] = f[m][s]
    BY <1>7, <2>1
  <2>6. f[m][s] = step[m][f[m - 1][s]]
    BY <1>4, <2>1
  <2>4. f[m - 1][s] = f[m - 1][t]
    BY <1>6, <2>2
  <2>5. f[n][t] = f[m - 1][t]
    <3>1. m - 1 \in 0 .. n /\ \A k \in t : k <= m - 1
      BY <2>1, <2>2
    <3> QED
      BY <1>7, <3>1
  <2> QED
    BY <2>1, <2>2, <2>3, <2>4, <2>5, <2>6
<1> HIDE DEF iter
<1>11. iter = [s \in D |-> IF s = {} THEN base ELSE step[Max(s)][iter[s \ {Max(s)}]]]
  BY <1>8, <1>9, <1>10
<1> QED
  BY <1>8, <1>11 DEF Folds

----------------------------------------------------------------------------
(* The run-length code                                                     *)

\* What a run stands for.
Repeated(run) == [k \in 1 .. run[1] |-> run[2]]

\* The rounds of decompress_rle.
Expanding(runs) ==
    [i \in 1 .. Len(runs) |-> [out \in Seq(Nat) |-> out \o Repeated(runs[i])]]

Runs == Nat \X Nat

LEMMA RepeatedType ==
    ASSUME NEW run \in Runs
    PROVE  Repeated(run) \in Seq(Nat) /\ Len(Repeated(run)) = run[1]
BY DEF Repeated, Runs

\* A run put behind what has been expanded.
LEMMA Continued ==
    ASSUME NEW done \in Seq(Nat), NEW run \in Runs
    PROVE  /\ done \o Repeated(run) \in Seq(Nat)
           /\ Len(done \o Repeated(run)) = Len(done) + run[1]
           /\ \A k \in 1 .. Len(done) + run[1] :
                (done \o Repeated(run))[k] = IF k <= Len(done) THEN done[k] ELSE run[2]
<1>1. PICK n \in Nat, b \in Nat : n = run[1] /\ b = run[2]
  BY DEF Runs
<1>2. PICK rep \in Seq(Nat) : /\ rep = Repeated(run) /\ Len(rep) = n
                              /\ \A k \in 1 .. n : rep[k] = b
  BY <1>1, RepeatedType DEF Repeated
<1>3. ASSUME NEW k \in 1 .. Len(done) + n
      PROVE  (done \o rep)[k] = IF k <= Len(done) THEN done[k] ELSE b
  <2>1. (done \o rep)[k] = IF k <= Len(done) THEN done[k] ELSE rep[k - Len(done)]
    BY <1>2
  <2>2. k > Len(done) => k - Len(done) \in 1 .. n
    OBVIOUS
  <2>3. Len(done) \in Nat
    OBVIOUS
  <2> QED
    BY <1>2, <2>1, <2>2, <2>3
<1> QED
  BY <1>1, <1>2, <1>3

LEMMA ExpandingType ==
    ASSUME NEW runs \in Seq(Runs)
    PROVE  Expanding(runs) \in [1 .. Len(runs) -> [Seq(Nat) -> Seq(Nat)]]
<1>1. ASSUME NEW i \in 1 .. Len(runs), NEW out \in Seq(Nat)
      PROVE  out \o Repeated(runs[i]) \in Seq(Nat)
  <2>1. Repeated(runs[i]) \in Seq(Nat)
    BY RepeatedType
  <2> QED
    BY <2>1
<1> QED
  BY <1>1 DEF Expanding

LEMMA DecompressedRounds ==
    ASSUME NEW runs \in Seq(Runs)
    PROVE  \E f : /\ Recursion(f, Len(runs), Seq(Nat), <<>>, Expanding(runs))
                  /\ Decompressed(runs) = f[Len(runs)]
<1> DEFINE n == Len(runs)
           D == SUBSET (1 .. n)
           step == Expanding(runs)
           Solves(iter) ==
             iter = [s \in D |-> IF s = {} THEN <<>>
                                 ELSE iter[s \ {Max(s)}] \o Repeated(runs[Max(s)])]
           chosen == CHOOSE iter : Solves(iter)
<1>1. n \in Nat /\ DOMAIN runs = 1 .. n /\ <<>> \in Seq(Nat)
  OBVIOUS
<1>2. step \in [1 .. n -> [Seq(Nat) -> Seq(Nat)]]
  BY ExpandingType
<1>3. Decompressed(runs) = chosen[1 .. n]
  BY <1>1 DEF Decompressed, FoldLeft, MapThenFoldSet, Repeated
<1> HIDE DEF n, step
<1>4. PICK iter \in [D -> Seq(Nat)] : Folds(iter, n, <<>>, step)
  BY <1>1, <1>2, FoldFound
<1>5. Solves(iter)
  <2>1. ASSUME NEW s \in D, s # {}
        PROVE  step[Max(s)][iter[s \ {Max(s)}]] = iter[s \ {Max(s)}] \o Repeated(runs[Max(s)])
    <3>1. PICK m \in 1 .. n : m = Max(s)
      BY <1>1, <2>1, MaxOfIndices
    <3>2. PICK t \in D : t = s \ {m}
      OBVIOUS
    <3>3. iter[t] \in Seq(Nat)
      OBVIOUS
    <3> HIDE DEF D
    <3>4. step[m][iter[t]] = iter[t] \o Repeated(runs[m])
      BY <3>3 DEF step, Expanding, n
    <3> QED
      BY <3>1, <3>2, <3>4
  <2>2. iter = [s \in D |-> IF s = {} THEN <<>> ELSE step[Max(s)][iter[s \ {Max(s)}]]]
    BY <1>4 DEF Folds
  <2>3. ASSUME NEW s \in D
        PROVE  iter[s] = IF s = {} THEN <<>> ELSE iter[s \ {Max(s)}] \o Repeated(runs[Max(s)])
    <3>1. iter[s] = IF s = {} THEN <<>> ELSE step[Max(s)][iter[s \ {Max(s)}]]
      BY <2>2
    <3> QED
      BY <2>1, <3>1
  <2> HIDE DEF D
  <2> QED
    BY <2>3
<1>6. Solves(chosen)
  <2> HIDE DEF Solves
  <2> QED
    BY <1>5
<1>7. PICK f : Recursion(f, n, Seq(Nat), <<>>, step)
  BY <1>1, <1>2, RecursionSolved
<1> HIDE DEF chosen
<1> DEFINE G == {i \in 0 .. n : chosen[1 .. i] = f[i]}
<1>8. 0 \in G
  <2>1. 1 .. 0 = {} /\ {} \in D /\ f[0] = <<>>
    BY <1>7 DEF Recursion
  <2>2. chosen[{}] = <<>>
    BY <1>6, <2>1
  <2> QED
    BY <1>1, <2>1, <2>2
<1>9. ASSUME NEW i \in 1 .. n, i - 1 \in G PROVE i \in G
  <2>1. PICK u \in D : u = 1 .. i /\ u # {} /\ Max(u) = i /\ u \ {i} = 1 .. i - 1
    BY <1>1, LastIndex
  <2>2. chosen[u] = chosen[u \ {Max(u)}] \o Repeated(runs[Max(u)])
    BY <1>6, <2>1
  <2>3. chosen[u \ {Max(u)}] = f[i - 1]
    <3>1. u \ {Max(u)} = 1 .. i - 1
      BY <2>1
    <3>2. chosen[1 .. i - 1] = f[i - 1]
      BY <1>9
    <3> QED
      BY <3>1, <3>2
  <2>6. chosen[1 .. i] = f[i - 1] \o Repeated(runs[i])
    BY ONLY <2>1, <2>2, <2>3
  <2>7. i - 1 \in 0 .. n
    BY <1>1
  <2>4. f[i - 1] \in Seq(Nat) /\ f[i] = step[i][f[i - 1]]
    BY <1>7, <2>7 DEF Recursion
  <2>5. step[i][f[i - 1]] = f[i - 1] \o Repeated(runs[i])
    <3>1. PICK out \in Seq(Nat) : out = f[i - 1]
      BY <2>4
    <3>2. i \in 1 .. Len(runs)
      BY DEF n
    <3>3. Expanding(runs)[i] = [o \in Seq(Nat) |-> o \o Repeated(runs[i])]
      BY <3>2 DEF Expanding
    <3> QED
      BY <3>1, <3>3 DEF step
  <2>8. chosen[1 .. i] = f[i] /\ i \in 0 .. n
    BY <1>1, <2>6, <2>4, <2>5
  <2> QED
    BY <2>8
<1> HIDE DEF G
<1>10. G = 0 .. n
  <2>1. G \in SUBSET (0 .. n)
    BY DEF G
  <2> QED
    BY <1>1, <1>8, <1>9, <2>1, UpTo
<1>11. chosen[1 .. n] = f[n]
  BY <1>1, <1>10 DEF G
<1> QED
  BY <1>3, <1>7, <1>11 DEF n, step

\* Recursions that take the same steps agree.
LEMMA SameRounds ==
    ASSUME NEW n \in Nat, NEW m \in Nat, n <= m, NEW S, NEW base, NEW s1, NEW s2,
           NEW f, NEW g, Recursion(f, n, S, base, s1), Recursion(g, m, S, base, s2),
           \A i \in 1 .. n : s1[i] = s2[i]
    PROVE  f[n] = g[n]
<1> DEFINE G == {i \in 0 .. n : f[i] = g[i]}
<1>1. 0 \in G
  BY DEF Recursion
<1>2. ASSUME NEW i \in 1 .. n, i - 1 \in G PROVE i \in G
  BY <1>2 DEF Recursion
<1> HIDE DEF G
<1>3. G = 0 .. n
  <2>1. G \in SUBSET (0 .. n)
    BY DEF G
  <2> QED
    BY <1>1, <1>2, <2>1, UpTo
<1>4. n \in G
  BY <1>3
<1> QED
  BY <1>4 DEF G

\* Decompressing one run more appends what it stands for.
LEMMA DecompressedAppend ==
    ASSUME NEW runs \in Seq(Runs), NEW run \in Runs
    PROVE  /\ Decompressed(<<>>) = <<>>
           /\ Decompressed(runs) \in Seq(Nat)
           /\ Decompressed(Append(runs, run)) = Decompressed(runs) \o Repeated(run)
<1> DEFINE more == Append(runs, run)
           n == Len(runs)
<1>1. /\ more \in Seq(Runs) /\ Len(more) = n + 1 /\ n \in Nat /\ more[n + 1] = run
      /\ \A i \in 1 .. n : more[i] = runs[i]
  OBVIOUS
<1>2. PICK f : Recursion(f, n, Seq(Nat), <<>>, Expanding(runs)) /\ Decompressed(runs) = f[n]
  BY DecompressedRounds
<1>3. PICK g : Recursion(g, n + 1, Seq(Nat), <<>>, Expanding(more)) /\ Decompressed(more) = g[n + 1]
  <2> HIDE DEF more
  <2> QED
    BY <1>1, DecompressedRounds
<1>4. Decompressed(<<>>) = <<>>
  <2>1. <<>> \in Seq(Runs) /\ Len(<<>>) = 0
    OBVIOUS
  <2>2. PICK h : Recursion(h, Len(<<>>), Seq(Nat), <<>>, Expanding(<<>>)) /\ Decompressed(<<>>) = h[Len(<<>>)]
    BY <2>1, DecompressedRounds
  <2> QED
    BY <2>1, <2>2 DEF Recursion
<1> HIDE DEF more, n
<1>5. f[n] = g[n]
  <2>1. ASSUME NEW i \in 1 .. n PROVE Expanding(runs)[i] = Expanding(more)[i]
    <3>1. runs[i] = more[i] /\ i \in 1 .. Len(runs) /\ i \in 1 .. Len(more)
      BY <1>1 DEF n
    <3> QED
      BY <3>1 DEF Expanding
  <2>2. n \in Nat /\ n + 1 \in Nat /\ n <= n + 1
    BY <1>1
  <2> QED
    BY <1>2, <1>3, <2>1, <2>2, SameRounds
<1>6. f[n] \in Seq(Nat) /\ g[n] \in Seq(Nat) /\ g[n + 1] = Expanding(more)[n + 1][g[n]]
  <2>1. n \in 0 .. n /\ n \in 0 .. n + 1 /\ n + 1 \in 1 .. n + 1 /\ n + 1 - 1 = n
    BY <1>1
  <2> QED
    BY <1>2, <1>3, <2>1 DEF Recursion
<1>7. Expanding(more)[n + 1][g[n]] = g[n] \o Repeated(run)
  <2>1. n + 1 \in 1 .. Len(more) /\ more[n + 1] = run
    BY <1>1
  <2> QED
    BY <1>6, <2>1 DEF Expanding
<1> QED
  BY <1>2, <1>3, <1>4, <1>5, <1>6, <1>7 DEF more

\* The rounds of compress_rle: the one after the i-th byte, and what they
\* work on.
Round(bytes, run, i) ==
    LET next == IF i > Len(bytes) THEN 0 ELSE bytes[i]
    IN  IF next # run.byte \/ i > Len(bytes)
        THEN [out |-> Append(run.out, Run(run, next)), byte |-> next, len |-> 1]
        ELSE [run EXCEPT !.len = (@ + 1) % RunMax]

Progress == [out : Seq(Runs), byte : Nat, len : Nat]
FirstRun(bytes) == [out |-> <<>>, byte |-> bytes[1], len |-> 1]
Rounds(bytes) == [i \in 1 .. Len(bytes) |-> [run \in Progress |-> Round(bytes, run, i + 1)]]

LEMMA RoundType ==
    ASSUME NEW bytes \in Seq(Nat), NEW run \in Progress, NEW i \in Nat \ {0}
    PROVE  Round(bytes, run, i) \in Progress
<1> DEFINE next == IF i > Len(bytes) THEN 0 ELSE bytes[i]
<1>1. next \in Nat
  OBVIOUS
<1>2. run.out \in Seq(Runs) /\ run.byte \in Nat /\ run.len \in Nat
  BY DEF Progress
<1> HIDE DEF next
<1>3. Run(run, next) \in Runs
  BY <1>2 DEF Run, Runs
<1>4. [out |-> Append(run.out, Run(run, next)), byte |-> next, len |-> 1] \in Progress
  <2>1. Append(run.out, Run(run, next)) \in Seq(Runs)
    BY <1>2, <1>3
  <2> QED
    BY <1>1, <2>1 DEF Progress
<1>5. [run EXCEPT !.len = (@ + 1) % RunMax] \in Progress
  <2>1. (run.len + 1) % RunMax \in Nat
    BY <1>2, CodecAssumption
  <2> QED
    BY <2>1 DEF Progress
<1> QED
  BY <1>4, <1>5 DEF Round, next

LEMMA RoundsType ==
    ASSUME NEW bytes \in Seq(Nat)
    PROVE  Rounds(bytes) \in [1 .. Len(bytes) -> [Progress -> Progress]]
<1>1. ASSUME NEW i \in 1 .. Len(bytes), NEW run \in Progress
      PROVE  Round(bytes, run, i + 1) \in Progress
  <2>1. i + 1 \in Nat \ {0}
    OBVIOUS
  <2> QED
    BY <2>1, RoundType
<1> QED
  BY <1>1 DEF Rounds

LEMMA CompressedRounds ==
    ASSUME NEW bytes \in Seq(Nat), bytes # <<>>
    PROVE  \E f : /\ Recursion(f, Len(bytes), Progress, FirstRun(bytes), Rounds(bytes))
                  /\ Compressed(bytes) = f[Len(bytes)].out
<1> DEFINE n == Len(bytes)
           D == SUBSET (1 .. n)
           base == FirstRun(bytes)
           step == Rounds(bytes)
           after == [k \in 1 .. n |-> k + 1]
           Solves(iter) ==
             iter = [s \in D |-> IF s = {} THEN base
                                 ELSE Round(bytes, iter[s \ {Max(s)}], after[Max(s)])]
           chosen == CHOOSE iter : Solves(iter)
<1>1. n \in Nat /\ DOMAIN after = 1 .. n /\ base \in Progress
  BY DEF FirstRun, Progress
<1>2. step \in [1 .. n -> [Progress -> Progress]]
  BY RoundsType
<1>3. Compressed(bytes) = chosen[1 .. n].out
  <2>1. DOMAIN [k \in 1 .. Len(bytes) |-> k + 1] = 1 .. Len(bytes)
    OBVIOUS
  <2> QED
    BY <2>1 DEF Compressed, FoldLeft, MapThenFoldSet, Round, FirstRun
<1> HIDE DEF n, step, base
<1>4. PICK iter \in [D -> Progress] : Folds(iter, n, base, step)
  BY <1>1, <1>2, FoldFound
<1>5. ASSUME NEW i \in 1 .. n, NEW run \in Progress
      PROVE  step[i][run] = Round(bytes, run, after[i])
  <2>1. i \in 1 .. Len(bytes) /\ after[i] = i + 1
    BY DEF n
  <2>2. Rounds(bytes)[i] = [r \in Progress |-> Round(bytes, r, i + 1)]
    BY <2>1 DEF Rounds
  <2> HIDE DEF after
  <2> QED
    BY <2>1, <2>2 DEF step
<1> HIDE DEF after
<1>6. Solves(iter)
  <2>1. ASSUME NEW s \in D, s # {}
        PROVE  step[Max(s)][iter[s \ {Max(s)}]]
                 = Round(bytes, iter[s \ {Max(s)}], after[Max(s)])
    <3>1. PICK m \in 1 .. n : m = Max(s)
      BY <1>1, <2>1, MaxOfIndices
    <3>2. PICK t \in D : t = s \ {m}
      OBVIOUS
    <3>3. iter[t] \in Progress
      OBVIOUS
    <3> HIDE DEF D
    <3>4. step[m][iter[t]] = Round(bytes, iter[t], after[m])
      BY <1>5, <3>3
    <3> QED
      BY <3>1, <3>2, <3>4
  <2>2. iter = [s \in D |-> IF s = {} THEN base ELSE step[Max(s)][iter[s \ {Max(s)}]]]
    BY <1>4 DEF Folds
  <2>3. ASSUME NEW s \in D
        PROVE  iter[s] = IF s = {} THEN base ELSE Round(bytes, iter[s \ {Max(s)}], after[Max(s)])
    <3>1. iter[s] = IF s = {} THEN base ELSE step[Max(s)][iter[s \ {Max(s)}]]
      BY <2>2
    <3> QED
      BY <2>1, <3>1
  <2> HIDE DEF D
  <2> QED
    BY <2>3
<1>7. Solves(chosen)
  <2> HIDE DEF Solves
  <2> QED
    BY <1>6
<1>8. PICK f : Recursion(f, n, Progress, base, step)
  BY <1>1, <1>2, RecursionSolved
<1> HIDE DEF chosen
<1> DEFINE G == {i \in 0 .. n : chosen[1 .. i] = f[i]}
<1>9. 0 \in G
  <2>1. 1 .. 0 = {} /\ {} \in D /\ f[0] = base
    BY <1>8 DEF Recursion
  <2>2. chosen[{}] = base
    BY <1>7, <2>1
  <2> QED
    BY <1>1, <2>1, <2>2
<1>10. ASSUME NEW i \in 1 .. n, i - 1 \in G PROVE i \in G
  <2>1. PICK u \in D : u = 1 .. i /\ u # {} /\ Max(u) = i /\ u \ {i} = 1 .. i - 1
    BY <1>1, LastIndex
  <2>2. chosen[u] = Round(bytes, chosen[u \ {Max(u)}], after[Max(u)])
    BY <1>7, <2>1
  <2>3. chosen[u \ {Max(u)}] = f[i - 1]
    <3>1. u \ {Max(u)} = 1 .. i - 1
      BY <2>1
    <3>2. chosen[1 .. i - 1] = f[i - 1]
      BY <1>10
    <3> QED
      BY <3>1, <3>2
  <2>4. chosen[1 .. i] = Round(bytes, f[i - 1], after[i])
    BY ONLY <2>1, <2>2, <2>3
  <2>5. i - 1 \in 0 .. n
    BY <1>1
  <2>6. f[i - 1] \in Progress /\ f[i] = step[i][f[i - 1]]
    BY <1>8, <2>5 DEF Recursion
  <2>7. step[i][f[i - 1]] = Round(bytes, f[i - 1], after[i])
    BY <1>5, <2>6
  <2> QED
    BY <2>4, <2>6, <2>7
<1> HIDE DEF G
<1>11. G = 0 .. n
  <2>1. G \in SUBSET (0 .. n)
    BY DEF G
  <2> QED
    BY <1>1, <1>9, <1>10, <2>1, UpTo
<1>12. chosen[1 .. n] = f[n]
  BY <1>1, <1>11 DEF G
<1> QED
  BY <1>3, <1>8, <1>12 DEF n, step, base

LEMMA SmallRemainder ==
    ASSUME NEW a \in Nat, NEW b \in Nat, a < b
    PROVE  a % b = a
OBVIOUS

\* After the i-th round the runs written and the one that has begun stand
\* for the first i + 1 bytes.
Begun(bytes, run, i) ==
    /\ run.byte = bytes[i + 1] /\ run.len \in 1 .. i + 1
    /\ Len(Decompressed(run.out)) + run.len = i + 1
    /\ \A k \in 1 .. i + 1 :
         bytes[k] = IF k <= Len(Decompressed(run.out)) THEN Decompressed(run.out)[k]
                                                      ELSE run.byte

\* The run-length code loses nothing of an array shorter than the largest run.
LEMMA CodeLosesNothing ==
    ASSUME NEW bytes \in Seq(Nat), Len(bytes) < RunMax
    PROVE  Decompressed(Compressed(bytes)) = bytes
<1>1. CASE bytes = <<>>
  <2>1. <<>> \in Seq(Runs) /\ <<0, 0>> \in Runs
    BY DEF Runs
  <2> QED
    BY <1>1, <2>1, DecompressedAppend DEF Compressed
<1>2. CASE bytes # <<>>
  <2> DEFINE n == Len(bytes)
  <2>1. PICK f : /\ Recursion(f, n, Progress, FirstRun(bytes), Rounds(bytes))
                 /\ Compressed(bytes) = f[n].out
    BY <1>2, CompressedRounds
  <2>2. n \in Nat /\ n >= 1 /\ n - 1 \in Nat /\ RunMax \in Nat /\ n < RunMax
        /\ \A k \in 1 .. n : bytes[k] \in Nat
    BY <1>2, CodecAssumption
  <2>3. ASSUME NEW i \in 1 .. n
        PROVE  /\ f[i - 1] \in Progress /\ f[i - 1].out \in Seq(Runs)
               /\ f[i - 1].byte \in Nat /\ f[i - 1].len \in Nat
               /\ f[i] = Round(bytes, f[i - 1], i + 1)
    <3>1. i - 1 \in 0 .. n
      BY <2>2
    <3>2. f[i - 1] \in Progress /\ f[i] = Rounds(bytes)[i][f[i - 1]]
      BY <2>1, <3>1 DEF Recursion
    <3>3. Rounds(bytes)[i] = [r \in Progress |-> Round(bytes, r, i + 1)]
      BY DEF Rounds
    <3> QED
      BY <3>2, <3>3 DEF Progress
  <2>4. f[0] = FirstRun(bytes)
    BY <2>1 DEF Recursion
  <2> HIDE DEF n
  <2> DEFINE G == {i \in 0 .. n - 1 : Begun(bytes, f[i], i)}
  <2>5. 0 \in G
    <3>1. Decompressed(<<>>) = <<>>
      <4>1. <<>> \in Seq(Runs) /\ <<0, 0>> \in Runs
        BY DEF Runs
      <4> QED
        BY <4>1, DecompressedAppend
    <3>2. Len(Decompressed(<<>>)) = 0
      BY <3>1
    <3> QED
      BY <2>2, <2>4, <3>2 DEF Begun, FirstRun
  <2>6. ASSUME NEW i \in 1 .. n - 1, i - 1 \in G PROVE i \in G
    <3>1. PICK run \in Progress : /\ run = f[i - 1] /\ run.out \in Seq(Runs)
                                  /\ run.byte \in Nat /\ run.len \in Nat
                                  /\ f[i] = Round(bytes, run, i + 1)
      BY <2>2, <2>3
    <3>2. Begun(bytes, run, i - 1) /\ i - 1 + 1 = i
      BY <2>6, <3>1
    <3>3. i + 1 <= Len(bytes) /\ bytes[i + 1] \in Nat
      BY <2>2 DEF n
    <3>4. PICK done \in Seq(Nat) : done = Decompressed(run.out)
      <4>1. <<0, 0>> \in Runs
        BY DEF Runs
      <4> QED
        BY <3>1, <4>1, DecompressedAppend
    <3>5. CASE bytes[i + 1] # run.byte
      <4> DEFINE new == [out |-> Append(run.out, <<run.len, run.byte>>), byte |-> bytes[i + 1], len |-> 1]
      <4>1. f[i] = new
        <5>1. Run(run, bytes[i + 1]) = <<run.len, run.byte>>
          BY DEF Run
        <5>2. ~(i + 1 > Len(bytes))
          BY <3>3
        <5> QED
          BY <3>1, <3>5, <5>1, <5>2 DEF Round
      <4>2. <<run.len, run.byte>> \in Runs
        BY <3>1 DEF Runs
      <4>3. Decompressed(new.out) = done \o Repeated(<<run.len, run.byte>>)
        BY <3>1, <3>4, <4>2, DecompressedAppend
      <4>4. PICK r \in Runs : r = <<run.len, run.byte>> /\ r[1] = run.len /\ r[2] = run.byte
        BY <4>2
      <4>5. PICK got \in Seq(Nat) : /\ got = Decompressed(new.out) /\ Len(got) = Len(done) + run.len
                                    /\ \A k \in 1 .. Len(done) + run.len :
                                         got[k] = IF k <= Len(done) THEN done[k] ELSE run.byte
        <5> HIDE DEF new
        <5>1. Decompressed(new.out) = done \o Repeated(r)
          BY <4>3, <4>4
        <5> QED
          BY <4>4, <5>1, Continued
      <4>7. Len(done) + run.len = i
        BY <3>2, <3>4 DEF Begun
      <4>8. ASSUME NEW k \in 1 .. i PROVE bytes[k] = got[k]
        BY <3>2, <3>4, <4>5, <4>7 DEF Begun
      <4>9. new.byte = bytes[i + 1] /\ new.len = 1
        OBVIOUS
      <4> HIDE DEF new
      <4>10. Len(got) = i
        BY <4>5, <4>7
      <4>11. Begun(bytes, new, i)
        BY <2>2, <4>5, <4>8, <4>9, <4>10 DEF Begun
      <4> QED
        BY <4>1, <4>11
    <3>6. CASE bytes[i + 1] = run.byte
      <4>1. f[i] = [run EXCEPT !.len = (run.len + 1) % RunMax]
        BY <3>1, <3>3, <3>6 DEF Round
      <4>2. run.len + 1 <= i + 1 /\ i + 1 < RunMax
        BY <2>2, <3>1, <3>2 DEF Begun
      <4>3. (run.len + 1) % RunMax = run.len + 1
        <5>1. run.len + 1 \in Nat /\ run.len + 1 < RunMax
          BY <2>2, <3>1, <4>2
        <5> HIDE DEF G
        <5> QED
          BY <2>2, <5>1, SmallRemainder
      <4>4. f[i].out = run.out /\ f[i].byte = run.byte /\ f[i].len = run.len + 1
        BY <4>1, <4>3 DEF Progress
      <4>5. Len(done) + run.len = i
        BY <3>2, <3>4 DEF Begun
      <4>6. ASSUME NEW k \in 1 .. i + 1
            PROVE  bytes[k] = IF k <= Len(done) THEN done[k] ELSE run.byte
        <5>1. k # i + 1 => k \in 1 .. i
          OBVIOUS
        <5>2. k \in 1 .. i => bytes[k] = IF k <= Len(done) THEN done[k] ELSE run.byte
          BY <3>2, <3>4 DEF Begun
        <5>3. ~(i + 1 <= Len(done))
          BY <3>1, <3>2, <3>4, <4>5 DEF Begun
        <5> QED
          BY <3>6, <5>1, <5>2, <5>3
      <4>7. run.len + 1 \in 1 .. i + 1 /\ Len(done) + (run.len + 1) = i + 1
        <5>1. PICK d \in Nat, l \in Nat : d = Len(done) /\ l = run.len
          BY <3>1
        <5>2. d + l = i /\ l + 1 <= i + 1
          BY <4>2, <4>5, <5>1
        <5>3. l + 1 \in 1 .. i + 1 /\ d + (l + 1) = i + 1
          BY ONLY <5>2, d \in Nat, l \in Nat
        <5> QED
          BY <5>1, <5>3
      <4>8. Begun(bytes, f[i], i)
        <5>1. Decompressed(f[i].out) = done /\ f[i].byte = bytes[i + 1]
          BY <3>4, <3>6, <4>4
        <5> QED
          BY <3>6, <4>4, <4>6, <4>7, <5>1 DEF Begun
      <4> QED
        BY <4>8
    <3> QED
      BY <3>5, <3>6
  <2> HIDE DEF G
  <2>7. G = 0 .. n - 1
    <3>1. G \in SUBSET (0 .. n - 1)
      BY DEF G
    <3> QED
      BY <2>2, <2>5, <2>6, <3>1, UpTo
  <2>8. PICK run \in Progress : /\ run = f[n - 1] /\ run.out \in Seq(Runs)
                                /\ run.byte \in Nat /\ run.len \in Nat
                                /\ f[n] = Round(bytes, run, n + 1) /\ Begun(bytes, run, n - 1)
    <3>1. n - 1 \in G /\ n \in 1 .. n
      BY <2>2, <2>7
    <3> QED
      BY <2>3, <3>1 DEF G
  <2>9. f[n].out = Append(run.out, <<run.len, run.byte>>)
    <3>1. n + 1 > Len(bytes)
      BY <2>2 DEF n
    <3> QED
      BY <2>8, <3>1 DEF Round, Run
  <2>10. PICK done \in Seq(Nat) : done = Decompressed(run.out)
    <3>1. <<0, 0>> \in Runs
      BY DEF Runs
    <3> QED
      BY <2>8, <3>1, DecompressedAppend
  <2>11. <<run.len, run.byte>> \in Runs
    BY <2>8 DEF Runs
  <2>12. Decompressed(f[n].out) = done \o Repeated(<<run.len, run.byte>>)
    BY <2>8, <2>9, <2>10, <2>11, DecompressedAppend
  <2>13. PICK r \in Runs : r = <<run.len, run.byte>> /\ r[1] = run.len /\ r[2] = run.byte
    BY <2>11
  <2>14. Len(done) + run.len = n /\ n - 1 + 1 = n
    BY <2>2, <2>8, <2>10 DEF Begun
  <2>15. PICK got \in Seq(Nat) : /\ got = done \o Repeated(r) /\ Len(got) = n
                                 /\ \A k \in 1 .. n :
                                      got[k] = IF k <= Len(done) THEN done[k] ELSE run.byte
    BY <2>13, <2>14, Continued
  <2>16. ASSUME NEW k \in 1 .. n PROVE got[k] = bytes[k]
    BY <2>8, <2>10, <2>14, <2>15 DEF Begun
  <2>17. got = bytes
    <3>1. Len(bytes) = n
      BY DEF n
    <3> QED
      BY <2>15, <2>16, <3>1, SeqEqual
  <2> QED
    BY <2>1, <2>12, <2>13, <2>15, <2>17
<1> QED
  BY <1>1, <1>2

----------------------------------------------------------------------------
(* What follows from it                                                    *)

\* pkt_unpack_struct reads every token for the entry it was written for,
\* whatever conditions skipped and wherever the buffer was full.
THEOREM InStepWithPacker == Spec => []InStep
<1>1. IInv => InStep
  BY DEF IInv, InStep, Types, Walk, Unpacked, Upcoming
<1> QED
  BY <1>1, Invariance, PTL

Content ==
    /\ decoded \in [DOMAIN Blank -> Seq(Nat)]
    /\ stage = "failed" => full
    /\ NoMixUp

\* A token fits its entry and gives the record's value back.
LEMMA TokenFits ==
    ASSUME IInv, stage = "unpack", upos <= Len(Desc), read < Len(wire)
    PROVE  /\ upos \in DOMAIN Desc
           /\ IsCondition(upos) => Upcoming.type = "uint"
           /\ ~IsCondition(upos) =>
                Suits(upos) /\ Value(upos) = view[Desc[upos].field]
                /\ Value(upos) \in Seq(Nat)
<1>1. upos \in DOMAIN Desc /\ read + 1 \in 1 .. Len(wire)
  BY DescriptorEntries DEF IInv, Types
<1>2. Upcoming = Token(upos)
  BY <1>1 DEF IInv, Types, Walk, Unpacked, Upcoming
<1>3. view \in Views /\ Desc[upos].field \in DOMAIN Blank
      /\ view[Desc[upos].field] \in Seq(Nat)
  BY <1>1, CodecAssumption, DescriptorEntries DEF IInv, Types
<1>4. CASE IsCondition(upos)
  BY <1>1, <1>2, <1>4 DEF Token
<1>5. CASE ~IsCondition(upos)
  <2>1. Upcoming.type = Desc[upos].type /\ Upcoming.data = Coded(upos)
    BY <1>2, <1>5 DEF Token
  <2>2. CASE Desc[upos].type = "bin"
    <3>1. Upcoming.data = Compressed(view[Desc[upos].field])
      BY <2>1, <2>2 DEF Coded
    <3>2. Len(view[Desc[upos].field]) = Desc[upos].size /\ Desc[upos].size < RunMax
      BY <1>1, <1>3, <1>5, <2>2, CodecAssumption DEF IsCondition
    <3>3. Decompressed(Upcoming.data) = view[Desc[upos].field]
      BY <1>3, <3>1, <3>2, CodeLosesNothing
    <3> QED
      BY <1>1, <1>3, <1>5, <2>1, <2>2, <3>2, <3>3 DEF Suits, Value
  <2>3. CASE Desc[upos].type # "bin"
    BY <1>1, <1>3, <1>5, <2>1, <2>3 DEF Suits, Value, Coded
  <2> QED
    BY <2>2, <2>3
<1> QED
  BY <1>1, <1>4, <1>5

LEMMA ContentInvariant == Spec => []Content
<1>1. Init => Content
  BY CodecAssumption DEF Init, Content, NoMixUp
<1>2. IInv /\ Content /\ [Next]_vars => Content'
  <2> SUFFICES ASSUME IInv, Content, [Next]_vars PROVE Content'
    OBVIOUS
  <2>1. CASE PackField \/ Overflow \/ UnpackCondition \/ Accept \/ UNCHANGED vars
    BY <2>1 DEF PackField, Overflow, UnpackCondition, Accept, vars, Content, NoMixUp
  <2>2. CASE StartUnpacking
    BY <2>2, CodecAssumption DEF StartUnpacking, Content, NoMixUp
  <2>3. CASE UnpackField
    <3>1. upos \in DOMAIN Desc /\ Value(upos) = view[Desc[upos].field] /\ Value(upos) \in Seq(Nat)
      BY <2>3, TokenFits DEF UnpackField
    <3> QED
      BY <2>3, <3>1, DescriptorEntries DEF UnpackField, Content, NoMixUp
  <2>4. CASE Reject
    <3>1. stage = "unpack" /\ upos <= Len(Desc) /\ ~(read < Len(wire))
      BY <2>4, TokenFits DEF Reject
    <3>2. full
      BY <3>1, DescriptorEntries DEF IInv, Types, Packed, Unpacked
    <3> QED
      BY <2>4, <3>2 DEF Reject, Content, NoMixUp
  <2>5. ASSUME NEW v \in Views, Start(v) PROVE Content'
    BY <2>5, CodecAssumption DEF Start, Content, NoMixUp
  <2> QED
    BY <2>1, <2>2, <2>3, <2>4, <2>5 DEF Next
<1> QED
  BY <1>1, <1>2, Invariance, PTL DEF Spec

\* No field is ever given the value of another, be the record cut off or not:
\* each token is read by its entry, and the run-length code is undone.
THEOREM NothingMixedUp == Spec => []NoMixUp
<1>1. Content => NoMixUp
  BY DEF Content
<1> QED
  BY <1>1, ContentInvariant, PTL

\* A record that fits its buffer is never refused.
THEOREM OnlyCutOffRefused == Spec => []OnlyCutOffFails
<1>1. Content => OnlyCutOffFails
  BY DEF Content, OnlyCutOffFails
<1> QED
  BY <1>1, ContentInvariant, PTL

----------------------------------------------------------------------------
(* What an accepted record holds                                           *)

\* The entries a condition leaves out when v is packed.
LeftOut(v, c) ==
    {i \in c + 1 .. c + Abs(Desc[c].skip) :
       LET val == v[Desc[c].field][1]
       IN  \/ Desc[c].skip > 0 /\ val = Desc[c].eq
           \/ Desc[c].skip < 0 /\ val # Desc[c].eq}

\* A field that is left out is blank, or another entry sends it.
Sent(v, i) == ~IsCondition(i) /\ \A c \in DOMAIN Desc : i \notin LeftOut(v, c)
Tidy ==
    \A v \in Views, i \in DOMAIN Desc :
        \/ IsCondition(i) \/ v[Desc[i].field] = Blank[Desc[i].field]
        \/ \E j \in DOMAIN Desc : Sent(v, j) /\ Desc[j].field = Desc[i].field

\* What has been read has arrived, and an accepted record has been read to
\* the end of the descriptor.
Arrived ==
    /\ \A k \in 1 .. read : LET i == wire[k].at IN
         ~IsCondition(i) => decoded[Desc[i].field] = view[Desc[i].field]
    /\ stage = "done" => Past(read) > Len(Desc)

LEMMA ArrivedInvariant == Spec => []Arrived
<1>1. Init => Arrived
  BY DEF Init, Arrived
<1>2. IInv /\ Content /\ Arrived /\ [Next]_vars => Arrived'
  <2> SUFFICES ASSUME IInv, Content, Arrived, [Next]_vars PROVE Arrived'
    OBVIOUS
  <2>1. CASE PackField
    <3>1. /\ stage = "pack" /\ stage' = "pack" /\ read' = read /\ decoded' = decoded /\ view' = view
      BY <2>1 DEF PackField
    <3>2. \A k \in 1 .. read : wire'[k] = wire[k]
      <4>1. pos \in DOMAIN Desc /\ wire \in Seq(Tokens) /\ read \in 0 .. Len(wire)
        BY <2>1, DescriptorEntries DEF PackField, IInv, Types
      <4>2. Token(pos) \in Tokens
        BY <4>1 DEF Tokens
      <4> QED
        BY <2>1, <4>1, <4>2 DEF PackField
    <3> QED
      BY <3>1, <3>2 DEF Arrived, IsCondition
  <2>2. CASE Overflow \/ Reject \/ UNCHANGED vars
    <3>1. /\ wire' = wire /\ read' = read /\ decoded' = decoded /\ view' = view
          /\ stage' = "done" => stage = "done"
      BY <2>2 DEF Overflow, Reject, vars
    <3>2. Past(read)' = Past(read)
      BY <3>1, SameRecord DEF Past
    <3> QED
      BY <3>1, <3>2 DEF Arrived, IsCondition
  <2>3. ASSUME StartUnpacking \/ \E v \in Views : Start(v) PROVE Arrived'
    <3>1. read' = 0 /\ stage' # "done"
      BY <2>3 DEF StartUnpacking, Start
    <3> QED
      BY <3>1 DEF Arrived
  <2>4. CASE Accept
    <3>1. wire' = wire /\ read' = read /\ decoded' = decoded /\ view' = view
      BY <2>4 DEF Accept
    <3>2. Past(read)' = Past(read) /\ Past(read) > Len(Desc)
      BY <2>4, <3>1, SameRecord DEF Accept, Past, IInv, Unpacked
    <3> QED
      BY <3>1, <3>2 DEF Arrived, IsCondition
  <2>5. CASE UnpackCondition \/ UnpackField
    <3>1. /\ wire' = wire /\ read' = read + 1 /\ view' = view /\ stage' = "unpack"
          /\ stage = "unpack" /\ upos <= Len(Desc) /\ read < Len(wire)
      BY <2>5 DEF UnpackCondition, UnpackField
    <3>2. wire[read + 1].at = upos /\ upos \in DOMAIN Desc /\ read \in Nat
      BY <2>5, <3>1, UnpackKeepsInv, TokenFits DEF Upcoming, IInv, Types
    <3>3. ASSUME NEW k \in 1 .. read + 1, NEW i \in DOMAIN Desc, i = wire[k].at, ~IsCondition(i)
          PROVE  decoded'[Desc[i].field] = view[Desc[i].field]
      <4>1. CASE UnpackField
        <5>1. /\ decoded' = [decoded EXCEPT ![Desc[upos].field] = Value(upos)]
              /\ Value(upos) = view[Desc[upos].field] /\ Desc[i].field \in DOMAIN decoded
          BY <3>1, <4>1, TokenFits, DescriptorEntries DEF UnpackField, Content
        <5>2. CASE k = read + 1
          BY <3>2, <3>3, <5>1, <5>2
        <5>3. CASE k # read + 1
          <6>1. k \in 1 .. read
            BY <3>2, <5>3
          <6>2. decoded[Desc[i].field] = view[Desc[i].field]
            BY <3>3, <6>1 DEF Arrived
          <6> QED
            BY <5>1, <6>2
        <5> QED
          BY <5>2, <5>3
      <4>2. CASE UnpackCondition
        <5>1. decoded' = decoded /\ IsCondition(upos)
          BY <4>2 DEF UnpackCondition
        <5>2. k # read + 1
          BY <3>2, <3>3, <5>1
        <5>3. k \in 1 .. read
          BY <3>2, <5>2
        <5> QED
          BY <3>3, <5>1, <5>3 DEF Arrived
      <4> QED
        BY <2>5, <4>1, <4>2
    <3>4. ASSUME NEW k \in 1 .. read + 1 PROVE wire[k].at \in DOMAIN Desc
      BY <3>1, <3>2, <3>4 DEF IInv, Types, Walk
    <3> QED
      BY <3>1, <3>3, <3>4 DEF Arrived, IsCondition
  <2> QED
    BY <2>1, <2>2, <2>3, <2>4, <2>5 DEF Next
<1> QED
  BY <1>1, <1>2, Invariance, ContentInvariant, PTL DEF Spec

\* Every entry behind which the walk has gone was visited or is left out by a
\* condition that was.
LEMMA Visited ==
    ASSUME IInv, NEW n \in 0 .. Len(wire), NEW i \in DOMAIN Desc, i < Past(n)
    PROVE  \E k \in 1 .. n : wire[k].at <= i /\ i < Past(k)
<1> DEFINE G == {m \in 0 .. n : i < Past(m) => \E k \in 1 .. m : wire[k].at <= i /\ i < Past(k)}
<1>1. i \in Nat /\ i >= 1 /\ n \in Nat /\ n <= Len(wire)
  BY DescriptorEntries
<1>2. 0 \in G
  BY <1>1 DEF Past
<1>3. ASSUME NEW m \in 1 .. n, m - 1 \in G PROVE m \in G
  <2>1. m \in 1 .. Len(wire)
    BY <1>1
  <2>2. wire[m].at = Past(m - 1) /\ wire[m].at \in Nat
    BY <2>1, DescriptorEntries DEF IInv, Walk
  <2>3. CASE i < Past(m - 1)
    BY <1>1, <1>3, <2>3
  <2>4. CASE wire[m].at <= i
    BY <1>1, <2>4
  <2> QED
    BY <1>1, <2>2, <2>3, <2>4
<1> HIDE DEF G
<1>4. G = 0 .. n
  <2>1. G \in SUBSET (0 .. n)
    BY DEF G
  <2> QED
    BY <1>1, <1>2, <1>3, <2>1, UpTo
<1>5. n \in G
  BY <1>1, <1>4
<1> QED
  BY <1>5 DEF G

\* An entry that the record sends has been read when the record is accepted.
LEMMA SentArrives ==
    ASSUME IInv, Arrived, stage = "done", NEW i \in DOMAIN Desc, Sent(view, i)
    PROVE  decoded[Desc[i].field] = view[Desc[i].field]
<1>1. i < Past(read) /\ read \in 0 .. Len(wire)
  <2>1. read \in 0 .. Len(wire) /\ Len(Desc) < Past(read) /\ i <= Len(Desc)
    BY DescriptorEntries DEF Arrived, IInv, Types
  <2>2. read # 0 => wire[read].at \in DOMAIN Desc
    BY <2>1 DEF IInv, Types, Walk
  <2>3. Past(read) \in Int
    BY <2>2, GoesAhead, DescriptorEntries DEF Past
  <2> QED
    BY <2>1, <2>3, DescriptorEntries
<1>2. PICK k \in 1 .. read : wire[k].at <= i /\ i < Past(k)
  BY <1>1, Visited
<1>3. PICK c \in DOMAIN Desc : c = wire[k].at /\ c <= i /\ i < Behind(c)
  BY <1>1, <1>2 DEF IInv, Types, Walk, Past
<1>4. c = i
  <2> SUFFICES ASSUME c < i PROVE FALSE
    BY <1>3, DescriptorEntries
  <2>1. c \in Int /\ i \in Int /\ Abs(Desc[c].skip) \in Nat
    BY DescriptorEntries
  <2>2. IsCondition(c) /\ Skipped(c) # 0 /\ i <= c + Skipped(c)
    BY <1>3, <2>1 DEF Behind, Skipped
  <2>3. i \in LeftOut(view, c)
    BY <2>1, <2>2 DEF Skipped, LeftOut
  <2> QED
    BY <2>3 DEF Sent
<1>5. ~IsCondition(i) /\ k \in 1 .. read /\ wire[k].at = i
  BY <1>2, <1>3, <1>4 DEF Sent
<1> QED
  BY <1>5 DEF Arrived

\* If the conditions of a descriptor leave out what is blank only, an accepted
\* record arrives as it was built.
THEOREM AcceptedIsWhole ==
    ASSUME Tidy
    PROVE  Spec => []WholeViewArrives
<1>1. IInv /\ Content /\ Arrived => WholeViewArrives
  <2> SUFFICES ASSUME IInv, Content, Arrived, stage = "done",
                      NEW i \in DOMAIN Desc, ~IsCondition(i)
               PROVE  decoded[Desc[i].field] = view[Desc[i].field]
    BY DEF WholeViewArrives
  <2>1. view \in Views /\ Desc[i].field \in DOMAIN Blank
    BY DescriptorEntries DEF IInv, Types
  <2>2. CASE view[Desc[i].field] = Blank[Desc[i].field]
    BY <2>1, <2>2 DEF Content, NoMixUp
  <2>3. CASE view[Desc[i].field] # Blank[Desc[i].field]
    <3>1. PICK j \in DOMAIN Desc : Sent(view, j) /\ Desc[j].field = Desc[i].field
      BY <2>1, <2>3 DEF Tidy
    <3> QED
      BY <3>1, SentArrives
  <2> QED
    BY <2>2, <2>3
<1> QED
  BY <1>1, Invariance, ContentInvariant, ArrivedInvariant, PTL
=============================================================================
