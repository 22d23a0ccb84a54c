---------------------------- MODULE ItemLedger ----------------------------
(***************************************************************************)
(* What the item systems promise their players, without frames, staging,   *)
(* slot arrays or visibility: every stack is in exactly one place, and     *)
(* each thing a player or a machine does is one indivisible entry of a     *)
(* ledger.  Items.tla implements this specification, the place of a stack  *)
(* being computed from the slots that refer to it.                         *)
(***************************************************************************)
EXTENDS Integers, FiniteSets

CONSTANTS Ent, Cell, Kind, Player, Quantity, Nowhere, World, Gone

VARIABLES place,    \* [Ent -> Cell \cup {Nowhere, World, Gone}]
          sort,     \* the kind of the stack
          amount    \* its units

ledger == <<place, sort, amount>>

Blank == CHOOSE k \in Kind : TRUE

Exists(e) == place[e] # Nowhere
Empty(c) == \A e \in Ent : place[e] # c

\* New stacks, each of a kind of its own, appear in the world at once.
Create(S, kinds, q) ==
    /\ \A e \in S : ~Exists(e)
    /\ place'  = [e \in Ent |-> IF e \in S THEN World ELSE place[e]]
    /\ sort'   = [e \in Ent |-> IF e \in S THEN kinds[e] ELSE sort[e]]
    /\ amount' = [e \in Ent |-> IF e \in S THEN q ELSE amount[e]]

\* A stack goes from the world to an empty cell, from a cell to the world, or
\* from a cell to an empty cell.
Move(e, to) ==
    /\ Exists(e) /\ place[e] # Gone
    /\ to = World \/ Empty(to)
    /\ place' = [place EXCEPT ![e] = to]
    /\ UNCHANGED <<sort, amount>>

\* The stacks of two cells change places.
Exchange(e, f) ==
    /\ place[e] \in Cell /\ place[f] \in Cell
    /\ place' = [place EXCEPT ![e] = place[f], ![f] = place[e]]
    /\ UNCHANGED <<sort, amount>>

\* n units of stack a join stack b of the same kind; an emptied stack is gone.
Transfer(a, b, n) ==
    /\ Exists(a) /\ Exists(b) /\ a # b /\ sort[a] = sort[b]
    /\ n \in 1 .. amount[a]
    /\ amount' = [amount EXCEPT ![a] = @ - n, ![b] = @ + n]
    /\ place' = [place EXCEPT ![a] = IF n = amount[a] THEN Nowhere ELSE @]
    /\ sort' = [sort EXCEPT ![a] = IF n = amount[a] THEN Blank ELSE @]

\* n units of stack a, and not all of them, become the new stack b.  Either b
\* goes to an empty cell, or b keeps a's cell and a goes into the world.
Divide(a, b, n) ==
    /\ Exists(a) /\ ~Exists(b)
    /\ n \in 1 .. amount[a] - 1
    /\ amount' = [amount EXCEPT ![a] = @ - n, ![b] = n]
    /\ sort' = [sort EXCEPT ![b] = sort[a]]
    /\ \/ \E c \in Cell : Empty(c) /\ place' = [place EXCEPT ![b] = c]
       \/ place[a] \in Cell /\ place' = [place EXCEPT ![b] = place[a], ![a] = World]

\* n units are built into the world; what is used up is gone.
Consume(e, n) ==
    /\ place[e] \in Cell
    /\ n \in 1 .. amount[e]
    /\ amount' = [amount EXCEPT ![e] = @ - n]
    /\ place' = [place EXCEPT ![e] = IF n = amount[e] THEN Nowhere ELSE @]
    /\ sort' = [sort EXCEPT ![e] = IF n = amount[e] THEN Blank ELSE @]

\* A player leaves and takes what he holds with him.
Depart(p) ==
    /\ place' = [e \in Ent |-> IF \E c \in Cell : place[e] = c /\ c[1] = p
                               THEN Gone ELSE place[e]]
    /\ UNCHANGED <<sort, amount>>

LedgerInit == /\ place = [e \in Ent |-> Nowhere]
              /\ sort = [e \in Ent |-> Blank]
              /\ amount = [e \in Ent |-> 0]

LedgerNext ==
    \/ \E S \in SUBSET Ent : \E kinds \in [S -> Kind], q \in Quantity : Create(S, kinds, q)
    \/ \E e \in Ent, to \in Cell \cup {World} : Move(e, to)
    \/ \E a, b \in Ent : \/ Exchange(a, b)
                         \/ \E n \in Quantity : Transfer(a, b, n) \/ Divide(a, b, n)
    \/ \E e \in Ent, n \in Quantity : Consume(e, n)
    \/ \E p \in Player : Depart(p)

LedgerSpec == LedgerInit /\ [][LedgerNext]_ledger
=============================================================================
