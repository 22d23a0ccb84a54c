-------------------------- MODULE ItemsRefinement --------------------------
(***************************************************************************)
(* Items implements ItemLedger.  The place of a stack is not a variable of *)
(* the code: it is read off the slots, the visibility and the ECS.         *)
(***************************************************************************)
EXTENDS Items

CONSTANTS Nowhere, World, Gone

ASSUME PlacesAssumption ==
    /\ Nowhere # World /\ Nowhere # Gone /\ World # Gone
    /\ {Nowhere, World, Gone} \cap Cell = {}

Somewhere(e) ==
    CASE e \notin Existing                -> Nowhere
      [] e \in Existing /\ shown[e]       -> World
      [] e \in Existing /\ ~shown[e]      ->
             IF \E c \in Cell : held[c] = e
             THEN CHOOSE c \in Cell : held[c] = e
             ELSE Gone

Place == [e \in Ent |-> Somewhere(e)]
Sort == [e \in Ent |-> IF e \in Existing THEN kind[e] ELSE CHOOSE k \in Kind : TRUE]
Amount == [e \in Ent |-> IF e \in Existing THEN qty[e] ELSE 0]

Ledger == INSTANCE ItemLedger WITH
    Quantity <- 1 .. Wrap - 1, place <- Place, sort <- Sort, amount <- Amount

\* Every step of every system is one entry of the ledger or none: no system
\* stops half-way through a move, no unit is in two places or in none, and
\* only a departure puts a stack out of reach.
ImplementsLedger == Ledger!LedgerSpec
=============================================================================
