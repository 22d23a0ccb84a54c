----------------------------- MODULE MCFactory -----------------------------
(* Small instances of Factory for TLC. *)
EXTENDS Factory, TLC

CONSTANTS bench, furnace, assembler, p1, p2, ore, plate, screw, coal

\* A craft bench that knows two products, one a reagent of the other.
BenchAsset == (bench :> "CRAFTBENCH")
BenchFilter == (bench :> "none")
BenchRecipes ==
    <<[product |-> screw, ticks |-> 2, producer |-> "CRAFTBENCH",
       needs |-> (plate :> 1 @@ screw :> 0)],
      [product |-> plate, ticks |-> 1, producer |-> "CRAFTBENCH",
       needs |-> (plate :> 1 @@ screw :> 2)]>>
NoFuel == (plate :> Nothing @@ screw :> Nothing)
BenchSupply == [kind : {plate, screw}, qty : {1, 2}]
BenchCapacity == (bench :> 4)
BenchSites == (bench :> {})

\* An automatic furnace beside an assembler of the same table, which stands
\* empty and alone: only its asset matters.
LineAsset == (furnace :> "FURNACE" @@ assembler :> "ASSEMBLER")
LineFilter == (furnace :> "any" @@ assembler :> "product")
LineRecipes ==
    <<[product |-> plate, ticks |-> 2, producer |-> "FURNACE",
       needs |-> (ore :> 1 @@ plate :> 0 @@ coal :> 0)]>>
Coal == (ore :> Nothing @@ plate :> Nothing @@ coal :> "FURNACE")
LineSupply == {[kind |-> ore, qty |-> 1], [kind |-> ore, qty |-> 2],
               [kind |-> plate, qty |-> 2], [kind |-> coal, qty |-> 1]}
LineCapacity == (furnace :> 4 @@ assembler :> 0)
LineSites == (furnace :> {0, 2} @@ assembler :> {})
=============================================================================
