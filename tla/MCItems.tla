------------------------------ MODULE MCItems ------------------------------
(* Small instances of Items for TLC. *)
EXTENDS ItemsRefinement, TLC

CONSTANTS p1, p2, box1, e1, e2, e3, e4, e5, wood, tool

\* A kind that can be placed, and one that cannot.
MaxTwoKinds == (wood :> 3 @@ tool :> 1)

\* One kind, as in the runs that look at quantities only.
MaxOneKind == (wood :> 3)

Modifiers == {<<FALSE, FALSE>>, <<TRUE, FALSE>>, <<FALSE, TRUE>>}


\* A client that drops the selected stack, whole or in part.
Drops == {[Idle(1) EXCEPT !.drop = TRUE, !.slot = s, !.storage = b,
                          !.sprint = m[1], !.ctrl = m[2]] :
             s \in Slot, b \in BOOLEAN, m \in Modifiers}

\* A client that drags a stack, within an array or across.
SwapsWith(M) ==
    {[Idle(1) EXCEPT !.swap = TRUE, !.from = s, !.to = t, !.storage = b,
                     !.toStorage = x, !.sprint = m[1], !.ctrl = m[2]] :
        s \in Slot, t \in Slot, b \in BOOLEAN, x \in BOOLEAN, m \in M}

Uses == {[Idle(1) EXCEPT !.places = n, !.slot = s, !.deletion = d, !.use = u] :
            n \in 0 .. 2, s \in Slot, d \in BOOLEAN, u \in BOOLEAN}

Opens == {[Idle(1) EXCEPT !.pick = TRUE]}

\* One activator per key state; SPRINT is not held while dragging.
GentleInputs == Drops \cup SwapsWith(Modifiers \ {<<TRUE, FALSE>>}) \cup Uses \cup Opens

\* One activator per key state.
SingleInputs == Drops \cup SwapsWith(Modifiers) \cup Uses \cup Opens

\* Dropping and dragging without SPRINT.
PlainDrags == {m \in GentleInputs : ~m.sprint /\ (m.drop \/ m.swap \/ m.pick)}

\* Two players at one chest: drags across, with or without CTRL.
SharedInputs ==
    {m \in SwapsWith({<<FALSE, FALSE>>, <<FALSE, TRUE>>}) : m.toStorage}
    \cup Opens

Entities == Permutations(Ent)

EntitiesAndPlayers == Permutations(Ent) \cup Permutations(Player)
=============================================================================
