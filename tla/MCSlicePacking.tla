--------------------------- MODULE MCSlicePacking ---------------------------
(* Small instances of SlicePacking for TLC. *)
EXTENDS SlicePacking, TLC

CONSTANT Names

MCFamilyOf == [a \in Addresses |-> IF a < 10 THEN 4 ELSE 6]

MCLists == UNION {[S -> [ports : PortTuples, cond : Conditions]] : S \in SUBSET Addresses}

(* Every slice holds addresses of its own family, in any number.  They are *)
(* ready at first: their conditions follow the list from the first plan on.*)
MCSlices(family) ==
    {[group |-> [family |-> family, ports |-> p], listed |-> TRUE, eps |-> e] :
        p \in PortTuples,
        e \in UNION {[S -> {"ready"}] :
                 S \in (SUBSET {a \in Addresses : MCFamilyOf[a] = family}) \ {{}}}}

MCLayoutsOf(family) ==
    UNION {[N -> MCSlices(family)] : N \in SUBSET {n \in Names : n[1] = family}}

MCLayouts == {f @@ g : f \in MCLayoutsOf(4), g \in MCLayoutsOf(6)}

MCNames == {<<4, 0>>, <<4, 2>>, <<6, 0>>}
=============================================================================
