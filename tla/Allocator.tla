----------------------------- MODULE Allocator -----------------------------
(***************************************************************************)
(* What a dynamic allocator promises its callers, whatever lists it is     *)
(* built from: every allocation is a set of cells of its own, at least as  *)
(* large as was asked for, that only its owner shrinks or gives back.      *)
(***************************************************************************)
EXTENDS Naturals, FiniteSets

CONSTANT Cells   \* the memory

VARIABLE allocated   \* pointer -> [cells, size asked for]

Init == allocated = << >>

Fits(block) == Cardinality(block.cells) >= block.size

Others(p) == UNION {allocated[q].cells : q \in DOMAIN allocated \ {p}}

Allocate(p) ==
    /\ p \notin DOMAIN allocated
    /\ DOMAIN allocated' = DOMAIN allocated \cup {p}
    /\ \A q \in DOMAIN allocated : allocated'[q] = allocated[q]
    /\ Fits(allocated'[p])
    /\ allocated'[p].cells \subseteq Cells \ Others(p)

Shrink(p) ==
    /\ DOMAIN allocated' = DOMAIN allocated
    /\ \A q \in DOMAIN allocated \ {p} : allocated'[q] = allocated[q]
    /\ Fits(allocated'[p])
    /\ allocated'[p].cells \subseteq allocated[p].cells

Free(p) == allocated' = [q \in DOMAIN allocated \ {p} |-> allocated[q]]

Next ==
    \/ \E p \in Cells \ DOMAIN allocated : Allocate(p)
    \/ \E p \in DOMAIN allocated : Shrink(p) \/ Free(p)

Spec == Init /\ [][Next]_allocated
=============================================================================
