---------------------------- MODULE MCPublication ----------------------------
EXTENDS Publication, TLC

CONSTANTS x, v1, v2, main, side, p1, p2

\* x = x is provable whatever x is bound to.
MCFormulas == {<<x, x>>}
MCNorm == [e \in Symbols \cup Values |-> e]

\* Publishers and values are interchangeable.
Symmetry == Permutations(Publishers) \cup Permutations(Values)
=============================================================================
