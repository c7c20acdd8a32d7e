------------------------------ MODULE MCSession ------------------------------
EXTENDS Session
CONSTANTS x, y, a, a2
MCSymbols == {x, y}
MCValues == {a, a2}
MCFormulas == {<<x, a>>, <<x, x>>}
MCAssignable == {<<x, a>>, <<x, a2>>, <<y, a>>}
MCNorm == [e \in {x, y, a, a2} |-> IF e = a2 THEN a ELSE e]
=============================================================================
