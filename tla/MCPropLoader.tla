----------------------------- MODULE MCPropLoader -----------------------------
EXTENDS PropLoader, TLC
MCSegments == [m \in Modes |-> IF m = "ddoff" THEN 2 ELSE 1]
Symmetry == Permutations(Cells)
===============================================================================
