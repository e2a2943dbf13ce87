------------------------------- MODULE MCRoffs -------------------------------
(* Roffs in two sectors behind the first one, which is not the file system's. *)
EXTENDS Roffs

CONSTANTS n1, n2, s1

MCNames == {n1, n2, s1}

\* s1 is n1 with a '/' in front.
MCStrip == [n \in MCNames |-> IF n = s1 THEN n1 ELSE n]

\* The connections are alike to the code.
Symmetry == Permutations(Conns)
=============================================================================
