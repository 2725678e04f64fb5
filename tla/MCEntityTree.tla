---------------------------- MODULE MCEntityTree ----------------------------
(* Small instances of EntityTree: three or four entities.                  *)
EXTENDS EntityTree, TLC

CONSTANTS e1, e2, e3, e4, o1

\* Entities are interchangeable.
Four == Permutations({e1, e2, e3, e4})
=============================================================================
