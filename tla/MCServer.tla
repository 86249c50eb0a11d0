------------------------------ MODULE MCServer ------------------------------
(***************************************************************************)
(* Three connections, two of them of administrators, on a table of two     *)
(* slots.                                                                  *)
(***************************************************************************)
EXTENDS Server, TLC

CONSTANTS u, a, b

AllProcs == {u, a, b}
AllAdmins == {a, b}
AllNodes == 1 .. 4
AllSegs == 2 .. 5
Alike == Permutations(AllAdmins)
=============================================================================
