--------------------------- MODULE MCHandleTable ----------------------------
(* Instances of HandleTable for TLC. *)
EXTENDS HandleTable, TLC

CONSTANTS a, b

OnePath == {a}
TwoPaths == {a, b}
\* The second session may have one descriptor, opens files for reading only,
\* and never gets far in one.
AllNums == [s \in Sessions |-> Nums]
FewNums == [s \in Sessions |-> IF s = 1 THEN Nums ELSE {1}]
AllPositions == [s \in Sessions |-> Positions]
FewPositions == [s \in Sessions |-> IF s = 1 THEN Positions ELSE {0}]
FewAccesses == [s \in Sessions |-> IF s = 1 THEN {"WRONLY", "RDWR"} ELSE {"RDONLY"}]
OneUser == [s \in Sessions |-> "bob"]
==============================================================================
