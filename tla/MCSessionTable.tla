--------------------------- MODULE MCSessionTable ---------------------------
(* Instances of SessionTable for TLC: one user, at one address or at two. *)
EXTENDS SessionTable

CONSTANTS c1, c2

TwoProcs == {c1, c2}
NoProc == {}
OneAdmin == {c2}
OneUser == [p \in TwoProcs |-> "bob"]
OneIp == [p \in TwoProcs |-> "ip1"]
TwoIps == [p \in TwoProcs |-> IF p = c1 THEN "ip1" ELSE "ip2"]
=============================================================================
