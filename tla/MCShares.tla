------------------------------ MODULE MCShares ------------------------------
(* An instance of Shares for TLC. *)
EXTENDS Shares

\* A user without a limit, one with, and one who by-passes GlobalDownload.
Users == {[download |-> 0, bypass |-> FALSE], [download |-> 4, bypass |-> FALSE],
          [download |-> 4, bypass |-> TRUE]}
=============================================================================
