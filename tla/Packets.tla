------------------------------ MODULE Packets -------------------------------
(***************************************************************************)
(* Requests: what a client announces, what it sends, and what the handler  *)
(* of DoSFTPProtocol reads of it. A length is an unsigned number of 32     *)
(* bits, which the code keeps in an int.                                   *)
(***************************************************************************)
EXTENDS Naturals

CONSTANTS
  Requests,     \* the requests a client may send
  Half,         \* 2^31: unsigned lengths from there on are negative as an int
  Longest       \* 256 * 1024 in the code

AllKinds == {"init", "manager", "open", "close", "file", "manage", "configure"}

\* len is what the head announces, sent the bytes that follow it, needs the
\* most that a handler reads of them (the type, the fields and the strings, as
\* long as they say they are).
ASSUME RequestsAssumption ==
  /\ Half \in Nat /\ Longest \in Nat \ {0} /\ Longest < Half
  /\ Requests \subseteq [kind : AllKinds, len : 0 .. 2 * Half - 1, sent : Nat, needs : Nat \ {0}]

\* The value of an unsigned length as an int.
Signed(n) == IF n >= Half THEN n - 2 * Half ELSE n

\* A request of the protocol: as long as announced, and its handler reads no
\* more than that.
Sound(r) == r.sent = r.len /\ r.len < Half /\ r.needs <= r.len
=============================================================================
