------------------------------ MODULE Exchange ------------------------------
(***************************************************************************)
(* What a client sees of the request stream: every request is served once, *)
(* in the order in which it was sent and in the mode its predecessors have *)
(* set; its answers come back in the same order. The session ends when the *)
(* client goes away or sends a request that is too long. After a request   *)
(* that is not sound, what is served may be no request of the client.      *)
(***************************************************************************)
EXTENDS Packets, Sequences

CONSTANT Rights  \* "no", "simple" or "full": what an INIT for administration gives

VARIABLES
  asked,         \* the requests sent
  served,        \* how each of the first ones was served, in order
  mode,          \* what the next request will meet
  lost,          \* what is served next need not be a request
  seen,          \* how many answers the client has
  state          \* "up", "gone" when the client has left, "over"

vars == <<asked, served, mode, lost, seen, state>>

\* The kinds of request that each mode understands.
Known == [init   |-> {"init", "manager"},
          sftp   |-> {"open", "close", "file"},
          simple |-> {"manage"},
          full   |-> {"manage", "configure"}]

Init ==
  /\ asked = <<>> /\ served = <<>> /\ mode = "init" /\ lost = FALSE /\ seen = 0
  /\ state = "up"

Ask ==
  /\ state = "up"
  /\ \E r \in Requests : asked' = Append(asked, r)
  /\ UNCHANGED <<served, mode, lost, seen, state>>

Oldest == asked[Len(served) + 1]

\* Without a body, the type is a byte of what follows.
Kinds == IF Oldest.sent = 0 THEN AllKinds ELSE {Oldest.kind}

Serve ==
  /\ state # "over" /\ ~lost
  /\ Len(served) < Len(asked)
  /\ Signed(Oldest.len) <= Longest
  /\ \E kind \in Kinds :
       \/ /\ kind \in Known[mode]
          /\ served' = Append(served, mode)
          /\ mode' = IF mode # "init" THEN mode
                     ELSE IF kind = "manager" /\ Rights # "no" THEN Rights
                     ELSE "sftp"
       \/ /\ kind \notin Known[mode]
          /\ served' = Append(served, "unsupported")
          /\ UNCHANGED mode
  /\ lost' \in BOOLEAN /\ (Sound(Oldest) => ~lost')
  /\ UNCHANGED <<asked, seen, state>>

Astray ==
  /\ state # "over" /\ lost
  /\ \E how \in DOMAIN Known \cup {"unsupported"} : served' = Append(served, how)
  /\ mode' \in DOMAIN Known
  /\ UNCHANGED <<asked, lost, seen, state>>

See ==
  /\ state = "up"
  /\ seen' \in seen + 1 .. Len(served)
  /\ UNCHANGED <<asked, served, mode, lost, state>>

Leave ==
  /\ state = "up"
  /\ state' = "gone"
  /\ UNCHANGED <<asked, served, mode, lost, seen>>

End ==
  /\ \/ state = "gone"
     \/ state = "up" /\ lost
     \/ state = "up" /\ Len(served) < Len(asked) /\ Signed(Oldest.len) > Longest
  /\ state' = "over"
  /\ UNCHANGED <<asked, served, mode, lost, seen>>

Spec == Init /\ [][Ask \/ Serve \/ Astray \/ See \/ Leave \/ End]_vars
=============================================================================
