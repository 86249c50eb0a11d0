----------------------------- MODULE OpenObjects -----------------------------
(***************************************************************************)
(* What a client may rely on when it opens files and directories: a name   *)
(* (a "handle" of the SFTP protocol) is given for one open object, stands  *)
(* for that object until the client closes it or its session goes away,    *)
(* and is then free again. Nothing is opened for a session that is ending. *)
(***************************************************************************)
CONSTANTS
  Sessions,
  Names,     \* the handles a client can be given
  Objects,   \* what can be open
  Nothing    \* what a handle not in use stands for

VARIABLES
  named,     \* what each handle of each session stands for
  ending     \* the sessions that no longer serve requests

Free == [n \in Names |-> Nothing]

Init ==
  /\ named = [s \in Sessions |-> Free]
  /\ ending = {}

Open(s) ==
  /\ s \notin ending
  /\ \E n \in Names, o \in Objects :
       named[s][n] = Nothing /\ named' = [named EXCEPT ![s][n] = o]
  /\ UNCHANGED ending

\* By the client, or by the session that ends.
Close(s) ==
  /\ \E n \in Names :
       named[s][n] # Nothing /\ named' = [named EXCEPT ![s][n] = Nothing]
  /\ UNCHANGED ending

End(s) ==
  /\ ending' = ending \cup {s}
  /\ UNCHANGED named

\* The process dies: everything it had open goes at once.
Vanish(s) ==
  /\ named' = [named EXCEPT ![s] = Free]
  /\ ending' = ending \cup {s}

Next == \E s \in Sessions : Open(s) \/ Close(s) \/ End(s) \/ Vanish(s)

Spec == Init /\ [][Next]_<<named, ending>>
==============================================================================
