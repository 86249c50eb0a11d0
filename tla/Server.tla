------------------------------- MODULE Server -------------------------------
(***************************************************************************)
(* The server as a whole, from outside its sessions: connections that read *)
(* the configuration (ConfigFile), join a shared memory segment, and serve *)
(* if the server is up; administrators that stop and start it, kill        *)
(* sessions and replace the configuration; and the tools sftp-state,       *)
(* sftp-kill and sftp-who.                                                 *)
(*                                                                         *)
(* The processes know of each other by the segment that the same key leads *)
(* them to, by signals to the pids found there, and by the existence of    *)
(* the shutdown file.  Taking and emptying a slot is one step each here:   *)
(* SessionTable looks at them store by store.                              *)
(***************************************************************************)
EXTENDS ConfigFile, FiniteSets, Sequences

CONSTANTS
  Segs,    \* the segments there may be at a time, numbered
  NKeys,   \* keys a connection tries beyond the first
  NSlots   \* SFTPWHO_MAXCLIENT

ASSUME SegsAssumption == Segs \subseteq Nat \ {0, 1}
ASSUME KeysAssumption == NKeys \in Nat
ASSUME SlotsAssumption == NSlots \in Nat \ {0}

VARIABLES
  at,      \* the segment each key leads to, NoSeg if none
  slots,   \* in each segment, what the slot of each process shows
  seg,     \* the segment a process has attached
  key,     \* the key a joining process tries
  hup,     \* processes that must shut down
  shut,    \* the shutdown file exists
  tool,    \* where the operator's sftp-state is
  target,  \* the segment it killed in
  woken,   \* history: it was removed since the sftp-state that runs made it
  split    \* history: what parts sessions by the code's own doing

segVars == <<at, slots, seg, key>>
toolVars == <<tool, target>>
stateVars == <<shut, woken>>
vars == <<fileVars, readVars, pc, segVars, hup, toolVars, stateVars, split>>

NoSeg == 0
Foreign == 1                \* a segment of another size, left by another build
Keys == 0 .. NKeys
Joining == {"join", "create", "erase", "claim", "fill", "test", "enter"}
Serving == {"serve", "admin"} \cup {"backed", "created", "failed"}
Live == Joining \cup Serving

\* Mutation of Then: the shutdown file is looked for before the process has
\* registered.
ThenTestFirst == [read |-> "test", filled |-> "enter", tested |-> "join"]

\* The order in which main() goes about it.
Then == [read |-> "join", filled |-> "test", tested |-> "enter"]

TypeOK ==
  /\ FilesTypeOK
  /\ pc \in [Procs -> {"out", "gone"} \cup Live]
  /\ at \in [Keys -> Segs \cup {NoSeg, Foreign}]
  /\ slots \in [Segs -> [Procs -> {"empty", "fresh", "filled"}]]
  /\ seg \in [Procs -> Segs \cup {NoSeg}]
  /\ key \in [Procs -> Keys]
  /\ hup \subseteq Procs
  /\ shut \in BOOLEAN /\ woken \in BOOLEAN
  /\ tool \in {"idle", "who", "kill", "blind", "delete"}
  /\ target \in Segs \cup {NoSeg}
  /\ split \subseteq {"raced", "removed"}

Init ==
  /\ FilesInit
  /\ pc = [p \in Procs |-> "out"]
  /\ \E old \in {NoSeg, Foreign} :
       at = [k \in Keys |-> IF k = 0 THEN old ELSE NoSeg]
  /\ slots = [s \in Segs |-> [p \in Procs |-> "empty"]]
  /\ seg = [p \in Procs |-> NoSeg]
  /\ key = [p \in Procs |-> 0]
  /\ hup = {}
  /\ shut = FALSE /\ woken = FALSE
  /\ tool = "idle" /\ target = NoSeg
  /\ split = {}

-----------------------------------------------------------------------------
(* SftpWhoGetStruct: joining a segment                                     *)

Occupied(s) == {p \in Procs : slots[s][p] # "empty"}

\* Nobody has refreshed the slot for a minute: its process is gone, or busy.
\* A slot that is not filled yet has not been refreshed since 1970.
MayBeStale(s) == {p \in Occupied(s) : pc[p] \in {"serve", "gone"}}
Fresh(s) == {p \in Procs : slots[s][p] = "fresh"}

\* SftpWhoCleanBuggedClient on segment s, which finds those in old stale.
Cleaned(s, old) ==
  [slots EXCEPT ![s] = [p \in Procs |-> IF p \in old \cup Fresh(s) THEN "empty" ELSE @[p]]]

Emptied(p) ==
  IF seg[p] = NoSeg THEN slots ELSE [slots EXCEPT ![seg[p]][p] = "empty"]

\* The process ends.
Ends(p) ==
  /\ Goto(p, "gone")
  /\ seg' = [seg EXCEPT ![p] = NoSeg]
  /\ key' = [key EXCEPT ![p] = 0]
  /\ hup' = hup \ {p}
  /\ cfg' = [cfg EXCEPT ![p] = "unread"]
  /\ admin' = [admin EXCEPT ![p] = FALSE]

\* Mutation of NextKey: one key too many.
NextKeyOneMore(p) ==
  IF key[p] <= NKeys
  THEN /\ Goto(p, "join") /\ key' = [key EXCEPT ![p] = @ + 1]
       /\ UNCHANGED <<seg, hup, readVars>>
  ELSE Ends(p)

\* The key leads elsewhere, to a segment of another size or one that came up
\* just now: the next one. After the last the process has no slot and ends.
NextKey(p) ==
  IF key[p] < NKeys
  THEN /\ Goto(p, "join") /\ key' = [key EXCEPT ![p] = @ + 1]
       /\ UNCHANGED <<seg, hup, readVars>>
  ELSE Ends(p)

\* The segment is there: it is cleaned, unless the process has tried to create
\* one under an earlier key. Then eraze is still set, and it will be erased.
AttachSegment(p, s) ==
  /\ seg' = [seg EXCEPT ![p] = s]
  /\ key' = [key EXCEPT ![p] = 0]
  /\ \/ /\ key[p] = 0
        /\ \E old \in SUBSET MayBeStale(s) : slots' = Cleaned(s, old)
        /\ Goto(p, "claim")
     \/ /\ key[p] > 0
        /\ Goto(p, "erase") /\ UNCHANGED slots
  /\ UNCHANGED <<at, readVars, hup>>

\* Mutation of FindSegment: a full table is left for the next key.
FindSegmentFree(p) ==
  /\ pc[p] = "join"
  /\ LET s == at[key[p]] IN
     \/ /\ s = NoSeg
        /\ Goto(p, "create")
        /\ UNCHANGED <<segVars, readVars, hup>>
     \/ /\ s = Foreign \/ (s \in Segs /\ Cardinality(Occupied(s)) >= NSlots)
        /\ NextKey(p)
        /\ UNCHANGED <<at, slots>>
     \/ /\ s \in Segs /\ Cardinality(Occupied(s)) < NSlots
        /\ AttachSegment(p, s)
  /\ UNCHANGED <<fileVars, toolVars, stateVars, split>>

\* shmget(key, size, 0)
FindSegment(p) ==
  /\ pc[p] = "join"
  /\ LET s == at[key[p]] IN
     \/ /\ s = NoSeg
        /\ Goto(p, "create")
        /\ UNCHANGED <<segVars, readVars, hup>>
     \/ /\ s = Foreign
        /\ NextKey(p)
        /\ UNCHANGED <<at, slots>>
     \/ /\ s \in Segs
        /\ AttachSegment(p, s)
  /\ UNCHANGED <<fileVars, toolVars, stateVars, split>>

\* A segment no key leads to and no process has attached; the least.
FreeSeg(s) == (\A k \in Keys : at[k] # s) /\ (\A p \in Procs : seg[p] # s)
NewSeg(s) == FreeSeg(s) /\ \A m \in Segs : m < s => ~FreeSeg(m)

\* shmget(key, size, IPC_CREAT | IPC_EXCL): another process may have come
\* first since this one found nothing.
CreateSegment(p) ==
  /\ pc[p] = "create"
  /\ IF at[key[p]] = NoSeg
     THEN \E s \in Segs :
            /\ NewSeg(s)
            /\ at' = [at EXCEPT ![key[p]] = s]
            /\ slots' = [slots EXCEPT ![s] = [q \in Procs |-> "empty"]]
            /\ seg' = [seg EXCEPT ![p] = s]
            /\ key' = [key EXCEPT ![p] = 0]
            /\ Goto(p, "erase")
            /\ UNCHANGED <<split, readVars, hup>>
     ELSE /\ NextKey(p)
          /\ split' = split \cup {"raced"}
          /\ UNCHANGED <<at, slots>>
  /\ UNCHANGED <<fileVars, toolVars, stateVars>>

\* memset of the whole segment: whoever attached it meanwhile loses its slot.
EraseSegment(p) ==
  /\ pc[p] = "erase"
  /\ slots' = [slots EXCEPT ![seg[p]] = [q \in Procs |-> "empty"]]
  /\ Goto(p, "claim")
  /\ UNCHANGED <<fileVars, readVars, at, seg, key, hup, toolVars, stateVars, split>>

\* The search for an empty place, and its claim. With none the process ends.
ClaimSlot(p) ==
  /\ pc[p] = "claim"
  /\ IF Cardinality(Occupied(seg[p])) < NSlots
     THEN /\ slots' = [slots EXCEPT ![seg[p]][p] = "fresh"]
          /\ Goto(p, "fill")
          /\ UNCHANGED <<seg, key, hup, readVars>>
     ELSE Ends(p) /\ UNCHANGED slots
  /\ UNCHANGED <<fileVars, at, toolVars, stateVars, split>>

-----------------------------------------------------------------------------
(* main() after SftpWhoGetStruct, and the session                          *)

\* Time and pid. A slot that was emptied since it was claimed stays so.
FillSlot(p) ==
  /\ pc[p] = "fill"
  /\ slots' = [slots EXCEPT ![seg[p]][p] = IF @ = "fresh" THEN "filled" ELSE @]
  /\ Goto(p, Then.filled)
  /\ UNCHANGED <<fileVars, readVars, at, seg, key, hup, toolVars, stateVars, split>>

\* The server is down for all but administrators.
TestShutdown(p) ==
  /\ pc[p] = "test"
  /\ IF shut /\ ~admin[p]
     THEN Ends(p) /\ slots' = Emptied(p)
     ELSE Goto(p, Then.tested) /\ UNCHANGED <<slots, seg, key, hup, readVars>>
  /\ UNCHANGED <<fileVars, at, toolVars, stateVars, split>>

\* Limits, DisableAccount and ExpireDate may refuse it; then ParseConf: from
\* here a SIGHUP is a request to end, before it is the end.
Enter(p) ==
  /\ pc[p] = "enter"
  /\ \/ Goto(p, "serve") /\ UNCHANGED <<slots, seg, key, hup, readVars>>
     \/ Ends(p) /\ slots' = Emptied(p)
  /\ UNCHANGED <<fileVars, at, toolVars, stateVars, split>>

\* DoInit with SSH2_ADMIN_VERSION: hidden from now on.
InitAdmin(p) ==
  /\ pc[p] = "serve" /\ admin[p]
  /\ Goto(p, "admin")
  /\ slots' = Emptied(p)
  /\ UNCHANGED <<fileVars, readVars, at, seg, key, hup, toolVars, stateVars, split>>

\* The client leaves, or must_shutdown is seen: end_sftp. (An administrator
\* has no slot left to empty.)
Leave(p) ==
  /\ pc[p] \in {"serve", "admin"}
  /\ Ends(p)
  /\ slots' = IF pc[p] = "serve" THEN Emptied(p) ELSE slots
  /\ UNCHANGED <<fileVars, at, toolVars, stateVars, split>>

\* Killed outright: what it has in the segment stays.
Crash(p) ==
  /\ pc[p] \in Live
  /\ Ends(p)
  /\ Abandoned(p)
  /\ UNCHANGED <<at, slots, toolVars, stateVars, split>>

-----------------------------------------------------------------------------
(* Signals and the shutdown file                                           *)

Filled(s) == {p \in Procs : slots[s][p] = "filled"}

\* SIGHUP to the processes of S: it ends those that have no handler yet, and
\* their slots stay.
Signalled(S) ==
  LET dead == {p \in S : pc[p] \in Joining} IN
  /\ pc' = [p \in Procs |-> IF p \in dead THEN "gone" ELSE pc[p]]
  /\ seg' = [p \in Procs |-> IF p \in dead THEN NoSeg ELSE seg[p]]
  /\ cfg' = [p \in Procs |-> IF p \in dead THEN "unread" ELSE cfg[p]]
  /\ admin' = [p \in Procs |-> admin[p] /\ p \notin dead]
  /\ hup' = hup \cup {p \in S : pc[p] \in Serving}

\* open(SHUTDOWN_FILE, O_CREAT | O_TRUNC) and unlink(SHUTDOWN_FILE)
MakeFile == shut' = TRUE /\ UNCHANGED woken
RemoveFile == shut' = FALSE /\ woken' = (tool # "idle")

-----------------------------------------------------------------------------
(* The tools                                                               *)

\* The first key that leads to a segment of this build or to none: where
\* SftpWhoGetStruct(-1) ends.
Reached == {k \in Keys : at[k] # Foreign /\ \A j \in Keys : j < k => at[j] = Foreign}
DefaultSeg == IF \E k \in Reached : at[k] # NoSeg
              THEN at[CHOOSE k \in Reached : TRUE] ELSE NoSeg

\* sftp-who, also for DoAdminListUsers: it cleans, then prints. (If it cannot
\* load a configuration it ends before it has done anything.)
Watch ==
  /\ DefaultSeg # NoSeg
  /\ \E old \in SUBSET MayBeStale(DefaultSeg) : slots' = Cleaned(DefaultSeg, old)
  /\ UNCHANGED <<fileVars, readVars, pc, at, seg, key, hup, toolVars, stateVars, split>>

\* sftp-state stop, and fullstop, which answers yes to all questions.
StateStop ==
  /\ tool = "idle" /\ Ordered
  /\ shut' = TRUE /\ woken' = FALSE
  /\ tool' \in {"idle", "who"}          \* whether all are to be killed
  /\ UNCHANGED <<nodeVars, readVars, pc, segVars, hup, target, split>>

\* sftp-state start: no file is as good.
StateStart ==
  /\ tool = "idle" /\ Ordered
  /\ shut' = FALSE /\ woken' = FALSE
  /\ UNCHANGED <<nodeVars, readVars, pc, segVars, hup, toolVars, split>>

\* sftp-kill all: sftp-who loads the configuration; if it cannot it ends, and
\* sftp-kill has an empty list. Otherwise it attaches the segment and cleans
\* it ...
KillAttach ==
  /\ tool = "who"
  /\ \/ /\ tool' = "kill"
        /\ target' = DefaultSeg
        /\ IF DefaultSeg = NoSeg THEN UNCHANGED slots
           ELSE \E old \in SUBSET MayBeStale(DefaultSeg) : slots' = Cleaned(DefaultSeg, old)
     \/ /\ Unloadable
        /\ tool' = "blind"
        /\ UNCHANGED <<target, slots>>
  /\ UNCHANGED <<fileVars, readVars, pc, at, seg, key, hup, stateVars, split>>

\* ... then it prints the pids, and each gets a SIGHUP. The pid 0 of a slot
\* that is not filled yet stands for the process group of the script, which
\* ends it, and sftp-state with it, somewhere in the list.
KillListed ==
  /\ tool = "kill"
  /\ \/ /\ target = NoSeg
        /\ tool' = "delete"
        /\ UNCHANGED <<pc, seg, hup, readVars, target, woken>>
     \/ /\ target # NoSeg /\ Fresh(target) = {}
        /\ Signalled(Filled(target))
        /\ tool' = "delete"
        /\ UNCHANGED <<target, woken>>
     \/ /\ target # NoSeg /\ Fresh(target) # {}
        /\ \E S \in SUBSET Filled(target) : Signalled(S)
        /\ tool' = "idle" /\ target' = NoSeg /\ woken' = FALSE
  /\ UNCHANGED <<fileVars, at, slots, key, shut, split>>

\* For fullstop, SftpWhoDeleteStructs: the segment of the first key, if there
\* is one and its size is right. Those who have it attached keep it.
DeleteStructs ==
  /\ tool \in {"delete", "blind"}
  /\ tool' = "idle" /\ target' = NoSeg /\ woken' = FALSE
  /\ \/ /\ at[0] \in Segs
        /\ at' = [at EXCEPT ![0] = NoSeg] /\ split' = split \cup {"removed"}
     \/ UNCHANGED <<at, split>>
  /\ UNCHANGED <<fileVars, readVars, pc, slots, seg, key, hup, shut>>

-----------------------------------------------------------------------------
(* Administrators                                                          *)

\* DoAdminKillUser: one pid, or 0 for all; never its own. The pid 0 of a slot
\* not filled yet is killed with all: the process group of the administrator.
KillUser(p) ==
  /\ pc[p] = "admin" /\ Ordered
  /\ \/ \E q \in Filled(seg[p]) \ {p} : Signalled({q})
     \/ Signalled((Filled(seg[p]) \ {p}) \cup (IF Fresh(seg[p]) = {} THEN {} ELSE {p}))
  /\ UNCHANGED <<nodeVars, at, slots, key, toolVars, stateVars, split>>

\* DoAdminServerStatus
ServerStatus(isActive) == IF isActive > 0 THEN RemoveFile ELSE MakeFile

\* What is typed to sftp-admin, in words. DoCommandLine takes what follows
\* the command from its blank on; for "kill" and "log" it skips the blanks.
Argument(line) == SubSeq(line, 2, Len(line))
Typed == [start |-> <<"server", " ", "start">>, stop |-> <<"server", " ", "stop">>]

\* SendServerStatus: strcmp(arg, "start") == 0 ? 1 : 0
Sent(arg) == IF arg = <<"start">> THEN 1 ELSE 0

\* An order through sftp-admin, or through another client: either number.
SftpAdmin(p, order) ==
  /\ pc[p] = "admin" /\ Ordered
  /\ ServerStatus(Sent(Argument(Typed[order])))
  /\ UNCHANGED <<nodeVars, readVars, pc, segVars, hup, tool, target, split>>

OtherClient(p, isActive) ==
  /\ pc[p] = "admin" /\ Ordered
  /\ ServerStatus(isActive)
  /\ UNCHANGED <<nodeVars, readVars, pc, segVars, hup, tool, target, split>>

ConfigSet(p) ==
  /\ BackupConfig(p) \/ CreateConfig(p) \/ WriteConfig(p) \/ RestoreConfig(p)
  /\ UNCHANGED <<segVars, hup, toolVars, stateVars, split>>

-----------------------------------------------------------------------------
Start(p) ==
  /\ ReadConfig(p, Then.read)
  /\ UNCHANGED <<segVars, hup, toolVars, stateVars, split>>

Join(p) ==
  FindSegment(p) \/ CreateSegment(p) \/ EraseSegment(p) \/ ClaimSlot(p) \/ FillSlot(p)

Session(p) ==
  \/ Start(p) \/ Join(p) \/ TestShutdown(p) \/ Enter(p) \/ InitAdmin(p)
  \/ Leave(p) \/ Crash(p)

Administrate(p) ==
  \/ KillUser(p) \/ ConfigSet(p)
  \/ \E order \in {"start", "stop"} : SftpAdmin(p, order)
  \/ \E isActive \in {0, 1} : OtherClient(p, isActive)

Tools == Watch \/ StateStop \/ StateStart \/ KillAttach \/ KillListed \/ DeleteStructs

Next == Tools \/ \E p \in Procs : Session(p) \/ Administrate(p)

Spec == Init /\ [][Next]_vars

-----------------------------------------------------------------------------
(* Properties                                                              *)

(* When sftp-state has killed everybody after it stopped the server, and   *)
(* nobody has started it since, each session that goes on although its     *)
(* user is no administrator was told to end, or its slot had been taken    *)
(* from it, or it is in another segment, or nobody was told, as sftp-who   *)
(* could not load a configuration (AckedInForce says when): sessions that  *)
(* were just starting found the server down. (main.c 187-207,              *)
(* SftpState/Main.c 49-70, sftp-kill, SftpWho/Main.c 147-183)              *)
StopReaches ==
  tool \in {"delete", "blind"} /\ ~woken =>
    \A p \in Procs :
      pc[p] \in {"enter", "serve"} /\ ~admin[p] =>
        \/ tool = "blind"
        \/ p \in hup
        \/ seg[p] # target
        \/ p \notin Filled(seg[p])

(* Two sessions that cannot see each other, being in different segments,   *)
(* are so after one of two events: two processes created a segment at      *)
(* once, or sftp-state fullstop removed one. A full table, a segment left  *)
(* by another build or the death of the creator do not part them.          *)
(* (SftpWho.c 68-97, 46-60)                                                *)
SplitExplained ==
  split = {} =>
    \A p, q \in Procs : seg[p] # NoSeg /\ seg[q] # NoSeg => seg[p] = seg[q]

(* "try to join to existing shm" (SftpWho.c 72): who joins a segment that  *)
(* is there spares the sessions listed in it, as the cleaning of "bugged   *)
(* client[s]" does (99). It is the creator who erases it.                  *)
JoinSpares ==
  [][\A p, q \in Procs :
       FindSegment(p) /\ seg'[p] = seg[q] /\ pc[q] = "serve" => pc'[p] # "erase"]_vars
=============================================================================
