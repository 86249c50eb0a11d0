------------------------------- MODULE Shares -------------------------------
(***************************************************************************)
(* How the sessions of a server divide GlobalDownload among those that     *)
(* download (SftpWhoCleanBuggedClient, main(), the tick of SftpMain).      *)
(*                                                                         *)
(* Whoever starts and whoever ticks counts the slots that show a download, *)
(* one slot after the other, while the other sessions open and close files *)
(* and count as well; then it stores the share of each in the segment, and *)
(* a session that ticks takes from there what it may send in a second.     *)
(* GlobalUpload is divided by the same code.                               *)
(*                                                                         *)
(* Each session has a slot of its own here: claiming them is SessionTable. *)
(***************************************************************************)
EXTENDS Naturals, FiniteSets

CONSTANTS
  NSessions,      \* slots, and the sessions in them
  GlobalDownload, \* of the configuration; more than there are sessions
  Profiles        \* of users: [download, bypass], Download (0 for no limit) and
                  \* ByPassGlobalDownload

Sessions == 1 .. NSessions

ASSUME SessionsAssumption == NSessions \in Nat
ASSUME GlobalAssumption == GlobalDownload \in Nat /\ GlobalDownload >= NSessions
ASSUME ProfilesAssumption == Profiles \subseteq [download : Nat, bypass : BOOLEAN]

VARIABLES
  pc,       \* where each session is
  status,   \* what each slot shows
  aged,     \* slots that have not been refreshed for a minute
  at,       \* the slot a counting session looks at
  nb,       \* the downloads it has counted
  own,      \* the profile of each session
  max,      \* _sftpglobal->download_max
  share,    \* _sftpglobal->download_by_client
  quota,    \* gl_var->download_max of each session, 0 for no limit
  recent,   \* history: counts that began after the last download did
  current,  \* history: such a count stored the share
  settled   \* history: sessions that took their quota from it since

counting == <<at, nb>>
global == <<max, share>>
history == <<recent, current, settled>>
session == <<own, quota>>
vars == <<pc, status, aged, counting, global, session, history>>

Nobody == [download |-> 0, bypass |-> FALSE]

Goto(s, l) == pc' = [pc EXCEPT ![s] = l]
Loading(s) == pc[s] \in {"starting", "counting"}
Unowned(s) == pc[s] \in {"out", "starting", "entering"}  \* its slot, if it shows

Init ==
  /\ pc = [s \in Sessions |-> "out"]
  /\ status = [s \in Sessions |-> "empty"]
  /\ aged = {}
  /\ at = [s \in Sessions |-> 1] /\ nb = [s \in Sessions |-> 0]
  /\ max = 0 /\ share = 0
  /\ own = [s \in Sessions |-> Nobody]
  /\ quota = [s \in Sessions |-> 0]
  /\ recent = {} /\ current = FALSE /\ settled = {}

-----------------------------------------------------------------------------
(* SftpWhoCleanBuggedClient                                                *)

CountFrom(s, l) ==
  /\ Goto(s, l)
  /\ recent' = recent \cup {s}

MoreSlots(s) == at[s] <= NSessions

\* One slot: its session is dead, or busy since a minute, or counts.
CountSlot(s) ==
  /\ Loading(s) /\ MoreSlots(s)
  /\ LET i == at[s] IN
     /\ status' = IF i \in aged THEN [status EXCEPT ![i] = "empty"] ELSE status
     /\ aged' = aged \ {i}
     /\ nb' = IF i \notin aged /\ status[i] = "get" THEN [nb EXCEPT ![s] = @ + 1] ELSE nb
     /\ at' = [at EXCEPT ![s] = i + 1]
  /\ UNCHANGED <<pc, global, session, history>>

\* Mutation of Part: the one who counts does not count.
PartOfOthers(n) == IF n > 1 THEN max \div (n - 1) ELSE max

Part(n) == IF n > 0 THEN max \div n ELSE max

\* Mutation of StoreShare: a share that was lowered stays so.
StoreShareLower(s) ==
  /\ Loading(s) /\ ~MoreSlots(s)
  /\ share' = IF share = 0 \/ Part(nb[s]) < share THEN Part(nb[s]) ELSE share
  /\ at' = [at EXCEPT ![s] = 1] /\ nb' = [nb EXCEPT ![s] = 0]
  /\ current' = (s \in recent) /\ recent' = recent \ {s}
  /\ Goto(s, IF pc[s] = "starting" THEN "entering" ELSE "taking")
  /\ UNCHANGED <<status, aged, max, session, settled>>

StoreShare(s) ==
  /\ Loading(s) /\ ~MoreSlots(s)
  /\ share' = Part(nb[s])
  /\ at' = [at EXCEPT ![s] = 1] /\ nb' = [nb EXCEPT ![s] = 0]
  /\ current' = (s \in recent) /\ recent' = recent \ {s}
  /\ Goto(s, IF pc[s] = "starting" THEN "entering" ELSE "taking")
  /\ UNCHANGED <<status, aged, max, session, settled>>

-----------------------------------------------------------------------------
(* A session                                                               *)

\* SftpWhoGetStruct(1): the slots are counted before one is claimed.
Start(s) ==
  /\ pc[s] = "out"
  /\ CountFrom(s, "starting")
  /\ UNCHANGED <<status, aged, counting, global, session, current, settled>>

\* main(): the slot shows no activity yet, the limit is that of the profile.
\* A dead session may have it still; then there is no place.
Enter(s) ==
  /\ pc[s] = "entering" /\ status[s] = "empty"
  /\ Goto(s, "serving")
  /\ status' = [status EXCEPT ![s] = "idle"]
  /\ aged' = aged \ {s}
  /\ max' = GlobalDownload
  /\ \E p \in Profiles : /\ own' = [own EXCEPT ![s] = p]
                         /\ quota' = [quota EXCEPT ![s] = p.download]
  /\ settled' = settled \ {s}
  /\ UNCHANGED <<counting, share, recent, current>>

NoPlace(s) ==
  /\ pc[s] = "entering" /\ status[s] # "empty"
  /\ Goto(s, "out")
  /\ UNCHANGED <<status, aged, counting, global, session, history>>

\* UpdateInfoForOpenFiles: a download begins, also in a slot that was taken
\* for that of a dead session.
Open(s) ==
  /\ pc[s] = "serving" /\ status[s] # "get"
  /\ status' = [status EXCEPT ![s] = "get"]
  /\ recent' = {} /\ current' = FALSE /\ settled' = {}
  /\ UNCHANGED <<pc, aged, counting, global, session>>

\* ... or the last one ends.
Close(s) ==
  /\ pc[s] = "serving" /\ status[s] # "idle"
  /\ status' = [status EXCEPT ![s] = "idle"]
  /\ UNCHANGED <<pc, aged, counting, global, session, history>>

\* select() timed out: time_total is refreshed, then the slots are counted.
Tick(s) ==
  /\ pc[s] = "serving"
  /\ aged' = aged \ {s}
  /\ CountFrom(s, "counting")
  /\ UNCHANGED <<status, counting, global, session, current, settled>>

Lowered(d) == IF share > 0 /\ (share < d \/ d = 0) THEN share ELSE d

TakeShare(s) ==
  /\ pc[s] = "taking"
  /\ Goto(s, "serving")
  /\ quota' = [quota EXCEPT ![s] = IF own[s].bypass THEN own[s].download
                                 ELSE Lowered(own[s].download)]
  /\ settled' = IF current THEN settled \cup {s} ELSE settled \ {s}
  /\ UNCHANGED <<status, aged, counting, global, own, recent, current>>

\* The session ends: SftpWhoReleaseStruct.
Leave(s) ==
  /\ pc[s] = "serving"
  /\ Goto(s, "out")
  /\ status' = [status EXCEPT ![s] = "empty"]
  /\ aged' = aged \ {s}
  /\ own' = [own EXCEPT ![s] = Nobody] /\ quota' = [quota EXCEPT ![s] = 0]
  /\ settled' = settled \ {s}
  /\ UNCHANGED <<counting, global, recent, current>>

\* It is killed: the slot stays.
Crash(s) ==
  /\ pc[s] # "out"
  /\ Goto(s, "out")
  /\ at' = [at EXCEPT ![s] = 1] /\ nb' = [nb EXCEPT ![s] = 0]
  /\ recent' = recent \ {s}
  /\ own' = [own EXCEPT ![s] = Nobody] /\ quota' = [quota EXCEPT ![s] = 0]
  /\ settled' = settled \ {s}
  /\ UNCHANGED <<status, aged, global, current>>

\* A minute without a tick: of a dead session, or of one that is never quiet
\* for a second.
Age(s) ==
  /\ (Unowned(s) \/ pc[s] = "serving") /\ status[s] # "empty" /\ s \notin aged
  /\ aged' = aged \cup {s}
  /\ UNCHANGED <<pc, status, counting, global, session, history>>

Count(s) == CountSlot(s) \/ StoreShare(s) \/ TakeShare(s) \/ Enter(s) \/ NoPlace(s)

Next ==
  \E s \in Sessions :
    \/ Start(s) \/ Count(s) \/ Open(s) \/ Close(s) \/ Tick(s)
    \/ Leave(s) \/ Crash(s) \/ Age(s)

Spec == Init /\ [][Next]_vars

\* Counting is straight code. A session that has used up its quota, or does
\* nothing, ticks after a second; one that sends without a limit need not. A
\* slot that nobody refreshes is old after a minute.
FairSpec ==
  /\ Spec
  /\ \A s \in Sessions :
       /\ WF_vars(Count(s))
       /\ WF_vars((quota[s] > 0 \/ status[s] # "get") /\ Tick(s))
       /\ WF_vars(Unowned(s) /\ Age(s))

-----------------------------------------------------------------------------
(* Properties                                                              *)

Listed == {s \in Sessions : status[s] = "get"}

TypeOK ==
  /\ pc \in [Sessions -> {"out", "starting", "entering", "serving", "counting", "taking"}]
  /\ status \in [Sessions -> {"empty", "idle", "get"}]
  /\ aged \subseteq Sessions
  /\ at \in [Sessions -> 1 .. NSessions + 1]
  /\ nb \in [Sessions -> 0 .. NSessions]
  /\ max \in {0, GlobalDownload} /\ share \in Nat
  /\ own \in [Sessions -> [download : Nat, bypass : BOOLEAN]]
  /\ quota \in [Sessions -> Nat]
  /\ recent \subseteq Sessions /\ current \in BOOLEAN /\ settled \subseteq Sessions

(* Once a session has taken its quota from a count that began after the    *)
(* last download did, the quota is at most an equal part for each of those *)
(* that the table shows as downloading: together they stay within          *)
(* GlobalDownload, however the counts of the others overlap, and whoever   *)
(* dies or is taken for dead. (SftpWho.c 125-158, Sftp.c 1122-1129)        *)
SharesFit ==
  \A s \in settled \cap Listed :
    ~own[s].bypass => quota[s] > 0 /\ quota[s] * Cardinality(Listed) <= GlobalDownload

(* A session that goes on downloading when the others have stopped, left   *)
(* or died gets all of GlobalDownload that its profile allows, unless it   *)
(* has no limit at all and so never looks. (SftpWho.c 140-158)             *)
Alone(s) ==
  /\ ~Unowned(s) /\ status[s] = "get" /\ quota[s] > 0 /\ ~own[s].bypass
  /\ \A q \in Sessions \ {s} : Unowned(q) \/ status[q] # "get"
Whole(s) ==
  IF own[s].download \in 1 .. GlobalDownload THEN own[s].download ELSE GlobalDownload
ShareReturns ==
  \A s \in Sessions : <>[]Alone(s) => <>[](quota[s] = Whole(s))
=============================================================================
