----------------------------- MODULE HandleTable -----------------------------
(***************************************************************************)
(* The handles of SFTP sessions: the table that maps the handles given to  *)
(* a client to descriptors and directory streams, what the kernel has open *)
(* for the process, and what the session publishes of its last open file   *)
(* in its slot of the session table, from which the sessions of a same     *)
(* user decide whether one more file may be opened.                        *)
(*                                                                         *)
(* A session is one process that serves one request at a time. A request   *)
(* that reads the slots of the others is one step for each slot, and what  *)
(* the kernel has open, the table and the slot change one after the other: *)
(* the others look at the slot in between. Each session begins with a slot *)
(* of its own, in the order of the sessions (how slots come to be shared   *)
(* is the subject of SessionTable). A slot may be emptied by any other     *)
(* process while its session lives, as only the ticks of the session loop  *)
(* refresh it: from then on it may be given to somebody else, and nothing  *)
(* is said of what it shows.                                               *)
(*                                                                         *)
(* A request that is refused because of the configuration, of the file     *)
(* system or of an invalid handle changes nothing here.                    *)
(***************************************************************************)
EXTENDS Integers

CONSTANTS
  NSessions,   \* sessions, numbered as their slots
  NHandles,    \* HANDLE_NUMBER
  Nums,        \* descriptor numbers
  NumsOf,      \* those the process of a session may have (RLIMIT_NOFILE)
  Paths,       \* what clients ask to open
  Positions,   \* positions in a file that are told apart
  PositionsOf, \* those a session reads and writes up to
  UserOf,      \* the user of a session
  AccessOf,    \* how a session opens files
  Busy,        \* sessions that may go without a tick for long
  MaxOpen,     \* MaxOpenFilesForUser, 0 for none
  MaxRead,     \* MaxReadFilesForUser, 0 for none
  MaxWrite,    \* MaxWriteFilesForUser, 0 for none
  None         \* no path, no descriptor, no stream

Sessions == 1 .. NSessions
Ids == 0 .. NHandles - 1

\* A handle crosses the wire as one byte, counted from '0' (208 fit).
HandleByte(h) == (h + 48) % 256
HandleOf(b) == b - 48
Bytes == {HandleByte(h) : h \in Ids}

Access == {"RDONLY", "WRONLY", "RDWR"}

ASSUME SessionsAssumption == NSessions \in Nat \ {0}
ASSUME HandlesAssumption == NHandles \in 1 .. 208
ASSUME PositionsAssumption ==
  0 \in Positions /\ PositionsOf \in [Sessions -> SUBSET Positions]
ASSUME AccessAssumption == AccessOf \in [Sessions -> SUBSET Access]
ASSUME BusyAssumption == Busy \subseteq Sessions
ASSUME MaxAssumption == {MaxOpen, MaxRead, MaxWrite} \subseteq Nat

VARIABLES
  handles,   \* gHandle of each session
  kernel,    \* what each process has open, by descriptor number
  shown,     \* the status, the file and the progress in the slot of a session
  phase,     \* what a session is doing
  want,      \* the file it was asked to open, and how
  at,        \* the slot it reads to know whether it may
  seen,      \* how many sessions of its user it saw reading and writing
  fresh,     \* the descriptor its open() gave, until it is published
  reaped     \* history: the sessions whose slot was emptied while they lived

vars == <<handles, kernel, shown, phase, want, at, seen, fresh, reaped>>

Objects == [kind : {"DIR", "FILE"}, path : Paths]
HandleRecord ==
  [state : {"UNUSED", "DIR", "FILE"}, path : Paths \cup {None},
   dir : Nums \cup {None}, fd : Nums \cup {None}, flags : Access, pos : Positions]
SlotRecord ==
  [st : {"EMPTY", "IDLE", "GET", "PUT"}, file : Paths \cup {None}, pos : Positions]
Request == [path : Paths, flags : Access]
Steady == {"run", "check", "open", "opened"}
Serving == Steady \cup {"publish"}
Phases == Serving \cup {"closing", "released", "exited", "killed"}

ASSUME NoneAssumption ==
  None \notin Nums /\ None \notin Paths /\ None \notin Objects /\ None \notin Request

TypeOK ==
  /\ handles \in [Sessions -> [Ids -> HandleRecord]]
  /\ kernel \in [Sessions -> [Nums -> Objects \cup {None}]]
  /\ shown \in [Sessions -> SlotRecord]
  /\ phase \in [Sessions -> Phases]
  /\ want \in [Sessions -> Request \cup {None}]
  /\ at \in [Sessions -> Sessions]
  /\ seen \in [Sessions -> [get : Nat, put : Nat]]
  /\ fresh \in [Sessions -> Nums \cup {None}]
  /\ reaped \subseteq Sessions

Unused == [state |-> "UNUSED", path |-> None, dir |-> None, fd |-> None,
           flags |-> "RDONLY", pos |-> 0]
NobodySeen == [get |-> 0, put |-> 0]

Init ==
  /\ handles = [s \in Sessions |-> [h \in Ids |-> Unused]]
  /\ kernel = [s \in Sessions |-> [n \in Nums |-> None]]
  /\ shown = [s \in Sessions |-> [st |-> "IDLE", file |-> None, pos |-> 0]]
  /\ phase = [s \in Sessions |-> "run"]
  /\ want = [s \in Sessions |-> None]
  /\ at = [s \in Sessions |-> 1]
  /\ seen = [s \in Sessions |-> NobodySeen]
  /\ fresh = [s \in Sessions |-> None]
  /\ reaped = {}

-----------------------------------------------------------------------------
(* The operations of the table, on the table t of one session.             *)

FreeIds(t) == {h \in Ids : t[h].state = "UNUSED"}
FileIds(t) == {h \in Ids : t[h].state = "FILE"}

\* Mutation of FirstFree: directories are forgotten in the search.
FirstNoFile(t) == CHOOSE h \in Ids \ FileIds(t) : \A g \in Ids \ FileIds(t) : h <= g

\* HandleNew takes the first unused entry.
FirstFree(t) == CHOOSE h \in FreeIds(t) : \A g \in FreeIds(t) : h <= g

\* Mutation of LastFile: the first one.
FirstFile(t) == CHOOSE h \in FileIds(t) : \A g \in FileIds(t) : h <= g

\* HandleGetLastOpen(HANDLE_FILE), when there is one.
LastFile(t) == CHOOSE h \in FileIds(t) : \A g \in FileIds(t) : g <= h

\* What HandleClose leaves of an entry. (It leaves the flags and the position
\* too, which nobody reads in an unused entry.)
Cleared(r) == Unused

\* What it closes: close() of a number that is not open does nothing.
Closed(r) == IF r.state = "DIR" THEN {r.dir} ELSE {r.fd}

HandleClose(s, h) ==
  /\ handles' = [handles EXCEPT ![s][h] = Cleared(@)]
  /\ kernel' = [kernel EXCEPT ![s] =
                  [n \in Nums |-> IF n \in Closed(handles[s][h]) THEN None ELSE @[n]]]

\* UpdateInfoForOpenFiles: the slot r of a session whose table is t. The
\* progress of the last file stays when there is none.
Published(t, r) ==
  IF FileIds(t) = {}
  THEN [r EXCEPT !.st = "IDLE", !.file = None]
  ELSE LET f == t[LastFile(t)]
       IN [st |-> IF f.flags = "WRONLY" THEN "PUT" ELSE "GET",
           file |-> f.path, pos |-> f.pos]

UpdateInfoForOpenFiles(s, t) ==
  shown' = [shown EXCEPT ![s] = Published(t, @)]

\* A free descriptor number for a new object, and the kernel with it.
FreeNums(s) == {n \in Nums : n \in NumsOf[s] /\ kernel[s][n] = None}
OpenAs(s, n, o) == kernel' = [kernel EXCEPT ![s][n] = o]

Goto(s, l) == phase' = [phase EXCEPT ![s] = l]

-----------------------------------------------------------------------------
(* Requests.                                                               *)

\* A request comes with a handle the session has, in one of some states.
InState(s, b, states) ==
  /\ phase[s] = "run"
  /\ HandleOf(b) \in Ids
  /\ handles[s][HandleOf(b)].state \in states

DoOpenDir(s) ==
  /\ phase[s] = "run"
  /\ \E n \in FreeNums(s), p \in Paths :
       IF FreeIds(handles[s]) = {}
       THEN UNCHANGED <<handles, kernel>>     \* opendir, then closedir
       ELSE /\ OpenAs(s, n, [kind |-> "DIR", path |-> p])
            /\ handles' = [handles EXCEPT ![s][FirstFree(handles[s])] =
                 [state |-> "DIR", path |-> p, dir |-> n, fd |-> None,
                  flags |-> "RDONLY", pos |-> @.pos]]
  /\ UNCHANGED <<shown, phase, want, at, seen, fresh, reaped>>

\* DoOpen begins with CheckRulesAboutMaxFiles.
DoOpen(s) ==
  /\ phase[s] = "run"
  /\ \E p \in Paths, f \in AccessOf[s] :
       want' = [want EXCEPT ![s] = [path |-> p, flags |-> f]]
  /\ Goto(s, "check")
  /\ UNCHANGED <<handles, kernel, shown, at, seen, fresh, reaped>>

\* One turn of its loop.
Seen(s, o) ==
  IF UserOf[o] # UserOf[s] THEN seen[s]
  ELSE [get |-> seen[s].get + (IF shown[o].st = "GET" THEN 1 ELSE 0),
        put |-> seen[s].put + (IF shown[o].st = "PUT" THEN 1 ELSE 0)]

TooMany(c) ==
  \/ MaxRead # 0 /\ c.get > MaxRead
  \/ MaxWrite # 0 /\ c.put > MaxWrite
  \/ MaxOpen # 0 /\ c.get + c.put > MaxOpen

\* Mutation of MoreSlots: one slot too many.
MoreSlotsTooFar(s) == at[s] <= NSessions

MoreSlots(s) == at[s] < NSessions

CheckSlot(s) ==
  /\ phase[s] = "check"
  /\ IF MoreSlots(s)
     THEN /\ seen' = [seen EXCEPT ![s] = Seen(s, at[s])]
          /\ at' = [at EXCEPT ![s] = @ + 1]
          /\ UNCHANGED <<phase, want>>
     ELSE /\ seen' = [seen EXCEPT ![s] = NobodySeen]
          /\ at' = [at EXCEPT ![s] = 1]
          /\ IF TooMany(Seen(s, at[s]))
             THEN Goto(s, "run") /\ want' = [want EXCEPT ![s] = None]
             ELSE Goto(s, "open") /\ UNCHANGED want
  /\ UNCHANGED <<handles, kernel, shown, fresh, reaped>>

\* Then FSOpenFile. From here on the file is open, and nobody can see it.
OpenFile(s) ==
  /\ phase[s] = "open"
  /\ \/ /\ Goto(s, "run")                       \* open() failed
        /\ want' = [want EXCEPT ![s] = None]
        /\ UNCHANGED <<kernel, fresh>>
     \/ \E n \in FreeNums(s) :
          /\ OpenAs(s, n, [kind |-> "FILE", path |-> want[s].path])
          /\ fresh' = [fresh EXCEPT ![s] = n]
          /\ Goto(s, "opened")
          /\ UNCHANGED want
  /\ UNCHANGED <<handles, shown, at, seen, reaped>>

\* With no entry left in the table, the descriptor is closed.
TableFull(s) ==
  /\ FreeIds(handles[s]) = {}
  /\ kernel' = [kernel EXCEPT ![s][fresh[s]] = None]
  /\ fresh' = [fresh EXCEPT ![s] = None]
  /\ Goto(s, "run")
  /\ UNCHANGED handles

HandleNewFile(s) ==
  /\ FreeIds(handles[s]) # {}
  /\ handles' = [handles EXCEPT ![s][FirstFree(handles[s])] =
       [state |-> "FILE", path |-> want[s].path, dir |-> None,
        fd |-> fresh[s], flags |-> want[s].flags, pos |-> 0]]
  /\ Goto(s, "publish")
  /\ UNCHANGED <<kernel, fresh>>

\* Mutation of NewFile: the descriptor is kept when the table is full.
NewFileLeaks(s) ==
  /\ phase[s] = "opened"
  /\ \/ HandleNewFile(s)
     \/ /\ FreeIds(handles[s]) = {}
        /\ fresh' = [fresh EXCEPT ![s] = None]
        /\ Goto(s, "run")
        /\ UNCHANGED <<handles, kernel>>
  /\ want' = [want EXCEPT ![s] = None]
  /\ UNCHANGED <<shown, at, seen, reaped>>

\* Then HandleNew.
NewFile(s) ==
  /\ phase[s] = "opened"
  /\ TableFull(s) \/ HandleNewFile(s)
  /\ want' = [want EXCEPT ![s] = None]
  /\ UNCHANGED <<shown, at, seen, reaped>>

\* What DoOpen and DoClose end with.
Publish(s) ==
  /\ phase[s] = "publish"
  /\ UpdateInfoForOpenFiles(s, handles[s])
  /\ fresh' = [fresh EXCEPT ![s] = None]
  /\ Goto(s, "run")
  /\ UNCHANGED <<handles, kernel, want, at, seen, reaped>>

MoveTo(s, h, n) ==
  /\ handles' = [handles EXCEPT ![s][h].pos = n]
  /\ UpdateInfoForOpenFiles(s, handles'[s])
  /\ UNCHANGED <<kernel, phase, want, at, seen, fresh, reaped>>

\* A read of something. (One that fails or finds the end of the file, and
\* those DoReadDir and DoFStat make, change nothing.)
DoRead(s, b) ==
  /\ InState(s, b, {"FILE"})
  /\ handles[s][HandleOf(b)].flags # "WRONLY"
  /\ \E n \in PositionsOf[s] \ {0} : MoveTo(s, HandleOf(b), n)

\* A write, failed or not: the position is off + ret, even for ret = -1.
DoWrite(s, b) ==
  /\ InState(s, b, {"FILE"})
  /\ \E n \in PositionsOf[s] : MoveTo(s, HandleOf(b), n)

\* Any handle in range can be closed, even an unused one.
DoClose(s, b) ==
  /\ InState(s, b, {"UNUSED", "DIR", "FILE"})
  /\ HandleClose(s, HandleOf(b))
  /\ IF handles[s][HandleOf(b)].state = "FILE"
     THEN Goto(s, "publish")
     ELSE UNCHANGED phase
  /\ UNCHANGED <<shown, want, at, seen, fresh, reaped>>

-----------------------------------------------------------------------------
(* The end of a session: end_sftp, run by exit().                          *)

Quit(s) ==
  /\ phase[s] = "run"
  /\ Goto(s, "closing")
  /\ UNCHANGED <<handles, kernel, shown, want, at, seen, fresh, reaped>>

\* CloseInfoForOpenFiles closes the files, the last one first.
CloseLastFile(s) ==
  /\ phase[s] = "closing"
  /\ FileIds(handles[s]) # {}
  /\ HandleClose(s, LastFile(handles[s]))
  /\ UNCHANGED <<shown, phase, want, at, seen, fresh, reaped>>

\* Mutation of Release: the slot is given back before the files are closed.
ReleaseFirst(s) ==
  /\ phase[s] = "closing"
  /\ shown' = [shown EXCEPT ![s].st = "EMPTY"]
  /\ Goto(s, "released")
  /\ UNCHANGED <<handles, kernel, want, at, seen, fresh, reaped>>

\* SftpWhoReleaseStruct.
Release(s) ==
  /\ phase[s] = "closing"
  /\ FileIds(handles[s]) = {}
  /\ shown' = [shown EXCEPT ![s].st = "EMPTY"]
  /\ Goto(s, "released")
  /\ UNCHANGED <<handles, kernel, want, at, seen, fresh, reaped>>

\* HandleCloseAll closes the rest, from the first entry, and _exit follows.
CloseNext(s) ==
  /\ phase[s] = "released"
  /\ LET used == Ids \ FreeIds(handles[s])
     IN IF used # {}
        THEN /\ HandleClose(s, CHOOSE h \in used : \A g \in used : h <= g)
             /\ UNCHANGED phase
        ELSE Goto(s, "exited") /\ UNCHANGED <<handles, kernel>>
  /\ UNCHANGED <<shown, want, at, seen, fresh, reaped>>

\* The process is killed: its memory is gone, the kernel closes everything,
\* and the slot stays as it is until another process finds it stale.
Crash(s) ==
  /\ phase[s] \notin {"exited", "killed"}
  /\ Goto(s, "killed")
  /\ handles' = [handles EXCEPT ![s] = [h \in Ids |-> Unused]]
  /\ kernel' = [kernel EXCEPT ![s] = [n \in Nums |-> None]]
  /\ want' = [want EXCEPT ![s] = None]
  /\ at' = [at EXCEPT ![s] = 1]
  /\ seen' = [seen EXCEPT ![s] = NobodySeen]
  /\ fresh' = [fresh EXCEPT ![s] = None]
  /\ UNCHANGED <<shown, reaped>>

\* SftpWhoCleanBuggedClient, by another process: the slot of a session that
\* is gone, or of one whose loop has not refreshed it for long.
Reaped(s) ==
  /\ phase[s] = "killed" \/ s \in Busy
  /\ shown[s].st # "EMPTY"
  /\ shown' = [shown EXCEPT ![s].st = "EMPTY"]
  /\ reaped' = IF phase[s] = "killed" THEN reaped ELSE reaped \cup {s}
  /\ UNCHANGED <<handles, kernel, phase, want, at, seen, fresh>>

-----------------------------------------------------------------------------
OpenStep(s) == CheckSlot(s) \/ OpenFile(s) \/ NewFile(s) \/ Publish(s)
ExitStep(s) == CloseLastFile(s) \/ Release(s) \/ CloseNext(s)

Next ==
  \E s \in Sessions :
    \/ DoOpenDir(s) \/ DoOpen(s) \/ OpenStep(s)
    \/ \E b \in Bytes : DoRead(s, b) \/ DoWrite(s, b) \/ DoClose(s, b)
    \/ Quit(s) \/ ExitStep(s)
    \/ Crash(s) \/ Reaped(s)

Spec == Init /\ [][Next]_vars

-----------------------------------------------------------------------------
(* Properties.                                                             *)

\* What a handle designates: what the kernel has under its descriptor or
\* under the descriptor of its stream.
Number(r) == IF r.state = "DIR" THEN r.dir ELSE r.fd
Used(s) == {h \in Ids : handles[s][h].state # "UNUSED"}
Alive(s) == phase[s] # "killed"

\* Between open() and HandleNew a descriptor is known to nobody but DoOpen.
Unnamed(s, n) == phase[s] = "opened" /\ n = fresh[s]

\* Every descriptor that is open belongs to one handle, which nothing else
\* shares, or to the request that just opened it, and every handle has open
\* what it was opened for: no descriptor is lost when the table is full, when
\* a file is closed twice or when an entry is used again (HandleNew and
\* HandleClose, DoOpen, DoOpenDir, DoClose).
NothingLeaked ==
  \A s \in Sessions : Alive(s) =>
    /\ \A n \in Nums : kernel[s][n] # None =>
         Unnamed(s, n) \/ \E h \in Used(s) : Number(handles[s][h]) = n
    /\ \A h \in Used(s) :
         /\ Number(handles[s][h]) \in Nums
         /\ ~ Unnamed(s, Number(handles[s][h]))
         /\ kernel[s][Number(handles[s][h])] =
              [kind |-> handles[s][h].state, path |-> handles[s][h].path]
    /\ \A g, h \in Used(s) :
         Number(handles[s][g]) = Number(handles[s][h]) => g = h

\* While a session serves requests and was not taken for dead, its slot tells
\* of the file with the highest handle, its direction and its progress, and
\* IDLE means that no handle is a file's; only in DoOpen and DoClose, from the
\* change of the table to UpdateInfoForOpenFiles, it still tells what was
\* before (UpdateInfoForOpenFiles is called wherever it must be).
ShownIsLast ==
  \A s \in Sessions \ reaped : phase[s] \in Steady =>
    IF FileIds(handles[s]) = {}
    THEN shown[s].st = "IDLE" /\ shown[s].file = None
    ELSE \E f \in FileIds(handles[s]) :
           /\ \A g \in FileIds(handles[s]) : g <= f
           /\ shown[s].file = handles[s][f].path
           /\ shown[s].pos = handles[s][f].pos
           /\ shown[s].st = "PUT" <=> handles[s][f].flags = "WRONLY"
           /\ shown[s].st = "GET" <=> handles[s][f].flags # "WRONLY"

\* A session that is not in the table, or that is there as idle, has at most
\* the one file open that its DoOpen has not published yet, unless its slot
\* was emptied while it lived: these are the only two ways in which the limits
\* can miss a session that uses files. At exit the files are closed before the
\* slot is given back (end_sftp).
UnseenIsOpening ==
  \A s \in Sessions \ reaped : shown[s].st \in {"EMPTY", "IDLE"} =>
    \A n \in Nums : kernel[s][n] # None =>
      kernel[s][n].kind = "DIR" \/ n = fresh[s]

\* The handles given to clients are the names of OpenObjects.
Designated(s, b) ==
  LET r == handles[s][HandleOf(b)]
  IN IF Alive(s) /\ r.state # "UNUSED" THEN kernel[s][Number(r)] ELSE None

Abstract == INSTANCE OpenObjects WITH
  Names <- Bytes,
  Nothing <- None,
  named <- [s \in Sessions |-> [b \in Bytes |-> Designated(s, b)]],
  ending <- {s \in Sessions : phase[s] \notin Serving}

\* A handle designates what was opened under it, and only that, until the
\* client closes it or the session ends (HandleNew, HandleClose).
HandlesDesignate == Abstract!Spec

==============================================================================
