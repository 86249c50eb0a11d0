-------------------------------- MODULE Files --------------------------------
(***************************************************************************)
(* The requests of one SFTP session on the file system, down to the system *)
(* calls they are made of. Between two calls of a request other processes  *)
(* (other sessions, usually) change the tree: what was checked for a name  *)
(* may not hold of what the next call finds under it.                      *)
(*                                                                         *)
(* A path stands for what FSResolvePath makes of it. FSCheckSecurity is    *)
(* what it refuses: the names in Denied (IgnoreHidden, FileSpec), and with *)
(* HideNoAccess any other name. Of the attributes SETSTAT sets, sizes are  *)
(* 0 and owners and times are calls without an effect here.                *)
(***************************************************************************)
EXTENDS Tree

CONSTANTS
  Denied,           \* paths FSCheckSecurity refuses by their name
  HideNoAccess,     \* it may refuse others
  FileMin, FileMax, \* MinimumRights and MaximumRights of files
  DirMin, DirMax,   \* and of directories
  RightsAsked,      \* the rights requests carry
  Accesses,         \* the desired accesses of OPEN
  Dispositions,     \* and what it asks to be done with the file
  OldFlags,         \* the flags of OPEN before version 5
  SetStats,         \* the attributes SETSTAT carries and CanChangeRights lets it set
  Profiles          \* the sets of Disable tags a session may have

ASSUME DeniedAssumption == Denied \subseteq Paths /\ HideNoAccess \in BOOLEAN
ASSUME RightsAssumption ==
  /\ {FileMin, FileMax, DirMin, DirMax} \subseteq SUBSET Bits
  /\ RightsAsked \subseteq SUBSET Bits
ASSUME SetStatsAssumption == SetStats \subseteq SUBSET {"size", "rights", "owner"}
ASSUME OpensAssumption ==
  /\ Accesses \subseteq SUBSET {"READ", "WRITE", "APPEND"}
  /\ Dispositions \subseteq {"CREATE_NEW", "CREATE_TRUNCATE", "OPEN_EXISTING",
                             "OPEN_OR_CREATE", "TRUNCATE_EXISTING"}
  /\ OldFlags \subseteq SUBSET {"read", "write", "append", "creat", "trunc", "excl"}

Tags == {"REMOVE_FILE", "REMOVE_DIR", "MAKE_DIR", "RENAME", "SYMLINK", "OVERWRITE",
         "WRITE_FILE", "SET_ATTRIBUTE", "STATSFS"}
ASSUME ProfilesAssumption == Profiles \subseteq SUBSET Tags

VARIABLES
  fs,        \* the tree
  disabled,  \* flagsDisable
  handle,    \* the one handle: its path, and the object that is open
  job,       \* the request being served, or the last one
  raced      \* history: chmod met a directory where stat had seen none, or the reverse

vars == <<fs, disabled, handle, job, raced>>

\* The flags of open(2) that matter here, from version 5 on; before, they are
\* those of the request, but for SSH2_FXF_APPEND, which nothing looks at.
FlagsFromAccess(a) ==
  {f \in {"write", "append"} : \/ f = "write" /\ "WRITE" \in a
                               \/ f = "append" /\ "APPEND" \in a}
FlagsFromPortable(d) ==
  CASE d = "CREATE_NEW"        -> {"excl", "creat"}
    [] d = "CREATE_TRUNCATE"   -> {"trunc", "creat"}
    [] d = "OPEN_EXISTING"     -> {}
    [] d = "OPEN_OR_CREATE"    -> {"creat"}
    [] d = "TRUNCATE_EXISTING" -> {"trunc", "excl", "creat"}

FlagsFromOld(f) == f \ {"read", "append"}

Modes == {FlagsFromAccess(a) \cup FlagsFromPortable(d) : a \in Accesses, d \in Dispositions}
           \cup {FlagsFromOld(f) : f \in OldFlags}

Pure(op, p) == [op |-> op, p |-> p, q |-> None, how |-> {}, rights |-> {}]
Requests ==
  [op : {"open"}, p : Paths, q : {None}, how : Modes, rights : RightsAsked]
    \cup [op : {"mkdir"}, p : Paths, q : {None}, how : {{}}, rights : RightsAsked]
    \cup [op : {"rename"}, p : Paths, q : Paths, how : {{}, {"overwrite"}}, rights : {{}}]
    \cup [op : {"symlink", "hardlink"}, p : Paths, q : Paths, how : {{}}, rights : {{}}]
    \cup [op : {"setstat"}, p : Paths, q : {None}, how : SetStats, rights : RightsAsked]
    \cup {Pure(op, p) : op \in {"remove", "rmdir", "stat", "lstat", "statvfs"}, p \in Paths}
HandleRequests ==
  [op : {"fsetstat"}, p : Paths, q : {None}, how : SetStats, rights : RightsAsked]
    \cup {Pure(op, p) : op \in {"fstat", "close"}, p \in Paths}

Calls == {"check", "check_to", "open", "unlink", "clear", "mkdir", "rmdir", "rename",
          "symlink", "link", "look", "truncate", "kind", "chmod", "chown"}
Statuses == {"OK", "DENIED", "NO_SUCH_FILE", "FAILURE"}

TypeOK ==
  /\ fs \in Trees
  /\ disabled \in Profiles
  /\ handle \in [path : Paths, obj : Objects] \cup {None}
  /\ job \in [req : Requests \cup HandleRequests \cup {None}, todo : Seq(Calls),
              status : Statuses \cup {"crashed"}, dir : BOOLEAN,
              refused : BOOLEAN, failed : BOOLEAN, changed : BOOLEAN]
  /\ raced \in BOOLEAN

Idle == [req |-> None, todo |-> <<>>, status |-> "OK", dir |-> FALSE,
         refused |-> FALSE, failed |-> FALSE, changed |-> FALSE]

Init ==
  /\ fs = EmptyTree
  /\ disabled \in Profiles
  /\ handle = None
  /\ job = Idle
  /\ raced = FALSE

Opened == IF handle = None THEN {} ELSE {handle.obj}
Answered == job.todo = <<>>

-----------------------------------------------------------------------------
(* What a request does, in order.                                          *)

SetStat(r) == r.op \in {"setstat", "fsetstat"}

Given(c, here) == IF here THEN <<c>> ELSE <<>>

\* Mutation of RenameCalls: every rename overwrites.
RenameCallsClear(r) == <<"check", "check_to", "clear", "rename">>

\* FSRename: both names are checked, then the destination makes place.
RenameCalls(r) ==
  <<"check", "check_to">> \o Given("clear", "overwrite" \in r.how) \o <<"rename">>

Todo(r) ==
  CASE r.op = "open"     -> <<"check", "open">>
    [] r.op = "remove"   -> <<"check", "unlink">>
    [] r.op = "mkdir"    -> <<"check", "mkdir">>
    [] r.op = "rmdir"    -> <<"check", "rmdir">>
    [] r.op = "symlink"  -> <<"check", "check_to", "symlink">>
    [] r.op = "hardlink" -> <<"check", "check_to", "link">>
    [] r.op = "rename"   -> RenameCalls(r)
    [] SetStat(r)        -> <<"check">> \o Given("truncate", "size" \in r.how)
                              \o Given("kind", "rights" \in r.how)
                              \o Given("chmod", "rights" \in r.how)
                              \o Given("chown", "owner" \in r.how)
    [] OTHER             -> <<"check", "look">>

TagOf(op) ==
  CASE op = "remove"                   -> "REMOVE_FILE"
    [] op = "rmdir"                    -> "REMOVE_DIR"
    [] op = "mkdir"                    -> "MAKE_DIR"
    [] op = "rename"                   -> "RENAME"
    [] op \in {"symlink", "hardlink"}  -> "SYMLINK"
    [] op \in {"setstat", "fsetstat"}  -> "SET_ATTRIBUTE"
    [] op = "statvfs"                  -> "STATSFS"
    [] OTHER                           -> "none"

\* DoOpen's own test: DisableOverwrite refuses to append.
OpenDisabled(r) == \/ "OVERWRITE" \in disabled /\ "append" \in r.how
                   \/ "WRITE_FILE" \in disabled /\ "write" \in r.how

\* DoSetStat and the two disk usage requests look at the tag after the check.
TestedLate(r) == SetStat(r) \/ r.op = "statvfs"
Disabled(r) == TagOf(r.op) \in disabled

\* Mutation of DisabledFirst: the tag is not tested before a removal.
DisabledNotRemove(r) ==
  IF r.op = "open" THEN OpenDisabled(r)
  ELSE r.op # "remove" /\ ~TestedLate(r) /\ Disabled(r)

DisabledFirst(r) == IF r.op = "open" THEN OpenDisabled(r) ELSE ~TestedLate(r) /\ Disabled(r)

Serving(r) == [Idle EXCEPT !.req = r, !.todo = Todo(r)]
Refused(r, s) == [Idle EXCEPT !.req = r, !.status = s]

\* A request by path. OPEN may be refused by the limits on open files, too.
Begin(r) ==
  /\ job = Idle
  /\ \/ job' = IF DisabledFirst(r) THEN Refused(r, "DENIED") ELSE Serving(r)
     \/ r.op = "open" /\ job' = Refused(r, "DENIED")
  /\ UNCHANGED <<fs, disabled, handle, raced>>

\* FSTAT and FSETSTAT of a handle go by the path it was opened with.
BeginHandle(r) ==
  /\ job = Idle
  /\ handle # None /\ r.p = handle.path /\ r.op # "close"
  /\ job' = Serving(r)
  /\ UNCHANGED <<fs, disabled, handle, raced>>

Close(r) ==
  /\ job = Idle
  /\ handle # None /\ r.p = handle.path /\ r.op = "close"
  /\ fs' = Settled(fs, {})
  /\ handle' = None
  /\ job' = Refused(r, "OK")
  /\ UNCHANGED <<disabled, raced>>

-----------------------------------------------------------------------------
(* One call of the request.                                                *)

Due == Head(job.todo)
Rest == Tail(job.todo)
PathOf(c) == IF c \in {"check_to", "clear"} THEN job.req.q ELSE job.req.p

\* A refused name. SETSTAT is answered with what its status was before;
\* the disk usage requests free the path they have not got.
StatusRefused ==
  IF SetStat(job.req) THEN IF Disabled(job.req) THEN "DENIED" ELSE job.status
  ELSE IF job.req.op = "statvfs" THEN "crashed" ELSE "DENIED"

\* FSCheckSecurity.
Check ==
  /\ ~Answered /\ Due \in {"check", "check_to"}
  /\ \/ /\ PathOf(Due) \notin Denied
        /\ job' = IF TestedLate(job.req) /\ Disabled(job.req)
                  THEN [job EXCEPT !.todo = <<>>, !.status = "DENIED"]
                  ELSE [job EXCEPT !.todo = Rest]
     \/ /\ PathOf(Due) \in Denied \/ HideNoAccess
        /\ job' = [job EXCEPT !.todo = <<>>, !.status = StatusRefused, !.refused = TRUE]
  /\ UNCHANGED <<fs, disabled, handle, raced>>

FileRights(r) == (r \cup FileMin) \cap FileMax
DirRights(r) == (r \cup DirMin) \cap DirMax

\* Mutation of SetRights: no distinction.
SetRightsOfFile(r, isDir) == FileRights(r)

\* The bounds of directories are for what stat said is one.
SetRights(r, isDir) == IF isDir THEN DirRights(r) ELSE FileRights(r)

Seen(r, p) == IF r.op = "lstat" THEN Lstat(fs, p) ELSE Stat(fs, p)

\* The results of a call; any may be refused by the kernel, except that stat()
\* fails only for want of what it looks for.
Results(c) ==
  LET r == job.req
      p == PathOf(c)
  IN (IF c = "kind" THEN {} ELSE Failed(fs, "other")) \cup
     CASE c = "open"     -> Open(fs, p, r.how, FileRights(r.rights), Opened)
       [] c \in {"unlink", "clear"} -> Unlink(fs, p, Opened)
       [] c = "mkdir"    -> Mkdir(fs, p, DirRights(r.rights), Opened)
       [] c = "rmdir"    -> Rmdir(fs, p, Opened)
       [] c = "rename"   -> Rename(fs, p, r.q, Opened)
       [] c = "symlink"  -> Symlink(fs, p, r.q, Opened)
       [] c = "link"     -> Link(fs, p, r.q, Opened)
       [] c = "truncate" -> Truncate(fs, p, Opened)
       [] c = "chmod"    -> Chmod(fs, p, SetRights(r.rights, job.dir), Opened)
       [] OTHER -> \* look, kind, chown
            IF Seen(r, p) = None THEN Missing(fs, p) ELSE Done(fs, Opened)

\* Mutation of errnoToPortable: errno is sent as it is.
errnoSent(e) == e

errnoToPortable(e) == IF e = "ENOENT" THEN "NO_SUCH_FILE" ELSE "FAILURE"

\* Mutation of StatusAfter: each part of SETSTAT sets the status.
StatusOfLast(c, e) == IF e = "none" THEN "OK" ELSE errnoToPortable(e)

\* A failure sets the status, but for unlink() before rename() and for stat()
\* before chmod(); a success leaves it.
StatusAfter(c, e) ==
  IF e = "none" \/ c \in {"clear", "kind"} THEN job.status ELSE errnoToPortable(e)

JobAfter(c, x, s) ==
  [job EXCEPT !.todo = Rest, !.status = s,
              !.dir = c = "kind" /\ x.err = "none" /\ IsDir(fs, Stat(fs, PathOf(c))),
              !.failed = @ \/ (x.err # "none" /\ c \notin {"clear", "kind"}),
              !.changed = @ \/ x.fs # fs]

Call ==
  /\ ~Answered /\ Due \notin {"check", "check_to", "open"}
  /\ \E x \in Results(Due) :
       /\ fs' = x.fs
       /\ job' = JobAfter(Due, x, StatusAfter(Due, x.err))
  /\ raced' = (raced \/ (Due = "chmod" /\ IsDir(fs, Stat(fs, job.req.p)) # job.dir))
  /\ UNCHANGED <<disabled, handle>>

\* open(), then HandleNewFile: with no handle left the file is closed again.
OpenFile ==
  /\ ~Answered /\ Due = "open"
  /\ \E x \in Results("open") :
       /\ fs' = x.fs
       /\ \/ /\ x.err # "none"
             /\ job' = JobAfter("open", x, StatusAfter("open", x.err))
             /\ UNCHANGED handle
          \/ /\ x.err = "none" /\ handle = None
             /\ handle' = [path |-> job.req.p, obj |-> Stat(x.fs, job.req.p)]
             /\ job' = JobAfter("open", x, StatusAfter("open", x.err))
          \/ /\ x.err = "none" /\ handle # None
             /\ job' = JobAfter("open", x, "FAILURE")
             /\ UNCHANGED handle
  /\ UNCHANGED <<disabled, raced>>

\* The answer is sent.
Send ==
  /\ Answered /\ job # Idle /\ job.status # "crashed"
  /\ job' = Idle
  /\ UNCHANGED <<fs, disabled, handle, raced>>

-----------------------------------------------------------------------------
(* Other processes: sessions of the same configuration, call by call.      *)

Removals == UNION {Unlink(fs, p, Opened) : p \in Paths}
Moves == UNION {Rename(fs, pq[1], pq[2], Opened) \cup Link(fs, pq[1], pq[2], Opened)
                : pq \in Paths \X Paths}
Creations == UNION {Mkdir(fs, pr[1], DirRights(pr[2]), Opened)
                      \cup Open(fs, pr[1], {"creat", "excl"}, FileRights(pr[2]), Opened)
                    : pr \in Paths \X RightsAsked}
Writes == UNION {Done([fs EXCEPT !.full = @ \cup {o}], Opened)
                 : o \in {i \in Objects : fs.kind[i] = "file"}}
OthersResults == Removals \cup Moves \cup Creations \cup Writes

\* What they do after the answer they may as well do once it is sent.
Others ==
  /\ job = Idle \/ ~Answered
  /\ \E x \in OthersResults : fs' = x.fs
  /\ UNCHANGED <<disabled, handle, job, raced>>

Next ==
  \/ \E r \in Requests : Begin(r)
  \/ \E r \in HandleRequests : BeginHandle(r) \/ Close(r)
  \/ Check \/ Call \/ OpenFile \/ Send
  \/ Others

Spec == Init /\ [][Next]_vars

-----------------------------------------------------------------------------
(* Properties.                                                             *)

(* A request that is refused or fails has changed nothing, with three      *)
(* exceptions: a rename that overwrites removes the destination before it  *)
(* tries to move the file (FSRename); an open that finds no free handle    *)
(* has created or truncated the file (DoOpen); a SETSTAT of several        *)
(* attributes goes on after the one that fails (DoSetStat).                *)
FailureHarmless ==
  Answered /\ job.status # "OK" /\ job.changed =>
    \/ job.req.op = "rename" /\ "overwrite" \in job.req.how
    \/ job.req.op = "open" /\ handle # None
    \/ SetStat(job.req) /\ Cardinality(job.req.how) > 1

(* SSH2_FX_OK is the answer only when every call made for the request      *)
(* succeeded, whatever other processes did to the tree in between and      *)
(* whichever of several attributes failed (DoSetStat keeps the failure),   *)
(* and never for a name that is refused, but for SETSTAT (DoSetStat leaves *)
(* its status at OK when FSCheckPath gives it no path).                    *)
OkMeansDone ==
  Answered /\ job.status = "OK" => ~job.failed /\ (job.refused => SetStat(job.req))

Within(s, min, max) == min \cap max \subseteq s /\ s \subseteq max
InBounds(k, s) ==
  /\ k = "file" => Within(s, FileMin, FileMax)
  /\ k = "dir" => Within(s, DirMin, DirMax)

(* The rights of what sessions create and of what they change stay between *)
(* MinimumRights and MaximumRights of its kind, unless another process put *)
(* something else under the name between stat() and chmod() (DoSetStat).   *)
RightsKept == raced \/ \A o \in Objects : InBounds(fs.kind[o], fs.rights[o])

\* What the request being served names, with links followed or not.
Designated == {Lstat(fs, job.req.p), Stat(fs, job.req.p)}

\* DoOpen looks for DisableWriteFile at the access asked for, not at O_TRUNC.
TruncatesToRead(r) == r.op = "open" /\ "trunc" \in r.how /\ "write" \notin r.how

(* A session makes the data of a file disappear in five ways only, and the *)
(* file is the one the request names at that instant: it removes it,       *)
(* truncates it in SETSTAT or OPEN, puts another in its place by RENAME,   *)
(* or closes it when its names are gone. The first four are each under a   *)
(* Disable tag, with one exception: an OPEN that truncates and does not    *)
(* ask for writing empties the file in spite of DisableWriteFile, against  *)
(* doc/source/tags/childs/disablewritefile.rst:8 (Sftp.c 373-374).         *)
Explained(o) ==
  LET r == job.req
  IN \/ r.op = "remove" /\ o \in Designated /\ "REMOVE_FILE" \notin disabled
     \/ SetStat(r) /\ o \in Designated /\ "SET_ATTRIBUTE" \notin disabled
     \/ r.op = "open" /\ o \in Designated /\ "trunc" \in r.how /\ "WRITE_FILE" \notin disabled
     \/ TruncatesToRead(r) /\ o \in Designated
     \/ r.op = "rename" /\ o = Lstat(fs, r.q) /\ "RENAME" \notin disabled

LossExplained ==
  [][\A o \in fs.full \ fs'.full :
       job' # job => \/ job # Idle /\ Explained(o)
                     \/ job = Idle /\ handle' # handle /\ o \in Opened]_vars

(* doc/source/tags/childs/disableoverwrite.rst:8, "This tag, deny to the   *)
(* connected user to overwrite onto an existing file": with it, no file    *)
(* loses its data because another is written or moved under its name.      *)
OverwriteDenied ==
  [][\A o \in fs.full \ fs'.full :
       job' # job /\ job # Idle /\ job.req.op \in {"open", "rename"}
         => "OVERWRITE" \notin disabled]_vars

=============================================================================
