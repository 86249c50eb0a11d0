-------------------------------- MODULE Tree --------------------------------
(***************************************************************************)
(* The file system under the sessions: objects (files, directories and     *)
(* symbolic links), the names directories give them, and the system calls  *)
(* by which sessions change them. It is the kernel's, modelled from what   *)
(* src/SftpServer/FileSystem.c and Sftp.c need of it: a call is one step,  *)
(* it changes all or nothing, and any call may be refused.                 *)
(*                                                                         *)
(* A call is an operator that gives the set of its results, each a tree    *)
(* and an error. Names are at most two components long, and one link leads *)
(* nowhere but to a file or a directory (longer chains count as loops).    *)
(***************************************************************************)
EXTENDS Naturals, Sequences, FiniteSets

CONSTANTS
  Names,     \* components of a path
  Paths,     \* the paths clients and links name
  Objects,   \* inodes
  Bits,      \* permission bits
  Root,      \* the home directory
  None       \* no object, no path

ASSUME PathsAssumption ==
  Paths \subseteq {<<n>> : n \in Names} \cup (Names \X Names)
ASSUME ObjectsAssumption ==
  Root \notin Objects /\ None \notin Objects \cup Paths \cup {Root}

Kinds == {"file", "dir", "link"}

Trees ==
  [kind : [Objects -> Kinds \cup {"free"}],        \* an unused inode is free
   rights : [Objects -> SUBSET Bits],
   full : SUBSET Objects,                          \* files that hold data
   target : [Objects -> Paths \cup {None}],        \* where a link leads
   entry : [Objects \cup {Root} -> [Names -> Objects \cup {None}]]]

EmptyTree ==
  [kind |-> [o \in Objects |-> "free"],
   rights |-> [o \in Objects |-> {}],
   full |-> {},
   target |-> [o \in Objects |-> None],
   entry |-> [d \in Objects \cup {Root} |-> [n \in Names |-> None]]]

-----------------------------------------------------------------------------
(* What names mean in the tree f.                                          *)

IsDir(f, d) == d = Root \/ (d \in Objects /\ f.kind[d] = "dir")
Entry(f, d, n) == IF IsDir(f, d) THEN f.entry[d][n] ELSE None
Last(p) == p[Len(p)]

\* The object at the end of a link that leads to another link: none (ELOOP).
Followed(f, o) ==
  IF o \in Objects /\ f.kind[o] = "link"
  THEN LET p == f.target[o]
           t == IF Len(p) = 1 THEN Entry(f, Root, p[1])
                ELSE Entry(f, Entry(f, Root, p[1]), p[2])
       IN IF t \in Objects /\ f.kind[t] = "link" THEN None ELSE t
  ELSE o

\* The directory a path is in, the object it names, and where that leads.
Dir(f, p) == IF Len(p) = 1 THEN Root ELSE Followed(f, Entry(f, Root, p[1]))
Lstat(f, p) == Entry(f, Dir(f, p), Last(p))
Stat(f, p) == Followed(f, Lstat(f, p))

Inside(f, d) == {f.entry[d][n] : n \in Names} \ {None}
NamesOf(f, o) == {e \in (Objects \cup {Root}) \X Names : f.entry[e[1]][e[2]] = o}
FreeObjects(f) == {o \in Objects : f.kind[o] = "free"}

-----------------------------------------------------------------------------
(* System calls. Opened is the set of objects some process has open: they  *)
(* outlive their last name.                                                *)

Failed(f, e) == {[fs |-> f, err |-> e]}
Missing(f, p) == Failed(f, IF Dir(f, p) = None \/ IsDir(f, Dir(f, p)) THEN "ENOENT" ELSE "other")

\* Objects without a name that nobody has open are given back.
Settled(f, opened) ==
  LET gone == {o \in Objects : NamesOf(f, o) = {} /\ o \notin opened}
  IN [f EXCEPT !.kind = [o \in Objects |-> IF o \in gone THEN "free" ELSE @[o]],
               !.rights = [o \in Objects |-> IF o \in gone THEN {} ELSE @[o]],
               !.target = [o \in Objects |-> IF o \in gone THEN None ELSE @[o]],
               !.full = @ \ gone]

Done(f, opened) == {[fs |-> Settled(f, opened), err |-> "none"]}
Named(f, p, o) == [f EXCEPT !.entry[Dir(f, p)][Last(p)] = o]

Made(f, o, k, r, t) ==
  [f EXCEPT !.kind = [@ EXCEPT ![o] = k], !.rights = [@ EXCEPT ![o] = r],
            !.target = [@ EXCEPT ![o] = t]]

\* A new object of kind k at the path p.
New(f, p, k, r, t, opened) ==
  IF Lstat(f, p) # None THEN Failed(f, "other")
  ELSE IF ~IsDir(f, Dir(f, p)) THEN Missing(f, p)
  ELSE UNION {Done(Named(Made(f, o, k, r, t), p, o), opened) : o \in FreeObjects(f)}

Mkdir(f, p, r, opened) == New(f, p, "dir", r, None, opened)
Symlink(f, t, p, opened) == New(f, p, "link", Bits, t, opened)

\* O_CREAT on a link that leads nowhere creates what it leads to.
Created(f, p) ==
  LET o == Lstat(f, p) IN IF o # None /\ f.kind[o] = "link" THEN f.target[o] ELSE p

\* A path whose directory is named by a link.
Through(f, p) == Len(p) = 2 /\ Dir(f, p) # Entry(f, Root, p[1])

Open(f, p, how, r, opened) ==
  LET o == Stat(f, p)
  IN IF {"creat", "excl"} \subseteq how /\ Lstat(f, p) # None THEN Failed(f, "other")
     ELSE IF o # None
     THEN IF f.kind[o] = "dir" /\ how # {}
          THEN Failed(f, "other")
          ELSE Done([f EXCEPT !.full = IF "trunc" \in how THEN @ \ {o} ELSE @], opened)
     ELSE IF "creat" \in how /\ Lstat(f, p) # None /\ Through(f, Created(f, p))
     THEN Failed(f, "other")
     ELSE IF "creat" \in how
     THEN New(f, Created(f, p), "file", r, None, opened)
     ELSE Missing(f, p)

Unlink(f, p, opened) ==
  IF Lstat(f, p) = None THEN Missing(f, p)
  ELSE IF f.kind[Lstat(f, p)] = "dir" THEN Failed(f, "other")
  ELSE Done(Named(f, p, None), opened)

Rmdir(f, p, opened) ==
  LET o == Lstat(f, p)
  IN IF o = None THEN Missing(f, p)
     ELSE IF f.kind[o] # "dir" \/ Inside(f, o) # {} THEN Failed(f, "other")
     ELSE Done(Named(f, p, None), opened)

Link(f, old, new, opened) ==
  LET o == Lstat(f, old)
  IN IF o = None THEN Missing(f, old)
     ELSE IF f.kind[o] = "dir" \/ Lstat(f, new) # None THEN Failed(f, "other")
     ELSE IF ~IsDir(f, Dir(f, new)) THEN Missing(f, new)
     ELSE Done(Named(f, new, o), opened)

\* A directory may not move into itself, and only replaces an empty one. Two
\* names of one object are left alone.
Rename(f, old, new, opened) ==
  LET o == Lstat(f, old)
      n == Lstat(f, new)
      d == Dir(f, new)
      isDir == IF o = None THEN FALSE ELSE f.kind[o] = "dir"
      fits == \/ n = None
              \/ ~isDir /\ f.kind[n] # "dir"
              \/ isDir /\ f.kind[n] = "dir" /\ Inside(f, n) = {}
  IN IF o = None THEN Missing(f, old)
     ELSE IF ~IsDir(f, d) THEN Missing(f, new)
     ELSE IF n = o THEN Done(f, opened)
     ELSE IF d = o \/ d \in Inside(f, o) \/ ~fits THEN Failed(f, "other")
     ELSE Done([f EXCEPT !.entry = [@ EXCEPT ![Dir(f, old)][Last(old)] = None,
                                             ![d][Last(new)] = o]], opened)

Truncate(f, p, opened) ==
  LET o == Stat(f, p)
  IN IF o = None THEN Missing(f, p)
     ELSE IF f.kind[o] = "dir" THEN Failed(f, "other")
     ELSE Done([f EXCEPT !.full = @ \ {o}], opened)

Chmod(f, p, r, opened) ==
  IF Stat(f, p) = None THEN Missing(f, p)
  ELSE Done([f EXCEPT !.rights[Stat(f, p)] = r], opened)

=============================================================================
