---------------------------- MODULE FilesProofs -----------------------------
(***************************************************************************)
(* What holds of Files for all names, objects, rights and profiles: the    *)
(* rights of files and directories stay between their bounds, OK is never  *)
(* the answer to a request one of whose calls failed, what failed has      *)
(* changed nothing but in three named cases, and data disappear in named   *)
(* ways only.                                                              *)
(***************************************************************************)
EXTENDS Files, FiniteSetTheorems, SequenceTheorems, TLAPS

(* The proof of the bounds looks at kinds and rights only. Where names     *)
(* lead does not matter: whatever object a call ends on, it gets rights    *)
(* within the bounds of its kind, or those of a link, or none.             *)
Shaped(f) ==
  /\ f = [kind |-> f.kind, rights |-> f.rights, full |-> f.full,
          target |-> f.target, entry |-> f.entry]
  /\ f.kind \in [Objects -> Kinds \cup {"free"}]
  /\ f.rights \in [Objects -> SUBSET Bits]

Bounded(f) == \A o \in Objects : InBounds(f.kind[o], f.rights[o])

\* Results of a call on f that leave the rights in their bounds.
Keeping(f, results) ==
  \A x \in results : Shaped(x.fs) /\ (Bounded(f) => Bounded(x.fs))

RightsInv == Shaped(fs) /\ RightsKept

-----------------------------------------------------------------------------
(* The calls.                                                              *)

LEMMA FailedKeeps ==
  ASSUME NEW f, NEW e, Shaped(f)
  PROVE  Keeping(f, Failed(f, e))
  BY DEF Keeping, Failed

LEMMA MissingKeeps ==
  ASSUME NEW f, NEW p, Shaped(f)
  PROVE  Keeping(f, Missing(f, p))
  BY FailedKeeps DEF Missing

\* What is given back has no rights, and no bounds.
LEMMA DoneKeeps ==
  ASSUME NEW f, NEW g, NEW opened, Shaped(g), Bounded(f) => Bounded(g)
  PROVE  Keeping(f, Done(g, opened))
  <1> DEFINE gone == {o \in Objects : NamesOf(g, o) = {} /\ o \notin opened}
             s == Settled(g, opened)
  <1>1. /\ s.kind = [o \in Objects |-> IF o \in gone THEN "free" ELSE g.kind[o]]
        /\ s.rights = [o \in Objects |-> IF o \in gone THEN {} ELSE g.rights[o]]
        /\ s = [kind |-> s.kind, rights |-> s.rights, full |-> s.full,
                target |-> s.target, entry |-> s.entry]
    <2>1. PICK k, r, u, t, e :
            g = [kind |-> k, rights |-> r, full |-> u, target |-> t, entry |-> e]
      BY DEF Shaped
    <2>2. s = [kind |-> [o \in Objects |-> IF o \in gone THEN "free" ELSE k[o]],
               rights |-> [o \in Objects |-> IF o \in gone THEN {} ELSE r[o]],
               full |-> u \ gone,
               target |-> [o \in Objects |-> IF o \in gone THEN None ELSE t[o]],
               entry |-> e]
      <3> HIDE DEF gone
      <3>1. s = [g EXCEPT !.kind = [o \in Objects |-> IF o \in gone THEN "free" ELSE @[o]],
                          !.rights = [o \in Objects |-> IF o \in gone THEN {} ELSE @[o]],
                          !.target = [o \in Objects |-> IF o \in gone THEN None ELSE @[o]],
                          !.full = @ \ gone]
        BY DEF Settled, gone
      <3> HIDE DEF s
      <3> QED BY <2>1, <3>1
    <2> HIDE DEF gone, s
    <2> QED BY <2>1, <2>2
  <1> HIDE DEF gone, s
  <1>2. Shaped(s)
    BY <1>1 DEF Shaped
  <1>3. ASSUME Bounded(g) PROVE Bounded(s)
    BY <1>1, <1>3 DEF Bounded, InBounds
  <1>4. Done(g, opened) = {[fs |-> s, err |-> "none"]}
    BY DEF Done, s
  <1> QED BY <1>2, <1>3, <1>4 DEF Keeping

\* Names are given and taken without a change of kinds and rights.
LEMMA NamedShaped ==
  ASSUME NEW f, NEW p, NEW o, Shaped(f)
  PROVE  Shaped(Named(f, p, o)) /\ (Bounded(f) => Bounded(Named(f, p, o)))
  BY DEF Named, Shaped, Bounded

\* What is made has rights within the bounds of its kind.
LEMMA MadeShaped ==
  ASSUME NEW f, NEW o, NEW k \in Kinds, NEW r \in SUBSET Bits, NEW t, Shaped(f), InBounds(k, r)
  PROVE  Shaped(Made(f, o, k, r, t)) /\ (Bounded(f) => Bounded(Made(f, o, k, r, t)))
  <1> DEFINE g == Made(f, o, k, r, t)
  <1>1. PICK a, b, u, v, e :
          f = [kind |-> a, rights |-> b, full |-> u, target |-> v, entry |-> e]
    BY DEF Shaped
  <1>2. g = [kind |-> [a EXCEPT ![o] = k], rights |-> [b EXCEPT ![o] = r], full |-> u,
             target |-> [v EXCEPT ![o] = t], entry |-> e]
    <2> DEFINE x == [a EXCEPT ![o] = k]
               y == [b EXCEPT ![o] = r]
               z == [v EXCEPT ![o] = t]
    <2>1. g = [f EXCEPT !.kind = x, !.rights = y, !.target = z]
      BY <1>1 DEF Made
    <2> HIDE DEF g, x, y, z
    <2>2. g = [kind |-> x, rights |-> y, full |-> u, target |-> z, entry |-> e]
      BY <1>1, <2>1
    <2> QED BY <2>2 DEF x, y, z
  <1> HIDE DEF g
  <1>3. Shaped(g) BY <1>1, <1>2 DEF Shaped
  <1>4. ASSUME Bounded(f) PROVE Bounded(g)
    BY <1>1, <1>2, <1>4 DEF Bounded, Shaped
  <1> QED BY <1>3, <1>4 DEF g

LEMMA NewKeeps ==
  ASSUME NEW f, NEW p, NEW k \in Kinds, NEW r \in SUBSET Bits, NEW t, NEW opened,
         Shaped(f), InBounds(k, r)
  PROVE  Keeping(f, New(f, p, k, r, t, opened))
  <1>1. ASSUME NEW o
        PROVE  Keeping(f, Done(Named(Made(f, o, k, r, t), p, o), opened))
    BY MadeShaped, NamedShaped, DoneKeeps
  <1> DEFINE created ==
        UNION {Done(Named(Made(f, o, k, r, t), p, o), opened) : o \in FreeObjects(f)}
  <1>2. Keeping(f, created) BY <1>1 DEF Keeping
  <1> HIDE DEF created
  <1>3. Keeping(f, Failed(f, "other")) /\ Keeping(f, Missing(f, p))
    BY FailedKeeps, MissingKeeps
  <1> QED BY <1>2, <1>3 DEF New, created

\* Data come and go without a change of kinds and rights.
LEMMA FullShaped ==
  ASSUME NEW f, NEW s, Shaped(f)
  PROVE  /\ Shaped([f EXCEPT !.full = s])
         /\ Bounded(f) => Bounded([f EXCEPT !.full = s])
  BY DEF Shaped, Bounded

LEMMA MkdirKeeps ==
  ASSUME NEW f, NEW p, NEW r \in SUBSET Bits, NEW opened, Shaped(f), InBounds("dir", r)
  PROVE  Keeping(f, Mkdir(f, p, r, opened))
  BY NewKeeps DEF Mkdir, Kinds

LEMMA SymlinkKeeps ==
  ASSUME NEW f, NEW t, NEW p, NEW opened, Shaped(f)
  PROVE  Keeping(f, Symlink(f, t, p, opened))
  BY NewKeeps DEF Symlink, Kinds, InBounds

LEMMA OpenKeeps ==
  ASSUME NEW f, NEW p, NEW how, NEW r \in SUBSET Bits, NEW opened,
         Shaped(f), InBounds("file", r)
  PROVE  Keeping(f, Open(f, p, how, r, opened))
  <1>1. Keeping(f, Failed(f, "other")) /\ Keeping(f, Missing(f, p))
    BY FailedKeeps, MissingKeeps
  <1>2. Keeping(f, New(f, Created(f, p), "file", r, None, opened))
    BY NewKeeps DEF Kinds
  <1>3. ASSUME NEW o
        PROVE  Keeping(f, Done([f EXCEPT !.full = IF "trunc" \in how THEN @ \ {o} ELSE @], opened))
    BY FullShaped, DoneKeeps
  <1> QED BY <1>1, <1>2, <1>3 DEF Open

LEMMA UnlinkKeeps ==
  ASSUME NEW f, NEW p, NEW opened, Shaped(f)
  PROVE  Keeping(f, Unlink(f, p, opened))
  BY FailedKeeps, MissingKeeps, NamedShaped, DoneKeeps DEF Unlink

LEMMA RmdirKeeps ==
  ASSUME NEW f, NEW p, NEW opened, Shaped(f)
  PROVE  Keeping(f, Rmdir(f, p, opened))
  BY FailedKeeps, MissingKeeps, NamedShaped, DoneKeeps DEF Rmdir

LEMMA LinkKeeps ==
  ASSUME NEW f, NEW old, NEW new, NEW opened, Shaped(f)
  PROVE  Keeping(f, Link(f, old, new, opened))
  BY FailedKeeps, MissingKeeps, NamedShaped, DoneKeeps DEF Link

LEMMA RenameKeeps ==
  ASSUME NEW f, NEW old, NEW new, NEW opened, Shaped(f)
  PROVE  Keeping(f, Rename(f, old, new, opened))
  <1> DEFINE o == Lstat(f, old)
             d == Dir(f, new)
             g == [f EXCEPT !.entry = [@ EXCEPT ![Dir(f, old)][Last(old)] = None,
                                                ![d][Last(new)] = o]]
  <1>1. Shaped(g) /\ (Bounded(f) => Bounded(g))
    <2>1. PICK k, r, u, t, e :
            f = [kind |-> k, rights |-> r, full |-> u, target |-> t, entry |-> e]
      BY DEF Shaped
    <2> DEFINE x == [e EXCEPT ![Dir(f, old)][Last(old)] = None, ![d][Last(new)] = o]
    <2>2. g = [kind |-> k, rights |-> r, full |-> u, target |-> t, entry |-> x]
      BY <2>1
    <2> HIDE DEF g, x
    <2> QED BY <2>1, <2>2 DEF Shaped, Bounded
  <1> HIDE DEF g
  <1>2. Keeping(f, Done(g, opened)) /\ Keeping(f, Done(f, opened)) BY <1>1, DoneKeeps
  <1>3. /\ Keeping(f, Failed(f, "other"))
        /\ Keeping(f, Missing(f, old)) /\ Keeping(f, Missing(f, new))
    BY FailedKeeps, MissingKeeps
  <1> QED BY <1>2, <1>3 DEF Rename, g

LEMMA TruncateKeeps ==
  ASSUME NEW f, NEW p, NEW opened, Shaped(f)
  PROVE  Keeping(f, Truncate(f, p, opened))
  BY FailedKeeps, MissingKeeps, FullShaped, DoneKeeps DEF Truncate

\* chmod() keeps the bounds when its rights are right for what it meets.
LEMMA ChmodKeeps ==
  ASSUME NEW f, NEW p, NEW r \in SUBSET Bits, NEW opened, Shaped(f)
  PROVE  /\ \A x \in Chmod(f, p, r, opened) : Shaped(x.fs)
         /\ (Stat(f, p) \in Objects => InBounds(f.kind[Stat(f, p)], r))
              => Keeping(f, Chmod(f, p, r, opened))
  <1> DEFINE o == Stat(f, p)
             g == [f EXCEPT !.rights[o] = r]
             fit == o \in Objects => InBounds(f.kind[o], r)
  <1>1. /\ g.kind = f.kind
        /\ g.rights = [f.rights EXCEPT ![o] = r]
        /\ g = [kind |-> g.kind, rights |-> g.rights, full |-> g.full,
                target |-> g.target, entry |-> g.entry]
    BY DEF Shaped
  <1> HIDE DEF g, o
  <1>2. Shaped(g) BY <1>1 DEF Shaped
  <1>3. ASSUME fit, Bounded(f) PROVE Bounded(g)
    BY <1>1, <1>3 DEF Bounded, Shaped
  <1> HIDE DEF fit
  <1>4. \A x \in Done(g, opened) : Shaped(x.fs)
    BY <1>2, DoneKeeps DEF Keeping
  <1>5. ASSUME fit PROVE Keeping(f, Done(g, opened))
    BY <1>2, <1>3, <1>5, DoneKeeps
  <1>6. Keeping(f, Missing(f, p)) BY MissingKeeps
  <1> QED BY <1>4, <1>5, <1>6 DEF Chmod, Keeping, g, o, fit

-----------------------------------------------------------------------------
(* The rights.                                                             *)

LEMMA RightsBits == FileMin \subseteq Bits /\ FileMax \subseteq Bits
                      /\ DirMin \subseteq Bits /\ DirMax \subseteq Bits
  BY RightsAssumption

\* The two maskings give bounded rights, whatever is asked.
LEMMA MaskingsBound ==
  ASSUME NEW r
  PROVE  /\ FileRights(r) \in SUBSET Bits /\ InBounds("file", FileRights(r))
         /\ DirRights(r) \in SUBSET Bits /\ InBounds("dir", DirRights(r))
  BY RightsBits DEF FileRights, DirRights, InBounds, Within

\* Every call but chmod() keeps the bounds; chmod() does unless the kind of
\* what it meets is not the one stat() saw.
LEMMA ResultsKeep ==
  ASSUME NEW c, Shaped(fs)
  PROVE  /\ \A x \in Results(c) : Shaped(x.fs)
         /\ \/ c = "chmod" /\ IsDir(fs, Stat(fs, PathOf(c))) # job.dir
            \/ Keeping(fs, Results(c))
  <1> DEFINE r == job.req
             p == PathOf(c)
             refused == IF c = "kind" THEN {} ELSE Failed(fs, "other")
             results ==
               CASE c = "open"     -> Open(fs, p, r.how, FileRights(r.rights), Opened)
                 [] c \in {"unlink", "clear"} -> Unlink(fs, p, Opened)
                 [] c = "mkdir"    -> Mkdir(fs, p, DirRights(r.rights), Opened)
                 [] c = "rmdir"    -> Rmdir(fs, p, Opened)
                 [] c = "rename"   -> Rename(fs, p, r.q, Opened)
                 [] c = "symlink"  -> Symlink(fs, p, r.q, Opened)
                 [] c = "link"     -> Link(fs, p, r.q, Opened)
                 [] c = "truncate" -> Truncate(fs, p, Opened)
                 [] c = "chmod"    -> Chmod(fs, p, SetRights(r.rights, job.dir), Opened)
                 [] OTHER -> IF Seen(r, p) = None THEN Missing(fs, p) ELSE Done(fs, Opened)
  <1>1. Results(c) = refused \cup results BY DEF Results
  <1>2. Keeping(fs, refused) BY FailedKeeps DEF Keeping
  <1>3. CASE c = "open"
    <2>1. Keeping(fs, Open(fs, p, r.how, FileRights(r.rights), Opened))
      BY OpenKeeps, MaskingsBound
    <2> QED BY <1>1, <1>2, <1>3, <2>1 DEF Keeping
  <1>4. CASE c \in {"unlink", "clear"}
    <2>1. Keeping(fs, Unlink(fs, p, Opened)) BY UnlinkKeeps
    <2> QED BY <1>1, <1>2, <1>4, <2>1 DEF Keeping
  <1>5. CASE c = "mkdir"
    <2>1. Keeping(fs, Mkdir(fs, p, DirRights(r.rights), Opened)) BY MkdirKeeps, MaskingsBound
    <2> QED BY <1>1, <1>2, <1>5, <2>1 DEF Keeping
  <1>6. CASE c = "rmdir"
    <2>1. Keeping(fs, Rmdir(fs, p, Opened)) BY RmdirKeeps
    <2> QED BY <1>1, <1>2, <1>6, <2>1 DEF Keeping
  <1>7. CASE c = "rename"
    <2>1. Keeping(fs, Rename(fs, p, r.q, Opened)) BY RenameKeeps
    <2> QED BY <1>1, <1>2, <1>7, <2>1 DEF Keeping
  <1>8. CASE c = "symlink"
    <2>1. Keeping(fs, Symlink(fs, p, r.q, Opened)) BY SymlinkKeeps
    <2> QED BY <1>1, <1>2, <1>8, <2>1 DEF Keeping
  <1>9. CASE c = "link"
    <2>1. Keeping(fs, Link(fs, p, r.q, Opened)) BY LinkKeeps
    <2> QED BY <1>1, <1>2, <1>9, <2>1 DEF Keeping
  <1>10. CASE c = "truncate"
    <2>1. Keeping(fs, Truncate(fs, p, Opened)) BY TruncateKeeps
    <2> QED BY <1>1, <1>2, <1>10, <2>1 DEF Keeping
  <1>11. CASE c = "chmod"
    <2> DEFINE s == SetRights(r.rights, job.dir)
    <2>1. s \in SUBSET Bits BY MaskingsBound DEF SetRights
    <2>2. ASSUME IsDir(fs, Stat(fs, p)) = job.dir, Stat(fs, p) \in Objects
          PROVE  InBounds(fs.kind[Stat(fs, p)], s)
      <3>1. CASE fs.kind[Stat(fs, p)] = "dir"
        <4>1. job.dir BY <2>2, <3>1 DEF IsDir
        <4> QED BY <3>1, <4>1, MaskingsBound DEF SetRights
      <3>2. CASE fs.kind[Stat(fs, p)] = "file"
        <4>1. ~job.dir BY <2>2, <3>2, ObjectsAssumption DEF IsDir
        <4> QED BY <3>2, <4>1, MaskingsBound DEF SetRights
      <3> QED BY <3>1, <3>2 DEF InBounds
    <2> HIDE DEF s
    <2>3. /\ \A x \in Chmod(fs, p, s, Opened) : Shaped(x.fs)
          /\ IsDir(fs, Stat(fs, p)) = job.dir => Keeping(fs, Chmod(fs, p, s, Opened))
      BY <2>1, <2>2, ChmodKeeps
    <2>4. results = Chmod(fs, p, s, Opened) BY <1>11 DEF s
    <2> QED BY <1>1, <1>2, <1>11, <2>3, <2>4 DEF Keeping
  <1>12. CASE c \notin {"open", "unlink", "clear", "mkdir", "rmdir", "rename", "symlink",
                        "link", "truncate", "chmod"}
    <2>1. Keeping(fs, Missing(fs, p)) /\ Keeping(fs, Done(fs, Opened))
      BY MissingKeeps, DoneKeeps
    <2> QED BY <1>1, <1>2, <1>12, <2>1 DEF Keeping
  <1> QED BY <1>3, <1>4, <1>5, <1>6, <1>7, <1>8, <1>9, <1>10, <1>11, <1>12

\* So do the calls of the other sessions.
LEMMA OthersKeep ==
  ASSUME Shaped(fs)
  PROVE  Keeping(fs, OthersResults)
  <1>1. \A p, q : /\ Keeping(fs, Unlink(fs, p, Opened))
                  /\ Keeping(fs, Rename(fs, p, q, Opened))
                  /\ Keeping(fs, Link(fs, p, q, Opened))
    BY UnlinkKeeps, RenameKeeps, LinkKeeps
  <1>2. \A p, r : /\ Keeping(fs, Mkdir(fs, p, DirRights(r), Opened))
                  /\ Keeping(fs, Open(fs, p, {"creat", "excl"}, FileRights(r), Opened))
    BY MkdirKeeps, OpenKeeps, MaskingsBound
  <1>3. \A o : Keeping(fs, Done([fs EXCEPT !.full = @ \cup {o}], Opened))
    BY FullShaped, DoneKeeps
  <1>4. Keeping(fs, Removals) BY <1>1 DEF Removals, Keeping
  <1>5. Keeping(fs, Moves) BY <1>1 DEF Moves, Keeping
  <1>6. Keeping(fs, Creations) BY <1>2 DEF Creations, Keeping
  <1>7. Keeping(fs, Writes) BY <1>3 DEF Writes, Keeping
  <1> QED BY <1>4, <1>5, <1>6, <1>7 DEF OthersResults, Keeping

(* The rights of what sessions create and change stay between the bounds   *)
(* of its kind, for all bounds and all requests, unless the kind of what a *)
(* name designates changes between stat() and chmod() (DoSetStat).         *)
THEOREM RightsBounded == Spec => []RightsKept
  <1>1. Init => RightsInv
    BY DEF Init, EmptyTree, RightsInv, RightsKept, Shaped, Kinds, InBounds
  <1>2. RightsInv /\ [Next]_vars => RightsInv'
    <2> SUFFICES ASSUME RightsInv, [Next]_vars PROVE RightsInv'
      OBVIOUS
    <2> USE DEF RightsInv
    <2>1. ASSUME UNCHANGED <<fs, raced>> PROVE RightsInv'
      BY <2>1 DEF RightsKept, Shaped
    <2>2. ASSUME Keeping(fs, {[fs |-> fs', err |-> "none"]}), raced' = raced PROVE RightsInv'
      BY <2>2 DEF Keeping, RightsKept, Bounded, Shaped
    <2>3. CASE Call
      <3>1. PICK x \in Results(Due) : fs' = x.fs BY <2>3 DEF Call
      <3>2. raced' = (raced \/ (Due = "chmod" /\ IsDir(fs, Stat(fs, job.req.p)) # job.dir))
        BY <2>3 DEF Call
      <3>3. Shaped(fs') BY <3>1, ResultsKeep
      <3>4. ASSUME ~raced' PROVE Bounded(fs')
        <4>1. Keeping(fs, Results(Due)) BY <3>2, <3>4, ResultsKeep DEF PathOf
        <4>2. Bounded(fs) BY <3>2, <3>4 DEF RightsKept, Bounded
        <4> QED BY <3>1, <4>1, <4>2 DEF Keeping
      <3> QED BY <3>3, <3>4 DEF RightsKept, Bounded, Shaped
    <2>4. CASE OpenFile
      <3>1. PICK x \in Results("open") : fs' = x.fs BY <2>4 DEF OpenFile
      <3>2. Keeping(fs, Results("open")) BY ResultsKeep
      <3> QED BY <2>2, <2>4, <3>1, <3>2 DEF OpenFile, Keeping
    <2>5. CASE Others
      <3>1. PICK x \in OthersResults : fs' = x.fs BY <2>5 DEF Others
      <3> QED BY <2>2, <2>5, <3>1, OthersKeep DEF Others, Keeping
    <2>6. ASSUME NEW r \in HandleRequests, Close(r) PROVE RightsInv'
      <3>1. Keeping(fs, Done(fs, {})) BY DoneKeeps
      <3> QED BY <2>2, <2>6, <3>1 DEF Close, Done, Keeping
    <2>7. ASSUME NEW r \in Requests, Begin(r) PROVE RightsInv'
      BY <2>1, <2>7 DEF Begin
    <2>8. ASSUME NEW r \in HandleRequests, BeginHandle(r) PROVE RightsInv'
      BY <2>1, <2>8 DEF BeginHandle
    <2>9. CASE Check BY <2>1, <2>9 DEF Check
    <2>10. CASE Send BY <2>1, <2>10 DEF Send
    <2>11. CASE UNCHANGED vars BY <2>1, <2>11 DEF vars
    <2> QED
      BY <2>3, <2>4, <2>5, <2>6, <2>7, <2>8, <2>9, <2>10, <2>11 DEF Next
  <1>3. RightsInv => RightsKept BY DEF RightsInv
  <1> QED BY <1>1, <1>2, <1>3, PTL DEF Spec

-----------------------------------------------------------------------------
(* The answers.                                                            *)

\* A failure is in the status from the call that fails to the answer, and a
\* refusal that is not ends a SETSTAT.
JobShaped(j) ==
  j = [req |-> j.req, todo |-> j.todo, status |-> j.status, dir |-> j.dir,
       refused |-> j.refused, failed |-> j.failed, changed |-> j.changed]

StatusInv ==
  /\ JobShaped(job)
  /\ job.failed => job.status # "OK"
  /\ job.refused => job.todo = <<>> /\ (job.status = "OK" => SetStat(job.req))

\* No errno is sent as OK.
LEMMA ErrorsSent == \A e : errnoToPortable(e) # "OK"
  BY DEF errnoToPortable

\* What a call does to the answer.
LEMMA JobAfterKeeps ==
  ASSUME NEW c, NEW x, NEW s, StatusInv, ~Answered, job' = JobAfter(c, x, s),
         s = StatusAfter(c, x.err) \/ s = "FAILURE"
  PROVE  StatusInv'
  <1>1. /\ JobShaped(job')
        /\ job'.failed = (job.failed \/ (x.err # "none" /\ c \notin {"clear", "kind"}))
        /\ job'.status = s /\ job'.refused = job.refused
    BY DEF JobAfter, StatusInv, JobShaped
  <1>2. ~job.refused BY DEF StatusInv, Answered
  <1>3. (job.failed \/ (x.err # "none" /\ c \notin {"clear", "kind"})) => s # "OK"
    BY ErrorsSent DEF StatusAfter, StatusInv
  <1> QED BY <1>1, <1>2, <1>3 DEF StatusInv

(* OK is never the answer to a request one of whose calls failed, nor, but *)
(* for SETSTAT, to one for a name that is refused: for all requests, and   *)
(* whatever other processes do.                                            *)
THEOREM OkIsHonest == Spec => []OkMeansDone
  <1>1. Init => StatusInv
    BY DEF Init, Idle, StatusInv, JobShaped
  <1>2. StatusInv /\ [Next]_vars => StatusInv'
    <2> SUFFICES ASSUME StatusInv, [Next]_vars PROVE StatusInv'
      OBVIOUS
    <2>1. ASSUME job' = job PROVE StatusInv'
      BY <2>1 DEF StatusInv, JobShaped
    <2>2. ASSUME NEW r, job' = Serving(r) \/ (\E s : job' = Refused(r, s)) \/ job' = Idle
          PROVE  StatusInv'
      <3>1. JobShaped(job') /\ job'.failed = FALSE /\ job'.refused = FALSE
        <4>1. CASE job' = Serving(r) BY <4>1 DEF Serving, Idle, JobShaped
        <4>2. CASE \E s : job' = Refused(r, s) BY <4>2 DEF Refused, Idle, JobShaped
        <4>3. CASE job' = Idle BY <4>3 DEF Idle, JobShaped
        <4> QED BY <2>2, <4>1, <4>2, <4>3
      <3> QED BY <3>1 DEF StatusInv
    <2>3. CASE Call
      <3>1. PICK x \in Results(Due) : job' = JobAfter(Due, x, StatusAfter(Due, x.err))
        BY <2>3 DEF Call
      <3> QED BY <2>3, <3>1, JobAfterKeeps DEF Call
    <2>4. CASE OpenFile
      <3>1. PICK x \in Results("open") :
              \/ job' = JobAfter("open", x, StatusAfter("open", x.err))
              \/ job' = JobAfter("open", x, "FAILURE")
        BY <2>4 DEF OpenFile
      <3> QED BY <2>4, <3>1, JobAfterKeeps DEF OpenFile
    <2>5. CASE Check
      <3>1. ~job.refused BY <2>5 DEF Check, StatusInv, Answered
      <3>2. CASE job' = [job EXCEPT !.todo = <<>>, !.status = "DENIED"]
        BY <3>1, <3>2 DEF StatusInv, JobShaped
      <3>3. CASE job' = [job EXCEPT !.todo = Rest]
        BY <3>1, <3>3 DEF StatusInv, JobShaped
      <3>4. CASE job' = [job EXCEPT !.todo = <<>>, !.status = StatusRefused, !.refused = TRUE]
        <4>1. /\ JobShaped(job') /\ job'.req = job.req /\ job'.todo = <<>>
              /\ job'.status = StatusRefused /\ job'.failed = job.failed
          BY <3>4 DEF StatusInv, JobShaped
        <4> QED BY <4>1 DEF StatusInv, StatusRefused, SetStat
      <3> QED BY <2>5, <3>2, <3>3, <3>4 DEF Check
    <2>6. ASSUME NEW r \in Requests, Begin(r) PROVE StatusInv'
      BY <2>2, <2>6 DEF Begin
    <2>7. ASSUME NEW r \in HandleRequests, BeginHandle(r) PROVE StatusInv'
      BY <2>2, <2>7 DEF BeginHandle
    <2>8. ASSUME NEW r \in HandleRequests, Close(r) PROVE StatusInv'
      BY <2>2, <2>8 DEF Close
    <2>9. CASE Send BY <2>2, <2>9 DEF Send
    <2>10. CASE Others BY <2>1, <2>10 DEF Others
    <2>11. CASE UNCHANGED vars BY <2>1, <2>11 DEF vars
    <2> QED
      BY <2>3, <2>4, <2>5, <2>6, <2>7, <2>8, <2>9, <2>10, <2>11 DEF Next
  <1>3. StatusInv => OkMeansDone BY DEF StatusInv, OkMeansDone
  <1> QED BY <1>1, <1>2, <1>3, PTL DEF Spec

-----------------------------------------------------------------------------
(* The tree. Calls are all or nothing, what they leave is a tree whose      *)
(* names lead to inodes in use, and inodes without a name are given back    *)
(* unless they are open: with this the results of a call say which file     *)
(* lost its data.                                                           *)
Dirs == Objects \cup {Root}

HasName(f, o) == \E d \in Dirs, n \in Names : f.entry[d][n] = o

\* A tree where links lead somewhere, names to inodes in use, and only files
\* hold data.
Formed(f) ==
  /\ f \in Trees
  /\ \A o \in Objects : f.kind[o] = "link" => f.target[o] \in Paths
  /\ \A d \in Dirs, n \in Names : f.entry[d][n] \in Objects => f.kind[f.entry[d][n]] # "free"
  /\ \A o \in f.full : f.kind[o] = "file"

Blank(f, o) == f.kind[o] = "free" /\ f.rights[o] = {} /\ f.target[o] = None

Sound(f, opened) ==
  Formed(f) /\ \A o \in Objects : HasName(f, o) \/ o \in opened \/ Blank(f, o)

\* Results of a call on f: a failure changes nothing, and only files of L
\* lose their data.
Good(f, opened, results, L) ==
  \A x \in results : /\ Sound(x.fs, opened)
                     /\ x.err # "none" => x.fs = f
                     /\ f.full \ x.fs.full \subseteq L

\* The parts of a tree.
LEMMA TreeParts ==
  ASSUME NEW f \in Trees
  PROVE  /\ f.kind \in [Objects -> Kinds \cup {"free"}]
         /\ f.rights \in [Objects -> SUBSET Bits]
         /\ f.full \in SUBSET Objects
         /\ f.target \in [Objects -> Paths \cup {None}]
         /\ f.entry \in [Dirs -> [Names -> Objects \cup {None}]]
         /\ f = [kind |-> f.kind, rights |-> f.rights, full |-> f.full,
                 target |-> f.target, entry |-> f.entry]
  BY DEF Trees, Dirs

LEMMA TreeOf ==
  ASSUME NEW k \in [Objects -> Kinds \cup {"free"}], NEW r \in [Objects -> SUBSET Bits],
         NEW u \in SUBSET Objects, NEW t \in [Objects -> Paths \cup {None}],
         NEW e \in [Dirs -> [Names -> Objects \cup {None}]]
  PROVE  [kind |-> k, rights |-> r, full |-> u, target |-> t, entry |-> e] \in Trees
  BY DEF Trees, Dirs

LEMMA NamesOfIs ==
  ASSUME NEW f, NEW o
  PROVE  NamesOf(f, o) = {} <=> ~HasName(f, o)
  <1>1. ASSUME NEW d \in Dirs, NEW n \in Names, f.entry[d][n] = o PROVE NamesOf(f, o) # {}
    <2>1. <<d, n>> \in Dirs \X Names /\ <<d, n>>[1] = d /\ <<d, n>>[2] = n
      OBVIOUS
    <2>2. <<d, n>> \in NamesOf(f, o)
      BY <1>1, <2>1 DEF NamesOf, Dirs
    <2> QED BY <2>2
  <1>2. ASSUME NEW e \in NamesOf(f, o) PROVE HasName(f, o)
    BY <1>2 DEF NamesOf, HasName, Dirs
  <1> QED BY <1>1, <1>2 DEF HasName

\* What giving back does.
LEMMA SettledIs ==
  ASSUME NEW f \in Trees, NEW opened
  PROVE  LET s == Settled(f, opened)
         IN /\ s \in Trees
            /\ s.entry = f.entry
            /\ \A o \in Objects : ~HasName(f, o) /\ o \notin opened =>
                  Blank(s, o) /\ o \notin s.full
            /\ \A o \in Objects : HasName(f, o) \/ o \in opened =>
                  /\ s.kind[o] = f.kind[o]
                  /\ s.rights[o] = f.rights[o]
                  /\ s.target[o] = f.target[o]
                  /\ o \in s.full <=> o \in f.full
  <1> DEFINE gone == {o \in Objects : NamesOf(f, o) = {} /\ o \notin opened}
             k == [o \in Objects |-> IF o \in gone THEN "free" ELSE f.kind[o]]
             r == [o \in Objects |-> IF o \in gone THEN {} ELSE f.rights[o]]
             t == [o \in Objects |-> IF o \in gone THEN None ELSE f.target[o]]
             u == f.full \ gone
             s == Settled(f, opened)
  <1>1. s = [f EXCEPT !.kind = k, !.rights = r, !.target = t, !.full = u]
    BY DEF Settled
  <1>2. \A o \in Objects : o \in gone <=> ~HasName(f, o) /\ o \notin opened
    BY NamesOfIs
  <1>3. /\ k \in [Objects -> Kinds \cup {"free"}] /\ r \in [Objects -> SUBSET Bits]
        /\ t \in [Objects -> Paths \cup {None}] /\ u \in SUBSET Objects
    <2> HIDE DEF gone
    <2> QED BY TreeParts
  <1> HIDE DEF s, k, r, t, u
  <1>4. s = [kind |-> k, rights |-> r, full |-> u, target |-> t, entry |-> f.entry]
    <2>1. PICK a, b, c, d, e :
            f = [kind |-> a, rights |-> b, full |-> c, target |-> d, entry |-> e]
      BY TreeParts
    <2> QED BY <1>1, <2>1
  <1>5. s \in Trees
    BY <1>3, <1>4, TreeParts, TreeOf
  <1>6. \A o \in Objects : /\ o \in gone => Blank(s, o) /\ o \notin s.full
                           /\ o \notin gone => /\ s.kind[o] = f.kind[o]
                                               /\ s.rights[o] = f.rights[o]
                                               /\ s.target[o] = f.target[o]
                                               /\ o \in s.full <=> o \in f.full
    BY <1>4 DEF k, r, t, u, Blank
  <1>7. s.entry = f.entry
    BY <1>4
  <1> HIDE DEF gone
  <1>8. \A o \in Objects : ~HasName(f, o) /\ o \notin opened => Blank(s, o) /\ o \notin s.full
    BY <1>2, <1>6
  <1>9. \A o \in Objects : HasName(f, o) \/ o \in opened =>
          /\ s.kind[o] = f.kind[o] /\ s.rights[o] = f.rights[o]
          /\ s.target[o] = f.target[o] /\ (o \in s.full <=> o \in f.full)
    BY <1>2, <1>6
  <1> QED BY <1>5, <1>7, <1>8, <1>9 DEF s

\* It makes any tree sound, and leaves a sound one alone.
LEMMA SettledSound ==
  ASSUME NEW f, NEW opened, Formed(f)
  PROVE  Sound(Settled(f, opened), opened)
  <1> DEFINE s == Settled(f, opened)
  <1>0. f \in Trees BY DEF Formed
  <1>1. /\ s \in Trees /\ s.entry = f.entry
        /\ \A o \in Objects : ~HasName(f, o) /\ o \notin opened => Blank(s, o) /\ o \notin s.full
        /\ \A o \in Objects : HasName(f, o) \/ o \in opened =>
              /\ s.kind[o] = f.kind[o] /\ s.target[o] = f.target[o]
              /\ o \in s.full <=> o \in f.full
    BY <1>0, SettledIs
  <1> HIDE DEF s
  <1>2. \A o \in Objects : HasName(s, o) <=> HasName(f, o)
    BY <1>1 DEF HasName
  <1>3. \A o \in Objects : s.kind[o] = "link" => s.target[o] \in Paths
    BY <1>1 DEF Formed, Blank
  <1>4. \A d \in Dirs, n \in Names : s.entry[d][n] \in Objects => s.kind[s.entry[d][n]] # "free"
    BY <1>1 DEF Formed, HasName
  <1>5. \A o \in s.full : s.kind[o] = "file"
    BY <1>1, TreeParts DEF Formed
  <1>6. \A o \in Objects : HasName(s, o) \/ o \in opened \/ Blank(s, o)
    BY <1>1, <1>2
  <1>7. Sound(s, opened)
    BY <1>1, <1>3, <1>4, <1>5, <1>6 DEF Sound, Formed
  <1> QED BY <1>7 DEF s

LEMMA SettledSame ==
  ASSUME NEW f, NEW opened, Sound(f, opened)
  PROVE  Settled(f, opened) = f
  <1> DEFINE s == Settled(f, opened)
  <1>0. f \in Trees BY DEF Sound, Formed
  <1>1. /\ s \in Trees /\ s.entry = f.entry
        /\ \A o \in Objects : ~HasName(f, o) /\ o \notin opened => Blank(s, o) /\ o \notin s.full
        /\ \A o \in Objects : HasName(f, o) \/ o \in opened =>
              /\ s.kind[o] = f.kind[o] /\ s.target[o] = f.target[o]
              /\ s.rights[o] = f.rights[o] /\ (o \in s.full <=> o \in f.full)
    BY <1>0, SettledIs
  <1> HIDE DEF s
  <1>2. \A o \in Objects : /\ s.kind[o] = f.kind[o] /\ s.target[o] = f.target[o]
                           /\ s.rights[o] = f.rights[o] /\ (o \in s.full <=> o \in f.full)
    BY <1>1 DEF Sound, Formed, Blank
  <1>3. s.kind = f.kind
    BY <1>0, <1>1, <1>2, TreeParts
  <1>4. s.target = f.target
    BY <1>0, <1>1, <1>2, TreeParts
  <1>5. s.rights = f.rights
    BY <1>0, <1>1, <1>2, TreeParts
  <1>6. s.full = f.full
    BY <1>0, <1>1, <1>2, TreeParts
  <1>7. s = f
    BY <1>0, <1>1, <1>3, <1>4, <1>5, <1>6, TreeParts
  <1> QED BY <1>7 DEF s

LEMMA SoundMore ==
  ASSUME NEW f, NEW opened, NEW more, Sound(f, opened), opened \subseteq more
  PROVE  Sound(f, more)
  BY DEF Sound

LEMMA FailedGood ==
  ASSUME NEW f, NEW e, NEW opened, NEW L, Sound(f, opened)
  PROVE  Good(f, opened, Failed(f, e), L)
  BY DEF Good, Failed

LEMMA MissingGood ==
  ASSUME NEW f, NEW p, NEW opened, NEW L, Sound(f, opened)
  PROVE  Good(f, opened, Missing(f, p), L)
  BY FailedGood DEF Missing

\* A file loses its data to a call that takes it or the last of its names.
LEMMA DoneGood ==
  ASSUME NEW f, NEW g, NEW opened, NEW L, Sound(f, opened), Formed(g),
         \A o \in f.full \ L : o \in g.full /\ (HasName(f, o) => HasName(g, o))
  PROVE  Good(f, opened, Done(g, opened), L)
  <1> DEFINE s == Settled(g, opened)
  <1>0. g \in Trees /\ f \in Trees BY DEF Sound, Formed
  <1>1. \A o \in Objects : HasName(g, o) \/ o \in opened => (o \in s.full <=> o \in g.full)
    BY <1>0, SettledIs
  <1>2. Sound(s, opened)
    BY SettledSound
  <1>3. Done(g, opened) = {[fs |-> s, err |-> "none"]}
    BY DEF Done
  <1> HIDE DEF s
  <1>4. f.full \ s.full \subseteq L
    <2> SUFFICES ASSUME NEW o \in f.full \ L PROVE o \in s.full
      OBVIOUS
    <2>1. o \in Objects /\ f.kind[o] = "file" BY <1>0, TreeParts DEF Sound, Formed
    <2>2. HasName(f, o) \/ o \in opened BY <2>1 DEF Sound, Blank
    <2> QED BY <1>1, <2>1, <2>2
  <1> QED BY <1>2, <1>3, <1>4 DEF Good

-----------------------------------------------------------------------------
(* What paths mean.                                                        *)

LEMMA PathIs ==
  ASSUME NEW p \in Paths
  PROVE  /\ Len(p) = 1 \/ Len(p) = 2
         /\ p[1] \in Names /\ (Len(p) = 2 => p[2] \in Names)
         /\ Last(p) \in Names
         /\ Last(p) = IF Len(p) = 1 THEN p[1] ELSE p[2]
  <1>1. CASE p \in {<<n>> : n \in Names} BY <1>1 DEF Last
  <1>2. CASE p \in Names \X Names
    <2>1. PICK a \in Names, b \in Names : p = <<a, b>> BY <1>2
    <2> QED BY <2>1 DEF Last
  <1> QED BY <1>1, <1>2, PathsAssumption

LEMMA EntryIs ==
  ASSUME NEW f \in Trees, NEW d, NEW n \in Names
  PROVE  /\ Entry(f, d, n) \in Objects \cup {None}
         /\ Entry(f, d, n) # None => IsDir(f, d)
         /\ IsDir(f, d) => d \in Dirs /\ Entry(f, d, n) = f.entry[d][n]
  BY TreeParts DEF Entry, IsDir, Dirs

\* Where the link o leads, one more link not followed.
LinkedTo(f, o) ==
  IF Len(f.target[o]) = 1 THEN Entry(f, Root, f.target[o][1])
  ELSE Entry(f, Entry(f, Root, f.target[o][1]), f.target[o][2])

LEMMA FollowedIs ==
  ASSUME NEW f, Formed(f), NEW o \in Objects \cup {None}
  PROVE  /\ Followed(f, o) \in Objects \cup {None}
         /\ ~(o \in Objects /\ f.kind[o] = "link") => Followed(f, o) = o
         /\ o \in Objects /\ f.kind[o] = "link" =>
              /\ f.target[o] \in Paths
              /\ LinkedTo(f, o) \in Objects \cup {None}
              /\ Followed(f, o) # None =>
                   Followed(f, o) = LinkedTo(f, o) /\ f.kind[LinkedTo(f, o)] # "link"
              /\ LinkedTo(f, o) \in Objects /\ f.kind[LinkedTo(f, o)] # "link" =>
                   Followed(f, o) = LinkedTo(f, o)
  <1>1. CASE ~(o \in Objects /\ f.kind[o] = "link") BY <1>1 DEF Followed
  <1>2. CASE o \in Objects /\ f.kind[o] = "link"
    <2>1. f \in Trees /\ f.target[o] \in Paths BY <1>2 DEF Formed
    <2>2. LinkedTo(f, o) \in Objects \cup {None}
      BY <2>1, PathIs, EntryIs DEF LinkedTo
    <2>3. Followed(f, o) = IF LinkedTo(f, o) \in Objects /\ f.kind[LinkedTo(f, o)] = "link"
                           THEN None ELSE LinkedTo(f, o)
      BY <1>2 DEF Followed, LinkedTo
    <2> QED BY <1>2, <2>1, <2>2, <2>3, ObjectsAssumption
  <1> QED BY <1>1, <1>2

LEMMA Resolved ==
  ASSUME NEW f, Formed(f), NEW p \in Paths
  PROVE  /\ Lstat(f, p) \in Objects \cup {None}
         /\ Stat(f, p) \in Objects \cup {None}
         /\ IsDir(f, Dir(f, p)) =>
              Dir(f, p) \in Dirs /\ Lstat(f, p) = f.entry[Dir(f, p)][Last(p)]
         /\ Lstat(f, p) # None =>
              IsDir(f, Dir(f, p)) /\ HasName(f, Lstat(f, p)) /\ f.kind[Lstat(f, p)] # "free"
         /\ Stat(f, p) # None => Lstat(f, p) # None
  <1>1. f \in Trees /\ Last(p) \in Names BY PathIs DEF Formed
  <1>2. Lstat(f, p) \in Objects \cup {None} BY <1>1, EntryIs DEF Lstat
  <1>3. Stat(f, p) \in Objects \cup {None} BY <1>2, FollowedIs DEF Stat
  <1>4. /\ IsDir(f, Dir(f, p)) =>
             Dir(f, p) \in Dirs /\ Lstat(f, p) = f.entry[Dir(f, p)][Last(p)]
        /\ Lstat(f, p) # None => IsDir(f, Dir(f, p))
    BY <1>1, EntryIs DEF Lstat
  <1>5. Lstat(f, p) # None => HasName(f, Lstat(f, p)) /\ f.kind[Lstat(f, p)] # "free"
    BY <1>1, <1>2, <1>4 DEF HasName, Formed
  <1>6. Stat(f, p) # None => Lstat(f, p) # None
    BY <1>2, FollowedIs, ObjectsAssumption DEF Stat
  <1> QED BY <1>2, <1>3, <1>4, <1>5, <1>6

\* g has the names of f, and what they name is still what it was.
Extends(f, g) ==
  /\ \A d \in Dirs, n \in Names : f.entry[d][n] # None => g.entry[d][n] = f.entry[d][n]
  /\ \A o \in Objects : HasName(f, o) => g.kind[o] = f.kind[o] /\ g.target[o] = f.target[o]

LEMMA EntryStays ==
  ASSUME NEW f \in Trees, NEW g \in Trees, Extends(f, g), NEW d, d = Root \/ HasName(f, d),
         NEW n \in Names, Entry(f, d, n) # None
  PROVE  Entry(g, d, n) = Entry(f, d, n) /\ HasName(f, Entry(f, d, n))
  <1>1. d \in Dirs /\ IsDir(f, d) /\ Entry(f, d, n) = f.entry[d][n] BY EntryIs
  <1>2. IsDir(g, d) BY <1>1 DEF IsDir, Extends
  <1>3. g.entry[d][n] = f.entry[d][n] BY <1>1 DEF Extends
  <1> QED BY <1>1, <1>2, <1>3, EntryIs DEF HasName

LEMMA FollowedStays ==
  ASSUME NEW f, NEW g, Formed(f), Formed(g), Extends(f, g), NEW o \in Objects, HasName(f, o),
         Followed(f, o) # None
  PROVE  Followed(g, o) = Followed(f, o) /\ HasName(f, Followed(f, o))
  <1>0. f \in Trees /\ g \in Trees /\ g.kind[o] = f.kind[o] /\ g.target[o] = f.target[o]
    BY DEF Formed, Extends
  <1>1. CASE f.kind[o] # "link" BY <1>0, <1>1, FollowedIs
  <1>2. CASE f.kind[o] = "link"
    <2>1. /\ f.target[o] \in Paths /\ LinkedTo(f, o) \in Objects
          /\ Followed(f, o) = LinkedTo(f, o) /\ f.kind[LinkedTo(f, o)] # "link"
      BY <1>2, FollowedIs
    <2>2. LinkedTo(g, o) = LinkedTo(f, o) /\ HasName(f, LinkedTo(f, o))
      <3> DEFINE q == f.target[o]
      <3>1. q[1] \in Names /\ (Len(q) = 2 => q[2] \in Names) /\ (Len(q) = 1 \/ Len(q) = 2)
        BY <2>1, PathIs
      <3>2. CASE Len(q) = 1
        <4>1. LinkedTo(f, o) = Entry(f, Root, q[1]) /\ LinkedTo(g, o) = Entry(g, Root, q[1])
          BY <1>0, <3>2 DEF LinkedTo
        <4>2. Entry(f, Root, q[1]) # None BY <2>1, <4>1, ObjectsAssumption
        <4> QED BY <1>0, <3>1, <4>1, <4>2, EntryStays
      <3>3. CASE Len(q) = 2
        <4> DEFINE e == Entry(f, Root, q[1])
        <4>1. LinkedTo(f, o) = Entry(f, e, q[2]) /\ LinkedTo(g, o) = Entry(g, Entry(g, Root, q[1]), q[2])
          BY <1>0, <3>3 DEF LinkedTo
        <4>2. Entry(f, e, q[2]) # None BY <2>1, <4>1, ObjectsAssumption
        <4>3. IsDir(f, e) BY <1>0, <3>1, <3>3, <4>2, EntryIs
        <4>4. e # None BY <4>3, ObjectsAssumption DEF IsDir
        <4>5. Entry(g, Root, q[1]) = e /\ HasName(f, e) BY <1>0, <3>1, <4>4, EntryStays
        <4> QED BY <1>0, <3>1, <3>3, <4>1, <4>2, <4>5, EntryStays
      <3> QED BY <3>1, <3>2, <3>3
    <2>3. g.kind[LinkedTo(f, o)] # "link" BY <2>1, <2>2 DEF Extends
    <2> QED BY <1>0, <1>2, <2>1, <2>2, <2>3, FollowedIs
  <1> QED BY <1>1, <1>2

LEMMA DirStays ==
  ASSUME NEW f, NEW g, Formed(f), Formed(g), Extends(f, g), NEW p \in Paths,
         IsDir(f, Dir(f, p))
  PROVE  Dir(g, p) = Dir(f, p) /\ IsDir(g, Dir(g, p))
  <1>0. f \in Trees /\ g \in Trees BY DEF Formed
  <1>1. CASE Len(p) = 1 BY <1>1 DEF Dir, IsDir
  <1>2. CASE Len(p) # 1
    <2> DEFINE e == Entry(f, Root, p[1])
    <2>1. Dir(f, p) = Followed(f, e) /\ Dir(g, p) = Followed(g, Entry(g, Root, p[1]))
      BY <1>2 DEF Dir
    <2>2. e \in Objects \cup {None} /\ p[1] \in Names BY <1>0, PathIs, EntryIs
    <2>3. Followed(f, e) # None BY <2>1, ObjectsAssumption DEF IsDir
    <2>4. e # None BY <2>2, <2>3, FollowedIs, ObjectsAssumption
    <2>5. Entry(g, Root, p[1]) = e /\ HasName(f, e) BY <1>0, <2>2, <2>4, EntryStays
    <2>6. Followed(g, e) = Followed(f, e) /\ HasName(f, Followed(f, e))
      BY <2>2, <2>3, <2>4, <2>5, FollowedStays
    <2>7. IsDir(g, Dir(f, p)) BY <2>1, <2>6 DEF IsDir, Extends
    <2> QED BY <2>1, <2>5, <2>6, <2>7
  <1> QED BY <1>1, <1>2

\* A path that leads somewhere leads there still.
LEMMA StatStays ==
  ASSUME NEW f, NEW g, Formed(f), Formed(g), Extends(f, g), NEW p \in Paths
  PROVE  /\ Lstat(f, p) # None => Lstat(g, p) = Lstat(f, p)
         /\ Stat(f, p) # None => Stat(g, p) = Stat(f, p)
  <1>0. f \in Trees /\ g \in Trees BY DEF Formed
  <1>1. ASSUME Lstat(f, p) # None PROVE Lstat(g, p) = Lstat(f, p) /\ HasName(f, Lstat(f, p))
    <2>1. /\ IsDir(f, Dir(f, p)) /\ HasName(f, Lstat(f, p)) /\ Last(p) \in Names
          /\ Lstat(f, p) = f.entry[Dir(f, p)][Last(p)] /\ Dir(f, p) \in Dirs
      BY <1>1, Resolved, PathIs
    <2>2. Dir(g, p) = Dir(f, p) /\ IsDir(g, Dir(g, p)) BY <2>1, DirStays
    <2>3. g.entry[Dir(f, p)][Last(p)] = Lstat(f, p) BY <1>1, <2>1 DEF Extends
    <2> QED BY <2>1, <2>2, <2>3, Resolved
  <1>2. ASSUME Stat(f, p) # None PROVE Stat(g, p) = Stat(f, p)
    <2>1. Lstat(f, p) # None /\ Lstat(f, p) \in Objects BY <1>2, Resolved
    <2> QED BY <1>1, <1>2, <2>1, FollowedStays DEF Stat
  <1> QED BY <1>1, <1>2

\* Giving back leaves all that has a name.
LEMMA SettledExtends ==
  ASSUME NEW f, NEW opened, Formed(f)
  PROVE  Extends(f, Settled(f, opened))
  <1>1. f \in Trees BY DEF Formed
  <1> QED BY <1>1, SettledIs DEF Extends

-----------------------------------------------------------------------------
(* The results of the calls are good.                                      *)

LEMMA NamedIs ==
  ASSUME NEW f \in Trees, NEW p \in Paths, Dir(f, p) \in Dirs, NEW o \in Objects \cup {None}
  PROVE  LET g == Named(f, p, o)
         IN /\ g \in Trees
            /\ g.kind = f.kind /\ g.rights = f.rights /\ g.full = f.full /\ g.target = f.target
            /\ g.entry[Dir(f, p)][Last(p)] = o
            /\ \A d \in Dirs, n \in Names :
                  d # Dir(f, p) \/ n # Last(p) => g.entry[d][n] = f.entry[d][n]
  <1> DEFINE D == Dir(f, p)
             N == Last(p)
             e == [f.entry EXCEPT ![D][N] = o]
             g == Named(f, p, o)
  <1>1. N \in Names BY PathIs
  <1>2. g = [f EXCEPT !.entry = e] BY DEF Named
  <1> HIDE DEF D, N
  <1>3. /\ e \in [Dirs -> [Names -> Objects \cup {None}]]
        /\ e[D][N] = o
        /\ \A d \in Dirs, n \in Names : d # D \/ n # N => e[d][n] = f.entry[d][n]
    BY <1>1, TreeParts DEF D
  <1> HIDE DEF e, g
  <1>4. g = [kind |-> f.kind, rights |-> f.rights, full |-> f.full,
             target |-> f.target, entry |-> e]
    <2>1. PICK a, b, c, d, u :
            f = [kind |-> a, rights |-> b, full |-> c, target |-> d, entry |-> u]
      BY TreeParts
    <2> QED BY <1>2, <2>1
  <1>5. g \in Trees BY <1>3, <1>4, TreeParts, TreeOf
  <1>6. /\ g.kind = f.kind /\ g.rights = f.rights /\ g.full = f.full /\ g.target = f.target
        /\ g.entry = e
    BY <1>4
  <1> QED BY <1>3, <1>5, <1>6 DEF g, D, N

\* A name for an inode in use, or no more.
LEMMA NamedFormed ==
  ASSUME NEW f, Formed(f), NEW p \in Paths, IsDir(f, Dir(f, p)), NEW o \in Objects \cup {None},
         o # None => f.kind[o] # "free"
  PROVE  Formed(Named(f, p, o))
  <1> DEFINE g == Named(f, p, o)
  <1>1. f \in Trees /\ Dir(f, p) \in Dirs /\ Last(p) \in Names
    BY Resolved, PathIs DEF Formed
  <1>2. /\ g \in Trees /\ g.kind = f.kind /\ g.full = f.full /\ g.target = f.target
        /\ g.entry[Dir(f, p)][Last(p)] = o
        /\ \A d \in Dirs, n \in Names :
              d # Dir(f, p) \/ n # Last(p) => g.entry[d][n] = f.entry[d][n]
    BY <1>1, NamedIs
  <1> HIDE DEF g
  <1>3. \A d \in Dirs, n \in Names : g.entry[d][n] \in Objects => g.kind[g.entry[d][n]] # "free"
    BY <1>2, ObjectsAssumption DEF Formed
  <1>4. Formed(g) BY <1>2, <1>3 DEF Formed
  <1> QED BY <1>4 DEF g

LEMMA MadeIs ==
  ASSUME NEW f, Formed(f), NEW o \in FreeObjects(f), NEW k \in Kinds, NEW r \in SUBSET Bits,
         NEW t \in Paths \cup {None}, k = "link" => t \in Paths
  PROVE  LET g == Made(f, o, k, r, t)
         IN /\ Formed(g) /\ Extends(f, g)
            /\ g.full = f.full /\ g.entry = f.entry /\ g.kind[o] = k
            /\ \A d \in Dirs, n \in Names : f.entry[d][n] # o
  <1> DEFINE K == [f.kind EXCEPT ![o] = k]
             R == [f.rights EXCEPT ![o] = r]
             T == [f.target EXCEPT ![o] = t]
             g == Made(f, o, k, r, t)
  <1>1. f \in Trees /\ o \in Objects /\ f.kind[o] = "free" BY DEF Formed, FreeObjects
  <1>2. g = [f EXCEPT !.kind = K, !.rights = R, !.target = T] BY DEF Made
  <1>3. /\ K \in [Objects -> Kinds \cup {"free"}] /\ R \in [Objects -> SUBSET Bits]
        /\ T \in [Objects -> Paths \cup {None}]
        /\ K[o] = k /\ T[o] = t
        /\ \A i \in Objects \ {o} : K[i] = f.kind[i] /\ T[i] = f.target[i]
    BY <1>1, TreeParts
  <1> HIDE DEF K, R, T, g
  <1>4. g = [kind |-> K, rights |-> R, full |-> f.full, target |-> T, entry |-> f.entry]
    <2>1. PICK a, b, c, d, u :
            f = [kind |-> a, rights |-> b, full |-> c, target |-> d, entry |-> u]
      BY <1>1, TreeParts
    <2> QED BY <1>2, <2>1
  <1>5. g \in Trees BY <1>1, <1>3, <1>4, TreeParts, TreeOf
  <1>6. g.kind = K /\ g.target = T /\ g.full = f.full /\ g.entry = f.entry BY <1>4
  <1>7. \A d \in Dirs, n \in Names : f.entry[d][n] # o
    BY <1>1 DEF Formed
  <1>8. k # "free" BY DEF Kinds
  <1>9. /\ \A i \in Objects : g.kind[i] = "link" => g.target[i] \in Paths
        /\ \A d \in Dirs, n \in Names : g.entry[d][n] \in Objects => g.kind[g.entry[d][n]] # "free"
    BY <1>1, <1>3, <1>6, <1>7 DEF Formed
  <1>10. \A i \in g.full : g.kind[i] = "file"
    <2> SUFFICES ASSUME NEW i \in f.full PROVE g.kind[i] = "file"
      BY <1>6
    <2>1. i \in Objects /\ f.kind[i] = "file" BY <1>1, TreeParts DEF Formed
    <2> QED BY <1>1, <1>3, <1>6, <2>1
  <1>11. Extends(f, g)
    BY <1>3, <1>6, <1>7 DEF Extends, HasName
  <1> QED BY <1>3, <1>5, <1>6, <1>7, <1>9, <1>10, <1>11 DEF g, Formed

\* What New makes at p, and where.
LEMMA MadeAndNamed ==
  ASSUME NEW f, Formed(f), NEW p \in Paths, Lstat(f, p) = None, IsDir(f, Dir(f, p)),
         NEW o \in FreeObjects(f), NEW k \in Kinds, NEW r \in SUBSET Bits,
         NEW t \in Paths \cup {None}, k = "link" => t \in Paths
  PROVE  LET g == Named(Made(f, o, k, r, t), p, o)
         IN /\ Formed(g) /\ Extends(f, g) /\ g.full = f.full
            /\ g.kind[o] = k /\ g.entry[Dir(f, p)][Last(p)] = o
  <1> DEFINE m == Made(f, o, k, r, t)
             g == Named(m, p, o)
             D == Dir(f, p)
  <1>1. /\ Formed(m) /\ Extends(f, m) /\ m.full = f.full /\ m.entry = f.entry /\ m.kind[o] = k
        /\ \A d \in Dirs, n \in Names : f.entry[d][n] # o
    BY MadeIs
  <1>2. o \in Objects /\ k # "free" BY DEF FreeObjects, Kinds
  <1> HIDE DEF m
  <1>3. Dir(m, p) = D /\ IsDir(m, D) BY <1>1, DirStays
  <1>4. m \in Trees /\ D \in Dirs /\ Last(p) \in Names /\ f.entry[D][Last(p)] = None
    BY <1>1, Resolved, PathIs DEF Formed
  <1>5. Formed(g) BY <1>1, <1>2, <1>3, NamedFormed
  <1>6. /\ g.kind = m.kind /\ g.full = m.full /\ g.target = m.target
        /\ g.entry[D][Last(p)] = o
        /\ \A d \in Dirs, n \in Names : d # D \/ n # Last(p) => g.entry[d][n] = m.entry[d][n]
    BY <1>2, <1>3, <1>4, NamedIs
  <1> HIDE DEF g, D
  <1>7. Extends(f, g) BY <1>1, <1>4, <1>6 DEF Extends
  <1> QED BY <1>1, <1>5, <1>6, <1>7 DEF g, m, D

LEMMA NewGood ==
  ASSUME NEW f, NEW opened, Sound(f, opened), NEW p \in Paths, NEW k \in Kinds,
         NEW r \in SUBSET Bits, NEW t \in Paths \cup {None}, k = "link" => t \in Paths
  PROVE  Good(f, opened, New(f, p, k, r, t, opened), {})
  <1>1. Good(f, opened, Failed(f, "other"), {}) /\ Good(f, opened, Missing(f, p), {})
    BY FailedGood, MissingGood
  <1> DEFINE g(o) == Named(Made(f, o, k, r, t), p, o)
             created == UNION {Done(g(o), opened) : o \in FreeObjects(f)}
  <1>2. ASSUME Lstat(f, p) = None, IsDir(f, Dir(f, p)) PROVE Good(f, opened, created, {})
    <2> SUFFICES ASSUME NEW o \in FreeObjects(f) PROVE Good(f, opened, Done(g(o), opened), {})
      BY DEF Good
    <2>1. Formed(g(o)) /\ Extends(f, g(o)) /\ g(o).full = f.full
      BY <1>2, MadeAndNamed DEF Sound
    <2> HIDE DEF g
    <2>2. \A i \in f.full : HasName(f, i) => HasName(g(o), i)
      <3> SUFFICES ASSUME NEW i \in f.full, HasName(f, i) PROVE HasName(g(o), i)
        OBVIOUS
      <3>1. i # None BY ObjectsAssumption, TreeParts DEF Sound, Formed
      <3> QED BY <2>1, <3>1 DEF HasName, Extends
    <2> QED BY <2>1, <2>2, DoneGood
  <1> HIDE DEF created
  <1> QED BY <1>1, <1>2 DEF New, created

\* Only one name goes.
LEMMA CutGood ==
  ASSUME NEW f, NEW opened, Sound(f, opened), NEW p \in Paths, Lstat(f, p) # None
  PROVE  Good(f, opened, Done(Named(f, p, None), opened), {Lstat(f, p)})
  <1> DEFINE g == Named(f, p, None)
             o == Lstat(f, p)
  <1>1. /\ Formed(f) /\ f \in Trees /\ Last(p) \in Names /\ IsDir(f, Dir(f, p))
        /\ Dir(f, p) \in Dirs /\ o = f.entry[Dir(f, p)][Last(p)]
    BY Resolved, PathIs DEF Sound, Formed
  <1>2. Formed(g) BY <1>1, NamedFormed
  <1>3. /\ g.full = f.full
        /\ \A d \in Dirs, n \in Names :
              d # Dir(f, p) \/ n # Last(p) => g.entry[d][n] = f.entry[d][n]
    BY <1>1, NamedIs
  <1> HIDE DEF g
  <1>4. \A i : i # o /\ HasName(f, i) => HasName(g, i)
    BY <1>1, <1>3 DEF HasName
  <1>5. Good(f, opened, Done(g, opened), {o}) BY <1>2, <1>3, <1>4, DoneGood
  <1> QED BY <1>5 DEF g

LEMMA UnlinkGood ==
  ASSUME NEW f, NEW opened, Sound(f, opened), NEW p \in Paths
  PROVE  Good(f, opened, Unlink(f, p, opened), {Lstat(f, p)})
  BY FailedGood, MissingGood, CutGood DEF Unlink

LEMMA RmdirGood ==
  ASSUME NEW f, NEW opened, Sound(f, opened), NEW p \in Paths
  PROVE  Good(f, opened, Rmdir(f, p, opened), {})
  <1> DEFINE o == Lstat(f, p)
  <1>1. ASSUME o # None, f.kind[o] = "dir"
        PROVE  Good(f, opened, Done(Named(f, p, None), opened), {})
    <2>1. o \notin f.full BY <1>1 DEF Sound, Formed
    <2> QED BY <1>1, <2>1, CutGood DEF Good
  <1>2. Good(f, opened, Missing(f, p), {}) /\ Good(f, opened, Failed(f, "other"), {})
    BY FailedGood, MissingGood
  <1> QED BY <1>1, <1>2 DEF Rmdir

LEMMA LinkGood ==
  ASSUME NEW f, NEW opened, Sound(f, opened), NEW old \in Paths, NEW new \in Paths
  PROVE  Good(f, opened, Link(f, old, new, opened), {})
  <1> DEFINE o == Lstat(f, old)
             g == Named(f, new, o)
  <1>0. Formed(f) /\ f \in Trees BY DEF Sound, Formed
  <1>1. ASSUME o # None, Lstat(f, new) = None, IsDir(f, Dir(f, new))
        PROVE  Good(f, opened, Done(g, opened), {})
    <2>1. /\ o \in Objects /\ f.kind[o] # "free" /\ Dir(f, new) \in Dirs
          /\ f.entry[Dir(f, new)][Last(new)] = None
      BY <1>0, <1>1, Resolved
    <2>2. Formed(g) BY <1>0, <1>1, <2>1, NamedFormed
    <2>3. /\ g.full = f.full
          /\ \A d \in Dirs, n \in Names :
                d # Dir(f, new) \/ n # Last(new) => g.entry[d][n] = f.entry[d][n]
      BY <1>0, <2>1, NamedIs
    <2> HIDE DEF g
    <2>4. \A i \in f.full : HasName(f, i) => HasName(g, i)
      <3> SUFFICES ASSUME NEW i \in f.full, HasName(f, i) PROVE HasName(g, i)
        OBVIOUS
      <3>1. i # None BY <1>0, ObjectsAssumption, TreeParts
      <3> QED BY <2>1, <2>3, <3>1 DEF HasName
    <2> QED BY <2>2, <2>3, <2>4, DoneGood
  <1>2. /\ Good(f, opened, Missing(f, old), {}) /\ Good(f, opened, Missing(f, new), {})
        /\ Good(f, opened, Failed(f, "other"), {})
    BY FailedGood, MissingGood
  <1> QED BY <1>1, <1>2 DEF Link

\* What moves keeps a name; what it replaces loses one.
LEMMA RenameGood ==
  ASSUME NEW f, NEW opened, Sound(f, opened), NEW old \in Paths, NEW new \in Paths
  PROVE  Good(f, opened, Rename(f, old, new, opened), {Lstat(f, new)})
  <1> DEFINE o == Lstat(f, old)
             n == Lstat(f, new)
             C == Dir(f, old)
             D == Dir(f, new)
             A == Last(old)
             B == Last(new)
             e == [f.entry EXCEPT ![C][A] = None, ![D][B] = o]
             g == [f EXCEPT !.entry = e]
  <1>0. Formed(f) /\ f \in Trees BY DEF Sound, Formed
  <1>1. ASSUME o # None, IsDir(f, D), n # o
        PROVE  Good(f, opened, Done(g, opened), {n})
    <2>1. /\ o \in Objects /\ f.kind[o] # "free"
          /\ A \in Names /\ B \in Names /\ C \in Dirs /\ D \in Dirs
          /\ o = f.entry[C][A] /\ n = f.entry[D][B]
      BY <1>0, <1>1, Resolved, PathIs
    <2> HIDE DEF o, n, C, D, A, B
    <2>2. C # D \/ A # B BY <1>1, <2>1
    <2>3. /\ e \in [Dirs -> [Names -> Objects \cup {None}]]
          /\ e[C][A] = None /\ e[D][B] = o
          /\ \A d \in Dirs, m \in Names :
                (d # C \/ m # A) /\ (d # D \/ m # B) => e[d][m] = f.entry[d][m]
      <3> DEFINE e1 == [f.entry EXCEPT ![C][A] = None]
      <3>0. f.entry \in [Dirs -> [Names -> Objects \cup {None}]] BY <1>0, TreeParts
      <3>1. /\ e1 \in [Dirs -> [Names -> Objects \cup {None}]]
            /\ e1[C][A] = None
            /\ \A d \in Dirs, m \in Names : d # C \/ m # A => e1[d][m] = f.entry[d][m]
        BY <2>1, <3>0
      <3>2. e = [e1 EXCEPT ![D][B] = o] BY DEF e1
      <3> HIDE DEF e, e1
      <3>3. /\ e \in [Dirs -> [Names -> Objects \cup {None}]]
            /\ e[D][B] = o
            /\ \A d \in Dirs, m \in Names : d # D \/ m # B => e[d][m] = e1[d][m]
        BY <2>1, <3>1, <3>2
      <3> QED BY <2>1, <2>2, <3>1, <3>3
    <2> HIDE DEF e
    <2>4. g = [kind |-> f.kind, rights |-> f.rights, full |-> f.full,
               target |-> f.target, entry |-> e]
      <3>1. PICK x, y, z, t, u :
              f = [kind |-> x, rights |-> y, full |-> z, target |-> t, entry |-> u]
        BY <1>0, TreeParts
      <3>2. g = [f EXCEPT !.entry = e] OBVIOUS
      <3> HIDE DEF g
      <3> QED BY <3>1, <3>2
    <2> HIDE DEF g
    <2>5. g \in Trees BY <1>0, <2>3, <2>4, TreeParts, TreeOf
    <2>6. g.kind = f.kind /\ g.target = f.target /\ g.full = f.full /\ g.entry = e BY <2>4
    <2>7. ASSUME NEW d \in Dirs, NEW m \in Names, e[d][m] \in Objects
          PROVE  f.kind[e[d][m]] # "free"
      <3>1. CASE d = C /\ m = A BY <2>3, <2>7, <3>1, ObjectsAssumption
      <3>2. CASE d = D /\ m = B BY <2>1, <2>3, <3>2
      <3>3. CASE (d # C \/ m # A) /\ (d # D \/ m # B)
        <4>1. e[d][m] = f.entry[d][m] BY <2>3, <3>3
        <4> QED BY <1>0, <2>7, <4>1 DEF Formed
      <3> QED BY <3>1, <3>2, <3>3
    <2>8. Formed(g) BY <1>0, <2>5, <2>6, <2>7 DEF Formed
    <2>9. ASSUME NEW i, i # n, HasName(f, i) PROVE HasName(g, i)
      <3>1. PICK d \in Dirs, m \in Names : f.entry[d][m] = i BY <2>9 DEF HasName
      <3>2. CASE d = C /\ m = A
        <4>1. e[D][B] = i BY <2>1, <2>3, <3>1, <3>2
        <4> QED BY <2>1, <2>6, <4>1 DEF HasName
      <3>3. CASE d = D /\ m = B BY <2>1, <2>9, <3>1, <3>3
      <3>4. CASE (d # C \/ m # A) /\ (d # D \/ m # B)
        BY <2>3, <2>6, <3>1, <3>4 DEF HasName
      <3> QED BY <3>2, <3>3, <3>4
    <2> QED BY <2>6, <2>8, <2>9, DoneGood
  <1>2. /\ Good(f, opened, Missing(f, old), {n}) /\ Good(f, opened, Missing(f, new), {n})
        /\ Good(f, opened, Failed(f, "other"), {n})
    BY FailedGood, MissingGood
  <1>3. Good(f, opened, Done(f, opened), {n}) BY <1>0, DoneGood
  <1> HIDE DEF g
  <1>4. Rename(f, old, new, opened) \subseteq
          Missing(f, old) \cup Missing(f, new) \cup Failed(f, "other")
            \cup Done(f, opened)
            \cup IF o # None /\ IsDir(f, D) /\ n # o THEN Done(g, opened) ELSE {}
    BY DEF Rename, g, e
  <1> HIDE DEF o, n, D
  <1>5. Good(f, opened, Rename(f, old, new, opened), {n})
    BY <1>1, <1>2, <1>3, <1>4 DEF Good
  <1> QED BY <1>5 DEF n

\* Data come and go without a change of names.
LEMMA FullFormed ==
  ASSUME NEW f, Formed(f), NEW u \in SUBSET Objects, \A o \in u : f.kind[o] = "file"
  PROVE  LET g == [f EXCEPT !.full = u]
         IN /\ Formed(g) /\ g.full = u
            /\ g.kind = f.kind /\ g.target = f.target /\ g.entry = f.entry
  <1> DEFINE g == [f EXCEPT !.full = u]
  <1>0. f \in Trees BY DEF Formed
  <1>1. g = [kind |-> f.kind, rights |-> f.rights, full |-> u,
             target |-> f.target, entry |-> f.entry]
    <2>1. PICK a, b, c, d, e :
            f = [kind |-> a, rights |-> b, full |-> c, target |-> d, entry |-> e]
      BY <1>0, TreeParts
    <2> QED BY <2>1
  <1> HIDE DEF g
  <1>2. g \in Trees BY <1>0, <1>1, TreeParts, TreeOf
  <1>3. /\ g.kind = f.kind /\ g.full = u /\ g.target = f.target /\ g.entry = f.entry
    BY <1>1
  <1>4. Formed(g) BY <1>2, <1>3 DEF Formed
  <1> QED BY <1>3, <1>4 DEF g

\* Data of the file o alone may go.
LEMMA EmptiedGood ==
  ASSUME NEW f, NEW opened, Sound(f, opened), NEW o
  PROVE  Good(f, opened, Done([f EXCEPT !.full = @ \ {o}], opened), {o})
  <1> DEFINE u == f.full \ {o}
             g == [f EXCEPT !.full = u]
  <1>0. Formed(f) /\ f \in Trees BY DEF Sound, Formed
  <1>1. u \in SUBSET Objects /\ \A i \in u : f.kind[i] = "file"
    BY <1>0, TreeParts DEF Formed
  <1>2. Formed(g) /\ g.full = u /\ g.entry = f.entry BY <1>0, <1>1, FullFormed
  <1>3. [f EXCEPT !.full = @ \ {o}] = g OBVIOUS
  <1> HIDE DEF g
  <1>4. Good(f, opened, Done(g, opened), {o}) BY <1>2, DoneGood DEF HasName
  <1> QED BY <1>3, <1>4

LEMMA TruncateGood ==
  ASSUME NEW f, NEW opened, Sound(f, opened), NEW p
  PROVE  Good(f, opened, Truncate(f, p, opened), {Stat(f, p)})
  BY FailedGood, MissingGood, EmptiedGood DEF Truncate

LEMMA ChmodGood ==
  ASSUME NEW f, NEW opened, Sound(f, opened), NEW p \in Paths, NEW r \in SUBSET Bits
  PROVE  Good(f, opened, Chmod(f, p, r, opened), {})
  <1> DEFINE o == Stat(f, p)
             R == [f.rights EXCEPT ![o] = r]
             g == [f EXCEPT !.rights = R]
  <1>0. Formed(f) /\ f \in Trees BY DEF Sound, Formed
  <1>1. ASSUME o # None PROVE Good(f, opened, Done(g, opened), {})
    <2>1. o \in Objects BY <1>0, <1>1, Resolved
    <2>2. R \in [Objects -> SUBSET Bits] BY <1>0, TreeParts
    <2> HIDE DEF o, R
    <2>3. g = [kind |-> f.kind, rights |-> R, full |-> f.full,
               target |-> f.target, entry |-> f.entry]
      <3>1. PICK a, b, c, d, e :
              f = [kind |-> a, rights |-> b, full |-> c, target |-> d, entry |-> e]
        BY <1>0, TreeParts
      <3> QED BY <3>1
    <2> HIDE DEF g
    <2>4. g \in Trees BY <1>0, <2>2, <2>3, TreeParts, TreeOf
    <2>5. g.kind = f.kind /\ g.full = f.full /\ g.target = f.target /\ g.entry = f.entry
      BY <2>3
    <2>6. Formed(g) BY <1>0, <2>4, <2>5 DEF Formed
    <2> QED BY <2>5, <2>6, DoneGood DEF HasName
  <1>2. Good(f, opened, Missing(f, p), {}) BY MissingGood
  <1>3. Chmod(f, p, r, opened) = IF o = None THEN Missing(f, p) ELSE Done(g, opened)
    BY DEF Chmod
  <1> QED BY <1>1, <1>2, <1>3

LEMMA MkdirGood ==
  ASSUME NEW f, NEW opened, Sound(f, opened), NEW p \in Paths, NEW r \in SUBSET Bits
  PROVE  Good(f, opened, Mkdir(f, p, r, opened), {})
  BY NewGood DEF Mkdir, Kinds

LEMMA SymlinkGood ==
  ASSUME NEW f, NEW opened, Sound(f, opened), NEW t \in Paths, NEW p \in Paths
  PROVE  Good(f, opened, Symlink(f, t, p, opened), {})
  BY NewGood DEF Symlink, Kinds

LEMMA CreatedIs ==
  ASSUME NEW f, Formed(f), NEW p \in Paths
  PROVE  /\ Created(f, p) \in Paths
         /\ Lstat(f, p) = None => Created(f, p) = p
         /\ Lstat(f, p) # None /\ Stat(f, p) = None =>
              f.kind[Lstat(f, p)] = "link" /\ Created(f, p) = f.target[Lstat(f, p)]
  <1> DEFINE o == Lstat(f, p)
  <1>1. o \in Objects \cup {None} BY Resolved
  <1>2. Stat(f, p) = Followed(f, o) BY DEF Stat
  <1>3. Created(f, p) = IF o # None /\ f.kind[o] = "link" THEN f.target[o] ELSE p
    BY DEF Created
  <1> HIDE DEF o
  <1>4. CASE o # None /\ f.kind[o] = "link" BY <1>1, <1>3, <1>4 DEF Formed, o
  <1>5. CASE ~(o # None /\ f.kind[o] = "link")
    <2>1. Followed(f, o) = o BY <1>1, <1>5, ObjectsAssumption DEF Followed
    <2> QED BY <1>2, <1>3, <1>5, <2>1 DEF o
  <1> QED BY <1>4, <1>5

\* The file an open() that succeeds without creating it has found.
Found(f, o, how) == [f EXCEPT !.full = IF "trunc" \in how THEN @ \ {o} ELSE @]

LEMMA FoundIs ==
  ASSUME NEW f, Formed(f), NEW o, NEW how
  PROVE  /\ Formed(Found(f, o, how)) /\ Extends(f, Found(f, o, how))
         /\ Found(f, o, how).entry = f.entry
         /\ "trunc" \in how => Found(f, o, how).full = f.full \ {o}
         /\ "trunc" \notin how => Found(f, o, how).full = f.full
  <1> DEFINE u == IF "trunc" \in how THEN f.full \ {o} ELSE f.full
             g == [f EXCEPT !.full = u]
  <1>1. u \in SUBSET Objects /\ \A i \in u : f.kind[i] = "file"
    BY TreeParts DEF Formed
  <1>2. Found(f, o, how) = g BY DEF Found
  <1> HIDE DEF u
  <1>3. /\ Formed(g) /\ g.full = u
        /\ g.kind = f.kind /\ g.target = f.target /\ g.entry = f.entry
    BY <1>1, FullFormed
  <1> HIDE DEF g
  <1>4. Extends(f, g) BY <1>3 DEF Extends
  <1> QED BY <1>2, <1>3, <1>4 DEF u

LEMMA OpenGood ==
  ASSUME NEW f, NEW opened, Sound(f, opened), NEW p \in Paths, NEW how, NEW r \in SUBSET Bits
  PROVE  Good(f, opened, Open(f, p, how, r, opened),
              IF "trunc" \in how THEN {Stat(f, p)} ELSE {})
  <1> DEFINE o == Stat(f, p)
             L == IF "trunc" \in how THEN {o} ELSE {}
             opening == Open(f, p, how, r, opened)
  <1>0. Formed(f) BY DEF Sound
  <1>1. Good(f, opened, Missing(f, p), L) /\ Good(f, opened, Failed(f, "other"), L)
    BY FailedGood, MissingGood
  <1>2. Good(f, opened, New(f, Created(f, p), "file", r, None, opened), L)
    <2>1. Created(f, p) \in Paths BY <1>0, CreatedIs
    <2>2. Good(f, opened, New(f, Created(f, p), "file", r, None, opened), {})
      BY <2>1, NewGood DEF Kinds
    <2> QED BY <2>2 DEF Good
  <1>3. Good(f, opened, Done(Found(f, o, how), opened), L)
    <2>1. ASSUME NEW y
          PROVE  Good(f, opened, Done(Found(f, y, how), opened),
                      IF "trunc" \in how THEN {y} ELSE {})
      <3> DEFINE g == Found(f, y, how)
                 M == IF "trunc" \in how THEN {y} ELSE {}
      <3>1. /\ Formed(g) /\ g.entry = f.entry
            /\ "trunc" \in how => g.full = f.full \ {y}
            /\ "trunc" \notin how => g.full = f.full
        BY <1>0, FoundIs
      <3> HIDE DEF g
      <3>2. \A i \in f.full \ M : i \in g.full /\ (HasName(f, i) => HasName(g, i))
        BY <3>1 DEF HasName
      <3> HIDE DEF M
      <3>3. Good(f, opened, Done(g, opened), M) BY <3>1, <3>2, DoneGood
      <3> QED BY <3>3 DEF g, M
    <2> QED BY <2>1
  <1>4. opening \subseteq Missing(f, p) \cup Failed(f, "other")
                  \cup New(f, Created(f, p), "file", r, None, opened)
                  \cup Done(Found(f, o, how), opened)
    BY DEF Open, Found
  <1> HIDE DEF L, opening, o
  <1>5. Good(f, opened, opening, L) BY <1>1, <1>2, <1>3, <1>4 DEF Good
  <1> QED BY <1>5 DEF L, opening, o

LEMMA ExtendsMore ==
  ASSUME NEW f, NEW g, NEW h, Extends(f, g), Extends(g, h)
  PROVE  Extends(f, h)
  <1>1. ASSUME NEW o \in Objects, HasName(f, o) PROVE HasName(g, o)
    BY <1>1, ObjectsAssumption DEF Extends, HasName
  <1> QED BY <1>1 DEF Extends

\* An object that open() has made is what its path leads to.
LEMMA NewHas ==
  ASSUME NEW f, NEW opened, Sound(f, opened), NEW p \in Paths, NEW r \in SUBSET Bits,
         Stat(f, p) = None, Lstat(f, p) # None => ~Through(f, Created(f, p)),
         NEW x \in New(f, Created(f, p), "file", r, None, opened), x.err = "none"
  PROVE  Stat(x.fs, p) \in Objects
  <1> DEFINE q == Created(f, p)
             l == Lstat(f, p)
             s == x.fs
  <1>0. Formed(f) /\ f \in Trees /\ q \in Paths BY CreatedIs DEF Sound, Formed
  <1> DEFINE g(o) == Named(Made(f, o, "file", r, None), q, o)
  <1>1. Lstat(f, q) = None /\ IsDir(f, Dir(f, q))
    BY ObjectsAssumption DEF New, Failed, Missing
  <1>2. PICK o \in FreeObjects(f) : s = Settled(g(o), opened)
    <2>1. New(f, q, "file", r, None, opened)
            = UNION {Done(g(o), opened) : o \in FreeObjects(f)}
      BY <1>1 DEF New
    <2>2. PICK o \in FreeObjects(f) : x \in Done(g(o), opened) BY <2>1
    <2> QED BY <2>2 DEF Done
  <1>3. /\ Formed(g(o)) /\ Extends(f, g(o)) /\ g(o).kind[o] = "file"
        /\ g(o).entry[Dir(f, q)][Last(q)] = o
    BY <1>0, <1>1, MadeAndNamed DEF Kinds
  <1>4. o \in Objects BY DEF FreeObjects
  <1> HIDE DEF g, q
  <1>5. Formed(s) /\ Extends(g(o), s) BY <1>2, <1>3, SettledSound, SettledExtends DEF Sound
  <1> HIDE DEF s
  <1>6. Extends(f, s) BY <1>3, <1>5, ExtendsMore
  <1>7. Dir(s, q) = Dir(f, q) /\ IsDir(s, Dir(s, q)) BY <1>0, <1>1, <1>5, <1>6, DirStays
  <1>8. Dir(s, q) \in Dirs /\ Last(q) \in Names /\ Lstat(s, q) = s.entry[Dir(s, q)][Last(q)]
    BY <1>0, <1>5, <1>7, Resolved, PathIs
  <1>9. s.entry[Dir(s, q)][Last(q)] = o /\ s.kind[o] = "file"
    <2>1. HasName(g(o), o) BY <1>3, <1>7, <1>8 DEF HasName
    <2> QED BY <1>3, <1>4, <1>5, <1>7, <1>8, <2>1, ObjectsAssumption DEF Extends
  <1>10. CASE l = None
    <2>1. q = p BY <1>0, <1>10, CreatedIs DEF q
    <2>2. Lstat(s, p) = o BY <1>8, <1>9, <2>1
    <2> QED BY <1>4, <1>5, <1>9, <2>2, FollowedIs DEF Stat, s
  <1>11. CASE l # None
    <2>1. f.kind[l] = "link" /\ q = f.target[l] BY <1>0, <1>11, CreatedIs DEF q
    <2>2. l \in Objects /\ HasName(f, l) BY <1>0, <1>11, Resolved
    <2>3. s.kind[l] = "link" /\ s.target[l] = q BY <1>6, <2>1, <2>2 DEF Extends
    <2>4. Lstat(s, p) = l BY <1>0, <1>5, <1>6, <1>11, StatStays
    <2>5. LinkedTo(s, l) = o
      <3>1. (Len(q) = 1 \/ Len(q) = 2) /\ q[1] \in Names
            /\ Last(q) = IF Len(q) = 1 THEN q[1] ELSE q[2]
        BY <1>0, PathIs
      <3>2. CASE Len(q) = 1
        <4>1. Dir(s, q) = Root /\ Last(q) = q[1] BY <3>1, <3>2 DEF Dir
        <4>2. Lstat(s, q) = Entry(s, Root, q[1]) BY <4>1 DEF Lstat
        <4> QED BY <1>8, <1>9, <2>3, <3>2, <4>2 DEF LinkedTo
      <3>3. CASE Len(q) = 2
        <4>1. Dir(f, q) = Entry(f, Root, q[1]) BY <1>11, <3>3 DEF Through, q
        <4>2. Entry(f, Root, q[1]) # None BY <1>1, <4>1, ObjectsAssumption DEF IsDir, q
        <4>3. Entry(s, Root, q[1]) = Dir(s, q)
          BY <1>0, <1>5, <1>6, <1>7, <3>1, <4>1, <4>2, EntryStays DEF Formed
        <4>4. Lstat(s, q) = Entry(s, Dir(s, q), q[2]) BY <3>1, <3>3 DEF Lstat
        <4> QED BY <1>8, <1>9, <2>3, <3>3, <4>3, <4>4 DEF LinkedTo
      <3> QED BY <3>1, <3>2, <3>3
    <2>6. Followed(s, l) = o BY <1>4, <1>5, <1>9, <2>2, <2>3, <2>5, FollowedIs
    <2> QED BY <1>4, <2>4, <2>6 DEF Stat, s
  <1> QED BY <1>10, <1>11

\* A handle is for an object.
LEMMA OpenHas ==
  ASSUME NEW f, NEW opened, Sound(f, opened), NEW p \in Paths, NEW how, NEW r \in SUBSET Bits,
         NEW x \in Open(f, p, how, r, opened), x.err = "none"
  PROVE  Stat(x.fs, p) \in Objects
  <1> DEFINE o == Stat(f, p)
  <1>0. Formed(f) BY DEF Sound
  <1>1. CASE o # None
    <2> DEFINE g == Found(f, o, how)
    <2>1. x \in Done(g, opened) BY <1>1 DEF Open, Found, Failed
    <2>2. x.fs = Settled(g, opened) BY <2>1 DEF Done
    <2>3. Formed(g) /\ Extends(f, g) BY <1>0, FoundIs
    <2> HIDE DEF g
    <2>4. Formed(x.fs) /\ Extends(f, x.fs)
      BY <2>2, <2>3, SettledSound, SettledExtends, ExtendsMore DEF Sound
    <2> QED BY <1>0, <1>1, <2>4, StatStays, Resolved
  <1>2. CASE o = None
    <2>1. x \notin Missing(f, p) /\ x \notin Failed(f, "other")
      BY DEF Missing, Failed
    <2>2. /\ x \in New(f, Created(f, p), "file", r, None, opened)
          /\ Lstat(f, p) # None => ~Through(f, Created(f, p))
      BY <1>2, <2>1 DEF Open
    <2> QED BY <1>2, <2>2, NewHas
  <1> QED BY <1>1, <1>2

-----------------------------------------------------------------------------
(* Requests and their calls.                                               *)

CallsOf(r) ==
  IF SetStat(r) THEN {"check", "truncate", "kind", "chmod", "chown"}
  ELSE CASE r.op = "open"     -> {"check", "open"}
         [] r.op = "remove"   -> {"check", "unlink"}
         [] r.op = "mkdir"    -> {"check", "mkdir"}
         [] r.op = "rmdir"    -> {"check", "rmdir"}
         [] r.op = "symlink"  -> {"check", "check_to", "symlink"}
         [] r.op = "hardlink" -> {"check", "check_to", "link"}
         [] r.op = "rename"   -> {"check", "check_to", "clear", "rename"}
         [] OTHER             -> {"check", "look"}

\* Requests that end with their first change to the tree.
Single(r) ==
  /\ ~(r.op = "rename" /\ "overwrite" \in r.how)
  /\ ~(SetStat(r) /\ Cardinality(r.how) > 1)

\* Calls that only look, but for the last.
Quiet(s) == \A i \in 1 .. Len(s) - 1 : s[i] \in {"check", "check_to", "kind"}

LEMMA RequestIs ==
  ASSUME NEW r \in Requests \cup HandleRequests
  PROVE  /\ r.p \in Paths
         /\ r.op \in {"rename", "symlink", "hardlink"} => r.q \in Paths
         /\ r.rights \in SUBSET Bits
         /\ SetStat(r) => r.how \in SUBSET {"size", "rights", "owner"}
         /\ r.op \in {"open", "mkdir", "rename", "symlink", "hardlink", "setstat", "fsetstat",
                      "remove", "rmdir", "stat", "lstat", "fstat", "statvfs", "close"}
  <1>1. CASE r \in [op : {"open"}, p : Paths, q : {None}, how : Modes, rights : RightsAsked]
    BY <1>1, RightsAssumption DEF SetStat
  <1>2. CASE r \in [op : {"mkdir"}, p : Paths, q : {None}, how : {{}}, rights : RightsAsked]
    BY <1>2, RightsAssumption DEF SetStat
  <1>3. CASE r \in [op : {"rename"}, p : Paths, q : Paths, how : {{}, {"overwrite"}},
                    rights : {{}}]
    BY <1>3 DEF SetStat
  <1>4. CASE r \in [op : {"symlink", "hardlink"}, p : Paths, q : Paths, how : {{}},
                    rights : {{}}]
    BY <1>4 DEF SetStat
  <1>5. CASE r \in [op : {"setstat", "fsetstat"}, p : Paths, q : {None}, how : SetStats,
                    rights : RightsAsked]
    BY <1>5, RightsAssumption, SetStatsAssumption
  <1>6. CASE \E op \in {"remove", "rmdir", "stat", "lstat", "statvfs", "fstat", "close"},
                p \in Paths : r = Pure(op, p)
    BY <1>6 DEF SetStat, Pure
  <1>7. r \in Requests => \/ r \in [op : {"open"}, p : Paths, q : {None}, how : Modes,
                                    rights : RightsAsked]
                          \/ r \in [op : {"mkdir"}, p : Paths, q : {None}, how : {{}},
                                    rights : RightsAsked]
                          \/ r \in [op : {"rename"}, p : Paths, q : Paths,
                                    how : {{}, {"overwrite"}}, rights : {{}}]
                          \/ r \in [op : {"symlink", "hardlink"}, p : Paths, q : Paths,
                                    how : {{}}, rights : {{}}]
                          \/ r \in [op : {"setstat"}, p : Paths, q : {None}, how : SetStats,
                                    rights : RightsAsked]
                          \/ r \in {Pure(op, p) : op \in {"remove", "rmdir", "stat", "lstat",
                                                          "statvfs"}, p \in Paths}
    BY DEF Requests
  <1>8. r \in HandleRequests => \/ r \in [op : {"fsetstat"}, p : Paths, q : {None},
                                          how : SetStats, rights : RightsAsked]
                                \/ r \in {Pure(op, p) : op \in {"fstat", "close"}, p \in Paths}
    BY DEF HandleRequests
  <1> QED BY <1>1, <1>2, <1>3, <1>4, <1>5, <1>6, <1>7, <1>8

\* Short sequences put together.
LEMMA Pair == \A x, y : <<x>> \o <<y>> = <<x, y>>
  <1> SUFFICES ASSUME NEW x, NEW y PROVE <<x>> \o <<y>> = <<x, y>>
    OBVIOUS
  <1> DEFINE S == {x, y}
             s == <<x>> \o <<y>>
             t == <<x, y>>
  <1>1. /\ s \in Seq(S) /\ Len(s) = 2 /\ s[1] = x /\ s[2] = y
        /\ t \in Seq(S) /\ Len(t) = 2 /\ t[1] = x /\ t[2] = y
    OBVIOUS
  <1> HIDE DEF S, s, t
  <1>2. \A i \in 1 .. Len(s) : s[i] = t[i] BY <1>1
  <1>3. s = t BY <1>1, <1>2, SeqEqual
  <1> QED BY <1>3 DEF s, t

LEMMA Triple == \A x, y, z : <<x, y>> \o <<z>> = <<x, y, z>>
  <1> SUFFICES ASSUME NEW x, NEW y, NEW z PROVE <<x, y>> \o <<z>> = <<x, y, z>>
    OBVIOUS
  <1> DEFINE S == {x, y, z}
             s == <<x, y>> \o <<z>>
             t == <<x, y, z>>
  <1>1. /\ s \in Seq(S) /\ Len(s) = 3 /\ s[1] = x /\ s[2] = y /\ s[3] = z
        /\ t \in Seq(S) /\ Len(t) = 3 /\ t[1] = x /\ t[2] = y /\ t[3] = z
    OBVIOUS
  <1> HIDE DEF S, s, t
  <1>2. \A i \in 1 .. Len(s) : s[i] = t[i] BY <1>1
  <1>3. s = t BY <1>1, <1>2, SeqEqual
  <1> QED BY <1>3 DEF s, t

LEMMA Quadruple == \A x, y, z, u : <<x, y, z>> \o <<u>> = <<x, y, z, u>>
  <1> SUFFICES ASSUME NEW x, NEW y, NEW z, NEW u PROVE <<x, y, z>> \o <<u>> = <<x, y, z, u>>
    OBVIOUS
  <1> DEFINE S == {x, y, z, u}
             s == <<x, y, z>> \o <<u>>
             t == <<x, y, z, u>>
  <1>1. /\ s \in Seq(S) /\ Len(s) = 4 /\ s[1] = x /\ s[2] = y /\ s[3] = z /\ s[4] = u
        /\ t \in Seq(S) /\ Len(t) = 4 /\ t[1] = x /\ t[2] = y /\ t[3] = z /\ t[4] = u
    OBVIOUS
  <1> HIDE DEF S, s, t
  <1>2. \A i \in 1 .. Len(s) : s[i] = t[i] BY <1>1
  <1>3. s = t BY <1>1, <1>2, SeqEqual
  <1> QED BY <1>3 DEF s, t

LEMMA NothingPut ==
  /\ \A x : <<x>> \o <<>> = <<x>>
  /\ \A x, y : <<x, y>> \o <<>> = <<x, y>>
  /\ \A x, y, z : <<x, y, z>> \o <<>> = <<x, y, z>>
  <1>1. ASSUME NEW x PROVE <<x>> \o <<>> = <<x>>
    <2>1. <<x>> \in Seq({x}) OBVIOUS
    <2> QED BY <2>1, ConcatEmptySeq
  <1>2. ASSUME NEW x, NEW y PROVE <<x, y>> \o <<>> = <<x, y>>
    <2>1. <<x, y>> \in Seq({x, y}) OBVIOUS
    <2> QED BY <2>1, ConcatEmptySeq
  <1>3. ASSUME NEW x, NEW y, NEW z PROVE <<x, y, z>> \o <<>> = <<x, y, z>>
    <2>1. <<x, y, z>> \in Seq({x, y, z}) OBVIOUS
    <2> QED BY <2>1, ConcatEmptySeq
  <1> QED BY <1>1, <1>2, <1>3

LEMMA SetStatTodo ==
  ASSUME NEW r, SetStat(r)
  PROVE  Todo(r) = <<"check">> \o Given("truncate", "size" \in r.how)
                     \o Given("kind", "rights" \in r.how)
                     \o Given("chmod", "rights" \in r.how)
                     \o Given("chown", "owner" \in r.how)
  BY DEF Todo, SetStat

LEMMA GivenIs ==
  ASSUME NEW c, NEW S, c \in S, NEW here
  PROVE  Given(c, here) \in Seq(S) /\ (~here => Given(c, here) = <<>>)
           /\ (here => Given(c, here) = <<c>>)
  BY DEF Given

LEMMA QuietSetStat ==
  ASSUME NEW r, SetStat(r), r.how \in SUBSET {"size", "rights", "owner"}, Single(r)
  PROVE  Quiet(Todo(r))
  <1>1. r.how = {} \/ \E x : r.how = {x}
    <2>1. ~(Cardinality(r.how) > 1) BY DEF Single
    <2>2. IsFiniteSet({"size", "rights", "owner"})
      <3>1. IsFiniteSet({"size"}) BY FS_Singleton
      <3>2. IsFiniteSet({"size"} \cup {"rights"}) BY <3>1, FS_AddElement
      <3>3. IsFiniteSet(({"size"} \cup {"rights"}) \cup {"owner"}) BY <3>2, FS_AddElement
      <3>4. ({"size"} \cup {"rights"}) \cup {"owner"} = {"size", "rights", "owner"} OBVIOUS
      <3> QED BY <3>3, <3>4
    <2>3. IsFiniteSet(r.how) BY <2>2, FS_Subset
    <2>4. Cardinality(r.how) \in Nat BY <2>3, FS_CardinalityType
    <2>5. Cardinality(r.how) = 0 \/ Cardinality(r.how) = 1 BY <2>1, <2>4
    <2> QED BY <2>3, <2>5, FS_EmptySet, FS_Singleton
  <1>2. r.how = {} \/ r.how = {"size"} \/ r.how = {"rights"} \/ r.how = {"owner"} BY <1>1
  <1>3. CASE r.how = {}
    <2>1. Todo(r) = <<"check">> BY <1>3, SetStatTodo DEF Given
    <2> QED BY <2>1 DEF Quiet
  <1>4. CASE r.how = {"size"}
    <2>1. Todo(r) = <<"check">> \o <<"truncate">> \o <<>> \o <<>> \o <<>>
      BY <1>4, SetStatTodo DEF Given
    <2>2. Todo(r) = <<"check", "truncate">> BY <2>1, NothingPut, Pair, Triple
    <2> QED BY <2>2 DEF Quiet
  <1>5. CASE r.how = {"rights"}
    <2>1. Todo(r) = <<"check">> \o <<>> \o <<"kind">> \o <<"chmod">> \o <<>>
      BY <1>5, SetStatTodo DEF Given
    <2>2. Todo(r) = <<"check", "kind", "chmod">>
      <3>1. <<"check">> \o <<>> = <<"check">> BY NothingPut
      <3>2. <<"check">> \o <<"kind">> = <<"check", "kind">> BY Pair
      <3>3. <<"check", "kind">> \o <<"chmod">> = <<"check", "kind", "chmod">> BY Triple
      <3>4. <<"check", "kind", "chmod">> \o <<>> = <<"check", "kind", "chmod">> BY NothingPut
      <3> QED BY <2>1, <3>1, <3>2, <3>3, <3>4
    <2> QED BY <2>2 DEF Quiet
  <1>6. CASE r.how = {"owner"}
    <2>1. Todo(r) = <<"check">> \o <<>> \o <<>> \o <<>> \o <<"chown">>
      BY <1>6, SetStatTodo DEF Given
    <2>2. Todo(r) = <<"check", "chown">> BY <2>1, NothingPut, Pair, Triple
    <2> QED BY <2>2 DEF Quiet
  <1> QED BY <1>2, <1>3, <1>4, <1>5, <1>6

LEMMA TodoIs ==
  ASSUME NEW r \in Requests \cup HandleRequests
  PROVE  /\ Todo(r) \in Seq(CallsOf(r))
         /\ Todo(r) # <<>> /\ Head(Todo(r)) = "check"
         /\ Single(r) => Quiet(Todo(r))
  <1>1. CASE SetStat(r)
    <2> DEFINE A == Given("truncate", "size" \in r.how)
               B == Given("kind", "rights" \in r.how)
               C == Given("chmod", "rights" \in r.how)
               D == Given("chown", "owner" \in r.how)
               S == CallsOf(r)
    <2>1. Todo(r) = <<"check">> \o A \o B \o C \o D BY <1>1, SetStatTodo
    <2>2. "check" \in S /\ A \in Seq(S) /\ B \in Seq(S) /\ C \in Seq(S) /\ D \in Seq(S)
      BY <1>1, GivenIs DEF CallsOf
    <2> HIDE DEF A, B, C, D, S
    <2>3. /\ Todo(r) \in Seq(S) /\ Len(Todo(r)) = 1 + Len(A) + Len(B) + Len(C) + Len(D)
          /\ Todo(r)[1] = "check"
      BY <2>1, <2>2
    <2>4. Len(Todo(r)) # 0 BY <2>2, <2>3
    <2> QED BY <1>1, <2>3, <2>4, RequestIs, QuietSetStat DEF S
  <1>2. CASE r.op = "rename"
    <2>1. CASE "overwrite" \in r.how
      <3>1. Todo(r) = <<"check", "check_to">> \o <<"clear">> \o <<"rename">>
        BY <1>2, <2>1 DEF Todo, RenameCalls, Given, SetStat
      <3>2. Todo(r) = <<"check", "check_to", "clear", "rename">>
        <4>1. <<"check", "check_to">> \o <<"clear">> = <<"check", "check_to", "clear">>
          BY Triple
        <4>2. <<"check", "check_to", "clear">> \o <<"rename">>
                = <<"check", "check_to", "clear", "rename">>
          BY Quadruple
        <4> QED BY <3>1, <4>1, <4>2
      <3> QED BY <1>2, <2>1, <3>2 DEF CallsOf, Single, SetStat
    <2>2. CASE "overwrite" \notin r.how
      <3>1. Todo(r) = <<"check", "check_to">> \o <<>> \o <<"rename">>
        BY <1>2, <2>2 DEF Todo, RenameCalls, Given, SetStat
      <3>2. Todo(r) = <<"check", "check_to", "rename">> BY <3>1, NothingPut, Triple
      <3> QED BY <1>2, <3>2 DEF CallsOf, SetStat, Quiet
    <2> QED BY <2>1, <2>2
  <1>3. CASE r.op \in {"open", "remove", "mkdir", "rmdir", "stat", "lstat", "fstat", "statvfs",
                       "close"}
    <2>1. \E c : Todo(r) = <<"check", c>> /\ c \in CallsOf(r) /\ "check" \in CallsOf(r)
      <3>1. CASE r.op = "open" BY <3>1 DEF Todo, CallsOf, SetStat
      <3>2. CASE r.op = "remove" BY <3>2 DEF Todo, CallsOf, SetStat
      <3>3. CASE r.op = "mkdir" BY <3>3 DEF Todo, CallsOf, SetStat
      <3>4. CASE r.op = "rmdir" BY <3>4 DEF Todo, CallsOf, SetStat
      <3>5. CASE r.op \in {"stat", "lstat", "fstat", "statvfs", "close"}
        BY <3>5 DEF Todo, CallsOf, SetStat
      <3> QED BY <1>3, <3>1, <3>2, <3>3, <3>4, <3>5
    <2> QED BY <2>1 DEF Quiet
  <1>4. CASE r.op \in {"symlink", "hardlink"}
    <2>1. \E c : /\ Todo(r) = <<"check", "check_to", c>> /\ c \in CallsOf(r)
                  /\ "check" \in CallsOf(r) /\ "check_to" \in CallsOf(r)
      <3>1. CASE r.op = "symlink" BY <3>1 DEF Todo, CallsOf, SetStat
      <3>2. CASE r.op = "hardlink" BY <3>2 DEF Todo, CallsOf, SetStat
      <3> QED BY <1>4, <3>1, <3>2
    <2> QED BY <2>1 DEF Quiet
  <1> QED BY <1>1, <1>2, <1>3, <1>4, RequestIs DEF SetStat

LEMMA CallIs ==
  ASSUME NEW r \in Requests \cup HandleRequests, NEW c \in CallsOf(r)
  PROVE  /\ c \in Calls
         /\ c = "open" => r.op = "open"
         /\ c = "unlink" => r.op = "remove"
         /\ c \in {"clear", "rename"} => r.op = "rename"
         /\ c = "symlink" => r.op = "symlink"
         /\ c = "link" => r.op = "hardlink"
         /\ c \in {"truncate", "kind", "chmod", "chown"} => SetStat(r)
  <1>1. CASE SetStat(r) BY <1>1 DEF CallsOf, Calls
  <1>2. CASE ~SetStat(r)
    <2>1. CASE r.op \in {"open", "remove", "mkdir", "rmdir"}
      BY <1>2, <2>1 DEF CallsOf, Calls
    <2>2. CASE r.op \in {"symlink", "hardlink", "rename"}
      BY <1>2, <2>2 DEF CallsOf, Calls
    <2>3. CASE r.op \notin {"open", "remove", "mkdir", "rmdir", "symlink", "hardlink", "rename"}
      BY <1>2, <2>3 DEF CallsOf, Calls
    <2> QED BY <2>1, <2>2, <2>3
  <1> QED BY <1>1, <1>2

\* The files that may lose their data to the call c.
Lost(c) ==
  CASE c = "open"     -> IF "trunc" \in job.req.how THEN {Stat(fs, job.req.p)} ELSE {}
    [] c = "unlink"   -> {Lstat(fs, job.req.p)}
    [] c \in {"clear", "rename"} -> {Lstat(fs, job.req.q)}
    [] c = "truncate" -> {Stat(fs, job.req.p)}
    [] OTHER          -> {}

LEMMA ResultsGood ==
  ASSUME Sound(fs, Opened), job.req \in Requests \cup HandleRequests,
         NEW c \in CallsOf(job.req), c \notin {"check", "check_to"}
  PROVE  Good(fs, Opened, Results(c), Lost(c))
  <1> DEFINE r == job.req
             p == PathOf(c)
             refused == IF c = "kind" THEN {} ELSE Failed(fs, "other")
             results ==
               CASE c = "open"     -> Open(fs, p, r.how, FileRights(r.rights), Opened)
                 [] c \in {"unlink", "clear"} -> Unlink(fs, p, Opened)
                 [] c = "mkdir"    -> Mkdir(fs, p, DirRights(r.rights), Opened)
                 [] c = "rmdir"    -> Rmdir(fs, p, Opened)
                 [] c = "rename"   -> Rename(fs, p, r.q, Opened)
                 [] c = "symlink"  -> Symlink(fs, p, r.q, Opened)
                 [] c = "link"     -> Link(fs, p, r.q, Opened)
                 [] c = "truncate" -> Truncate(fs, p, Opened)
                 [] c = "chmod"    -> Chmod(fs, p, SetRights(r.rights, job.dir), Opened)
                 [] OTHER -> IF Seen(r, p) = None THEN Missing(fs, p) ELSE Done(fs, Opened)
             L == Lost(c)
  <1>1. Results(c) = refused \cup results BY DEF Results
  <1>2. Good(fs, Opened, refused, L) BY FailedGood DEF Good
  <1>3. /\ r.p \in Paths
        /\ c \in {"clear", "rename", "symlink", "link"} => r.q \in Paths
    BY RequestIs, CallIs
  <1>4. p \in Paths BY <1>3 DEF PathOf
  <1>5. CASE c = "open"
    <2>1. Good(fs, Opened, Open(fs, r.p, r.how, FileRights(r.rights), Opened),
               IF "trunc" \in r.how THEN {Stat(fs, r.p)} ELSE {})
      BY <1>3, OpenGood, MaskingsBound
    <2>2. p = r.p /\ L = IF "trunc" \in r.how THEN {Stat(fs, r.p)} ELSE {}
      BY <1>5 DEF PathOf, Lost
    <2> QED BY <1>1, <1>2, <1>5, <2>1, <2>2 DEF Good
  <1>6. CASE c = "unlink"
    <2>1. Good(fs, Opened, Unlink(fs, r.p, Opened), {Lstat(fs, r.p)}) BY <1>3, UnlinkGood
    <2>2. p = r.p /\ L = {Lstat(fs, r.p)} BY <1>6 DEF PathOf, Lost
    <2> QED BY <1>1, <1>2, <1>6, <2>1, <2>2 DEF Good
  <1>7. CASE c = "clear"
    <2>1. Good(fs, Opened, Unlink(fs, r.q, Opened), {Lstat(fs, r.q)}) BY <1>3, <1>7, UnlinkGood
    <2>2. p = r.q /\ L = {Lstat(fs, r.q)} BY <1>7 DEF PathOf, Lost
    <2> QED BY <1>1, <1>2, <1>7, <2>1, <2>2 DEF Good
  <1>8. CASE c = "rename"
    <2>1. Good(fs, Opened, Rename(fs, r.p, r.q, Opened), {Lstat(fs, r.q)})
      BY <1>3, <1>8, RenameGood
    <2>2. p = r.p /\ L = {Lstat(fs, r.q)} BY <1>8 DEF PathOf, Lost
    <2> QED BY <1>1, <1>2, <1>8, <2>1, <2>2 DEF Good
  <1>9. CASE c = "truncate"
    <2>1. Good(fs, Opened, Truncate(fs, r.p, Opened), {Stat(fs, r.p)}) BY TruncateGood
    <2>2. p = r.p /\ L = {Stat(fs, r.p)} BY <1>9 DEF PathOf, Lost
    <2> QED BY <1>1, <1>2, <1>9, <2>1, <2>2 DEF Good
  <1>10. CASE c = "mkdir"
    <2>1. Good(fs, Opened, Mkdir(fs, p, DirRights(r.rights), Opened), {})
      BY <1>4, MkdirGood, MaskingsBound
    <2> QED BY <1>1, <1>2, <1>10, <2>1 DEF Good
  <1>11. CASE c = "rmdir"
    <2>1. Good(fs, Opened, Rmdir(fs, p, Opened), {}) BY <1>4, RmdirGood
    <2> QED BY <1>1, <1>2, <1>11, <2>1 DEF Good
  <1>12. CASE c = "symlink"
    <2>1. Good(fs, Opened, Symlink(fs, p, r.q, Opened), {}) BY <1>3, <1>4, <1>12, SymlinkGood
    <2> QED BY <1>1, <1>2, <1>12, <2>1 DEF Good
  <1>13. CASE c = "link"
    <2>1. Good(fs, Opened, Link(fs, p, r.q, Opened), {}) BY <1>3, <1>4, <1>13, LinkGood
    <2> QED BY <1>1, <1>2, <1>13, <2>1 DEF Good
  <1>14. CASE c = "chmod"
    <2>1. SetRights(r.rights, job.dir) \in SUBSET Bits BY MaskingsBound DEF SetRights
    <2>2. Good(fs, Opened, Chmod(fs, p, SetRights(r.rights, job.dir), Opened), {})
      BY <1>4, <2>1, ChmodGood
    <2> QED BY <1>1, <1>2, <1>14, <2>2 DEF Good
  <1>15. CASE c \notin {"open", "unlink", "clear", "mkdir", "rmdir", "rename", "symlink",
                        "link", "truncate", "chmod"}
    <2>1. Good(fs, Opened, Missing(fs, p), {}) /\ Good(fs, Opened, Done(fs, Opened), {})
      BY MissingGood, DoneGood DEF Sound
    <2> QED BY <1>1, <1>2, <1>15, <2>1 DEF Good
  <1> QED
    BY <1>5, <1>6, <1>7, <1>8, <1>9, <1>10, <1>11, <1>12, <1>13, <1>14, <1>15

\* stat() changes nothing.
LEMMA KindLooks ==
  ASSUME Sound(fs, Opened), NEW x \in Results("kind")
  PROVE  x.fs = fs
  <1>1. x \in Missing(fs, PathOf("kind")) \cup Done(fs, Opened) BY DEF Results
  <1>2. Settled(fs, Opened) = fs BY SettledSame
  <1> QED BY <1>1, <1>2 DEF Missing, Failed, Done

LEMMA OthersSound ==
  ASSUME Sound(fs, Opened), NEW x \in OthersResults
  PROVE  Sound(x.fs, Opened)
  <1>1. CASE x \in Removals BY <1>1, UnlinkGood DEF Removals, Good
  <1>2. CASE x \in Moves
    <2>1. PICK pq \in Paths \X Paths :
            x \in Rename(fs, pq[1], pq[2], Opened) \cup Link(fs, pq[1], pq[2], Opened)
      BY <1>2 DEF Moves
    <2>2. pq[1] \in Paths /\ pq[2] \in Paths BY <2>1
    <2> QED BY <2>1, <2>2, RenameGood, LinkGood DEF Good
  <1>3. CASE x \in Creations
    <2>1. PICK pr \in Paths \X RightsAsked :
            x \in Mkdir(fs, pr[1], DirRights(pr[2]), Opened)
                    \cup Open(fs, pr[1], {"creat", "excl"}, FileRights(pr[2]), Opened)
      BY <1>3 DEF Creations
    <2>2. pr[1] \in Paths BY <2>1
    <2> QED BY <2>1, <2>2, MkdirGood, OpenGood, MaskingsBound DEF Good
  <1>4. CASE x \in Writes
    <2>1. PICK o \in Objects : /\ fs.kind[o] = "file"
                               /\ x \in Done([fs EXCEPT !.full = @ \cup {o}], Opened)
      BY <1>4 DEF Writes
    <2> DEFINE u == fs.full \cup {o}
    <2>2. x.fs = Settled([fs EXCEPT !.full = u], Opened) BY <2>1 DEF Done
    <2>3. u \in SUBSET Objects /\ \A i \in u : fs.kind[i] = "file"
      BY <2>1, TreeParts DEF Sound, Formed
    <2> HIDE DEF u
    <2>4. Formed([fs EXCEPT !.full = u]) BY <2>3, FullFormed DEF Sound
    <2> QED BY <2>2, <2>4, SettledSound
  <1> QED BY <1>1, <1>2, <1>3, <1>4 DEF OthersResults

-----------------------------------------------------------------------------
(* The invariant: the tree is sound, and a request that is being served has *)
(* passed the test of its Disable tag and, when it ends with its first      *)
(* change to the tree, has changed nothing and met no failure so far.       *)

Jobs ==
  [req : Requests \cup HandleRequests \cup {None}, todo : Seq(Calls),
   status : Statuses \cup {"crashed"}, dir : BOOLEAN,
   refused : BOOLEAN, failed : BOOLEAN, changed : BOOLEAN]

\* The request under way, with h as the handle.
Served(j, h) ==
  /\ j.req \in Requests \cup HandleRequests
  /\ j.todo \in Seq(CallsOf(j.req))
  /\ j.todo # <<>> /\ Disabled(j.req) => TestedLate(j.req) /\ Head(j.todo) = "check"
  /\ j.todo # <<>> /\ j.req.op = "open" => ~OpenDisabled(j.req)
  /\ j.todo # <<>> /\ Single(j.req) => j.status = "OK" /\ ~j.changed /\ Quiet(j.todo)
  /\ j.todo = <<>> /\ Single(j.req) /\ j.changed /\ j.status # "OK" =>
       j.req.op = "open" /\ h # None

JobGood(j, h) == j = Idle \/ Served(j, h)

FilesInv == TypeOK /\ Sound(fs, Opened) /\ JobGood(job, handle)

LEMMA JobOf ==
  ASSUME NEW r \in Requests \cup HandleRequests \cup {None}, NEW t \in Seq(Calls),
         NEW s \in Statuses \cup {"crashed"}, NEW d \in BOOLEAN, NEW e \in BOOLEAN,
         NEW f \in BOOLEAN, NEW c \in BOOLEAN
  PROVE  [req |-> r, todo |-> t, status |-> s, dir |-> d, refused |-> e, failed |-> f,
          changed |-> c] \in Jobs
  BY DEF Jobs

LEMMA JobParts ==
  ASSUME NEW j \in Jobs
  PROVE  /\ j = [req |-> j.req, todo |-> j.todo, status |-> j.status, dir |-> j.dir,
                 refused |-> j.refused, failed |-> j.failed, changed |-> j.changed]
         /\ j.req \in Requests \cup HandleRequests \cup {None} /\ j.todo \in Seq(Calls)
         /\ j.status \in Statuses \cup {"crashed"} /\ j.dir \in BOOLEAN
         /\ j.refused \in BOOLEAN /\ j.failed \in BOOLEAN /\ j.changed \in BOOLEAN
  BY DEF Jobs

LEMMA CallsOfCalls ==
  ASSUME NEW r \in Requests \cup HandleRequests, NEW t \in Seq(CallsOf(r))
  PROVE  t \in Seq(Calls)
  <1>1. CallsOf(r) \subseteq Calls BY CallIs
  <1> HIDE DEF Calls
  <1> QED BY <1>1

LEMMA IdleGood == Idle \in Jobs /\ Idle.todo = <<>>
  <1>1. <<>> \in Seq(Calls) OBVIOUS
  <1> QED BY <1>1 DEF Idle, Jobs, Statuses

LEMMA ServingGood ==
  ASSUME NEW r \in Requests \cup HandleRequests, NEW h,
         Disabled(r) => TestedLate(r), r.op = "open" => ~OpenDisabled(r)
  PROVE  Serving(r) \in Jobs /\ JobGood(Serving(r), h)
  <1> DEFINE t == Todo(r)
             j == Serving(r)
  <1>1. t \in Seq(CallsOf(r)) /\ t # <<>> /\ Head(t) = "check" /\ (Single(r) => Quiet(t))
    BY TodoIs
  <1>2. t \in Seq(Calls) BY <1>1, CallsOfCalls
  <1> HIDE DEF t
  <1>3. j = [req |-> r, todo |-> t, status |-> "OK", dir |-> FALSE,
             refused |-> FALSE, failed |-> FALSE, changed |-> FALSE]
    <2>1. j = [Idle EXCEPT !.req = r, !.todo = t] BY DEF Serving, t
    <2>2. PICK a, b, d, e, f, g, i :
            /\ Idle = [req |-> a, todo |-> b, status |-> d, dir |-> e,
                       refused |-> f, failed |-> g, changed |-> i]
            /\ b = <<>> /\ d = "OK" /\ ~e /\ ~f /\ ~g /\ ~i
            /\ {e, f, g, i} \subseteq BOOLEAN
      BY DEF Idle
    <2> HIDE DEF j
    <2> QED BY <2>1, <2>2
  <1> HIDE DEF j
  <1>4. j \in Jobs BY <1>2, <1>3, JobOf DEF Statuses
  <1>5. j.req = r /\ j.todo = t /\ j.status = "OK" /\ j.changed = FALSE BY <1>3
  <1>6. Served(j, h) BY <1>1, <1>5 DEF Served
  <1> QED BY <1>4, <1>6 DEF JobGood, j

LEMMA RefusedGood ==
  ASSUME NEW r \in Requests \cup HandleRequests, NEW h, NEW s \in Statuses
  PROVE  Refused(r, s) \in Jobs /\ JobGood(Refused(r, s), h)
  <1> DEFINE j == Refused(r, s)
  <1>1. j = [req |-> r, todo |-> <<>>, status |-> s, dir |-> FALSE,
             refused |-> FALSE, failed |-> FALSE, changed |-> FALSE]
    <2>1. j = [Idle EXCEPT !.req = r, !.status = s] BY DEF Refused
    <2>2. PICK a, b, d, e, f, g, i :
            /\ Idle = [req |-> a, todo |-> b, status |-> d, dir |-> e,
                       refused |-> f, failed |-> g, changed |-> i]
            /\ b = <<>> /\ d = "OK" /\ ~e /\ ~f /\ ~g /\ ~i
            /\ {e, f, g, i} \subseteq BOOLEAN
      BY DEF Idle
    <2> HIDE DEF j
    <2> QED BY <2>1, <2>2
  <1>2. <<>> \in Seq(Calls) /\ <<>> \in Seq(CallsOf(r)) OBVIOUS
  <1> HIDE DEF j
  <1>3. j \in Jobs BY <1>1, <1>2, JobOf
  <1>4. j.req = r /\ j.todo = <<>> /\ j.changed = FALSE BY <1>1
  <1>5. Served(j, h) BY <1>2, <1>4 DEF Served
  <1> QED BY <1>3, <1>5 DEF JobGood, j

\* What is due is a call of the request.
LEMMA DueIs ==
  ASSUME FilesInv, ~Answered
  PROVE  /\ job # Idle /\ Served(job, handle) /\ job \in Jobs
         /\ Due \in CallsOf(job.req) /\ Rest \in Seq(CallsOf(job.req))
         /\ Rest \in Seq(Calls)
         /\ Due \notin {"check"} => ~Disabled(job.req)
         /\ Rest # <<>> /\ Single(job.req) => Due \in {"check", "check_to", "kind"} /\ Quiet(Rest)
         /\ Due = "open" /\ Single(job.req) => Rest = <<>>
  <1>1. job # Idle /\ Served(job, handle) /\ job \in Jobs
    BY IdleGood DEF FilesInv, JobGood, Answered, TypeOK, Jobs
  <1> DEFINE t == job.todo
             S == CallsOf(job.req)
  <1>2. t \in Seq(S) /\ t # <<>> BY <1>1 DEF Served, Answered
  <1> HIDE DEF t, S
  <1>3. /\ Head(t) \in S /\ Tail(t) \in Seq(S) /\ Head(t) = t[1]
        /\ Len(t) \in Nat /\ Len(Tail(t)) = Len(t) - 1 /\ Len(t) >= 1
        /\ \A i \in 1 .. Len(t) - 1 : Tail(t)[i] = t[i + 1]
    BY <1>2, HeadTailProperties, LenProperties, EmptySeq
  <1>4. Tail(t) \in Seq(Calls) BY <1>1, <1>3, CallsOfCalls DEF S, Served
  <1>5. Head(t) \notin {"check"} => ~Disabled(job.req)
    BY <1>1, <1>2 DEF Served, t
  <1>6. ASSUME Tail(t) # <<>>, Single(job.req)
        PROVE  Head(t) \in {"check", "check_to", "kind"} /\ Quiet(Tail(t))
    <2>1. Quiet(t) BY <1>1, <1>2, <1>6 DEF Served, t
    <2>2. Len(Tail(t)) # 0 /\ Len(Tail(t)) \in Nat BY <1>3, <1>6, EmptySeq, LenProperties
    <2>3. 1 \in 1 .. Len(t) - 1 BY <1>3, <2>2
    <2>4. Head(t) \in {"check", "check_to", "kind"} BY <1>3, <2>1, <2>3 DEF Quiet
    <2>5. ASSUME NEW i \in 1 .. Len(Tail(t)) - 1
          PROVE  Tail(t)[i] \in {"check", "check_to", "kind"}
      <3>1. i \in 1 .. Len(t) - 1 /\ i + 1 \in 1 .. Len(t) - 1 BY <1>3, <2>5
      <3> QED BY <1>3, <2>1, <3>1 DEF Quiet
    <2> QED BY <2>4, <2>5 DEF Quiet
  <1> QED BY <1>1, <1>3, <1>4, <1>5, <1>6 DEF Due, Rest, t, S

\* After a call.
LEMMA AfterGood ==
  ASSUME FilesInv, ~Answered, Due \notin {"check", "check_to"}, NEW x, NEW s, NEW h,
         x.err # "none" \/ Due = "kind" => x.fs = fs,
         \/ s = StatusAfter(Due, x.err)
         \/ s = "FAILURE" /\ Due = "open" /\ h # None
  PROVE  JobAfter(Due, x, s) \in Jobs /\ JobGood(JobAfter(Due, x, s), h)
  <1> DEFINE c == Due
             t == Rest
             dir == c = "kind" /\ x.err = "none" /\ IsDir(fs, Stat(fs, PathOf(c)))
             failed == job.failed \/ (x.err # "none" /\ c \notin {"clear", "kind"})
             changed == job.changed \/ x.fs # fs
             j == JobAfter(c, x, s)
             r == job.req
  <1>1. /\ Served(job, handle) /\ job \in Jobs /\ c \in CallsOf(r)
        /\ t \in Seq(CallsOf(r)) /\ t \in Seq(Calls) /\ ~Disabled(r)
        /\ t # <<>> /\ Single(r) => c \in {"check", "check_to", "kind"} /\ Quiet(t)
    BY DueIs
  <1>2. j = [req |-> r, todo |-> t, status |-> s, dir |-> dir, refused |-> job.refused,
             failed |-> failed, changed |-> changed]
    <2>1. j = [job EXCEPT !.todo = t, !.status = s, !.dir = dir, !.failed = failed,
                          !.changed = changed]
      BY DEF JobAfter
    <2>2. PICK a, b, d, e, f, g, i : job = [req |-> a, todo |-> b, status |-> d, dir |-> e,
                                            refused |-> f, failed |-> g, changed |-> i]
      BY <1>1, JobParts
    <2> HIDE DEF t, dir, failed, changed, j, c
    <2> QED BY <2>1, <2>2
  <1>3. s \in Statuses \cup {"crashed"}
    BY <1>1, JobParts DEF StatusAfter, errnoToPortable, Statuses
  <1>4. dir \in BOOLEAN /\ failed \in BOOLEAN /\ changed \in BOOLEAN /\ job.refused \in BOOLEAN
    BY <1>1, JobParts DEF IsDir
  <1>5. r \in Requests \cup HandleRequests BY <1>1 DEF Served
  <1> HIDE DEF j, t, dir, failed, r
  <1>6. j \in Jobs BY <1>1, <1>2, <1>3, <1>4, <1>5, JobOf
  <1>7. j.req = r /\ j.todo = t /\ j.status = s /\ j.changed = changed BY <1>2
  <1>8. /\ r.op = "open" => ~OpenDisabled(r)
        /\ Single(r) => job.status = "OK" /\ job.changed = FALSE
    BY <1>1, JobParts DEF Served, Answered, r
  <1>9. ASSUME t # <<>>, Single(r) PROVE s = "OK" /\ changed = FALSE /\ Quiet(t)
    <2>1. c = "kind" /\ Quiet(t) BY <1>1, <1>9
    <2> QED BY <1>8, <1>9, <2>1 DEF StatusAfter
  <1>10. ASSUME Single(r), changed, s # "OK" PROVE r.op = "open" /\ h # None
    <2>1. x.err = "none" BY <1>8, <1>10
    <2>2. s # StatusAfter(c, x.err) BY <1>8, <1>10, <2>1 DEF StatusAfter
    <2> QED BY <1>1, <1>5, <2>2, CallIs
  <1>11. Served(j, h)
    BY <1>1, <1>5, <1>7, <1>8, <1>9, <1>10 DEF Served
  <1> QED BY <1>6, <1>11 DEF JobGood, j

\* After FSCheckSecurity.
LEMMA CheckGood ==
  ASSUME FilesInv, Check
  PROVE  job' \in Jobs /\ JobGood(job', handle)
  <1> DEFINE r == job.req
             t == Rest
  <1>0. ~Answered BY DEF Check
  <1>1. /\ Served(job, handle) /\ job \in Jobs /\ t \in Seq(CallsOf(r)) /\ t \in Seq(Calls)
        /\ Due \notin {"check"} => ~Disabled(r)
        /\ t # <<>> /\ Single(r) => Quiet(t)
    BY <1>0, DueIs
  <1>2. /\ r \in Requests \cup HandleRequests
        /\ r.op = "open" => ~OpenDisabled(r)
        /\ Single(r) => job.status = "OK" /\ ~job.changed
    BY <1>0, <1>1 DEF Served, Answered
  <1>3. PICK a, b, d, e, f, g, i :
          /\ job = [req |-> a, todo |-> b, status |-> d, dir |-> e,
                    refused |-> f, failed |-> g, changed |-> i]
          /\ a \in Requests \cup HandleRequests /\ d \in Statuses \cup {"crashed"}
          /\ e \in BOOLEAN /\ f \in BOOLEAN /\ g \in BOOLEAN /\ i \in BOOLEAN
    BY <1>1, <1>2, JobParts
  <1>4. ASSUME NEW s \in Statuses \cup {"crashed"}, NEW k \in BOOLEAN,
               job' = [req |-> a, todo |-> <<>>, status |-> s, dir |-> e,
                       refused |-> k, failed |-> g, changed |-> i]
        PROVE  job' \in Jobs /\ JobGood(job', handle)
    <2>1. <<>> \in Seq(Calls) /\ <<>> \in Seq(CallsOf(a)) OBVIOUS
    <2>2. job' \in Jobs BY <1>3, <1>4, <2>1, JobOf
    <2>3. job'.req = a /\ job'.todo = <<>> /\ job'.changed = i BY <1>4
    <2>4. r = a /\ job.changed = i BY <1>3
    <2>5. Served(job', handle) BY <1>2, <1>3, <2>1, <2>3, <2>4 DEF Served
    <2> QED BY <2>2, <2>5 DEF JobGood
  <1>5. CASE job' = [job EXCEPT !.todo = <<>>, !.status = "DENIED"]
    BY <1>3, <1>4, <1>5 DEF Statuses
  <1>6. CASE job' = [job EXCEPT !.todo = <<>>, !.status = StatusRefused, !.refused = TRUE]
    <2>1. StatusRefused \in Statuses \cup {"crashed"}
      BY <1>1, JobParts DEF StatusRefused, Statuses
    <2> HIDE DEF r
    <2>2. job' = [req |-> a, todo |-> <<>>, status |-> StatusRefused, dir |-> e,
                  refused |-> TRUE, failed |-> g, changed |-> i]
      BY <1>3, <1>6
    <2> QED BY <1>4, <2>1, <2>2
  <1>7. CASE job' = [job EXCEPT !.todo = t] /\ ~(TestedLate(r) /\ Disabled(r))
    <2> HIDE DEF t
    <2>1. job' = [req |-> a, todo |-> t, status |-> d, dir |-> e,
                  refused |-> f, failed |-> g, changed |-> i]
      BY <1>3, <1>7
    <2>2. job' \in Jobs BY <1>1, <1>3, <2>1, JobOf
    <2>3. job'.req = r /\ job'.todo = t /\ job'.status = job.status /\ job'.changed = job.changed
      BY <1>3, <2>1
    <2>4. ~Disabled(r)
      BY <1>0, <1>1, <1>7 DEF Served, Answered
    <2> HIDE DEF r
    <2>5. t = <<>> /\ Single(r) => ~job'.changed BY <1>2, <2>3
    <2>6. Served(job', handle) BY <1>1, <1>2, <2>3, <2>4, <2>5 DEF Served
    <2> QED BY <2>2, <2>6 DEF JobGood
  <1> QED BY <1>5, <1>6, <1>7 DEF Check

LEMMA NoTag ==
  ASSUME disabled \in Profiles, NEW r, TagOf(r.op) = "none"
  PROVE  ~Disabled(r)
  <1>1. "none" \notin Tags BY DEF Tags
  <1> QED BY <1>1, ProfilesAssumption DEF Disabled

LEMMA BeginGood ==
  ASSUME FilesInv, NEW r \in Requests, Begin(r)
  PROVE  job' \in Jobs /\ JobGood(job', handle)
  <1>1. "DENIED" \in Statuses BY DEF Statuses
  <1>2. CASE job' = Refused(r, "DENIED") BY <1>1, <1>2, RefusedGood
  <1>3. CASE job' = Serving(r) /\ ~DisabledFirst(r)
    <2>1. CASE r.op = "open"
      <3>1. TagOf(r.op) = "none" BY <2>1 DEF TagOf
      <3> QED BY <1>3, <2>1, <3>1, NoTag, ServingGood DEF DisabledFirst, FilesInv, TypeOK
    <2>2. CASE r.op # "open"
      BY <1>3, <2>2, ServingGood DEF DisabledFirst
    <2> QED BY <2>1, <2>2
  <1> QED BY <1>2, <1>3 DEF Begin

LEMMA BeginHandleGood ==
  ASSUME FilesInv, NEW r \in HandleRequests, BeginHandle(r)
  PROVE  job' \in Jobs /\ JobGood(job', handle)
  <1>1. r.op = "fsetstat" \/ r.op = "fstat"
    BY DEF BeginHandle, HandleRequests, Pure
  <1>2. CASE r.op = "fsetstat" BY <1>2, ServingGood DEF BeginHandle, TestedLate, SetStat
  <1>3. CASE r.op = "fstat"
    <2>1. TagOf(r.op) = "none" BY <1>3 DEF TagOf
    <2> QED BY <1>3, <2>1, NoTag, ServingGood DEF BeginHandle, FilesInv, TypeOK
  <1> QED BY <1>1, <1>2, <1>3

\* What a step has to give for the invariant to hold after it.
LEMMA FilesInvOf ==
  ASSUME FilesInv, disabled' = disabled, raced' \in BOOLEAN,
         handle' \in [path : Paths, obj : Objects] \cup {None},
         job' \in Jobs, JobGood(job', handle'),
         Sound(fs', IF handle' = None THEN {} ELSE {handle'.obj})
  PROVE  FilesInv'
  <1>1. TypeOK'
    <2>1. fs' \in Trees BY DEF Sound, Formed
    <2>2. disabled' \in Profiles BY DEF FilesInv, TypeOK
    <2> QED BY <2>1, <2>2 DEF TypeOK, Jobs
  <1>2. Sound(fs, Opened)' BY DEF Opened
  <1>3. JobGood(job, handle)'
    BY DEF JobGood, Served, Disabled, OpenDisabled
  <1> QED BY <1>1, <1>2, <1>3 DEF FilesInv

LEMMA CallStep ==
  ASSUME FilesInv, Call
  PROVE  FilesInv'
  <1>1. PICK x \in Results(Due) :
          fs' = x.fs /\ job' = JobAfter(Due, x, StatusAfter(Due, x.err))
    BY DEF Call
  <1>2. /\ ~Answered /\ Due \notin {"check", "check_to", "open"}
        /\ disabled' = disabled /\ handle' = handle /\ raced' \in BOOLEAN
    BY DEF Call, FilesInv, TypeOK, IsDir
  <1>3. Due \in CallsOf(job.req) /\ job.req \in Requests \cup HandleRequests
    BY <1>2, DueIs DEF Served
  <1>4. Good(fs, Opened, Results(Due), Lost(Due)) BY <1>2, <1>3, ResultsGood DEF FilesInv
  <1>5. Sound(x.fs, Opened) /\ (x.err # "none" => x.fs = fs) BY <1>4 DEF Good
  <1>6. Due = "kind" => x.fs = fs BY KindLooks DEF FilesInv
  <1>7. job' \in Jobs /\ JobGood(job', handle) BY <1>1, <1>2, <1>5, <1>6, AfterGood
  <1> QED BY <1>1, <1>2, <1>5, <1>7, FilesInvOf DEF Opened, FilesInv, TypeOK

LEMMA OpenStep ==
  ASSUME FilesInv, OpenFile
  PROVE  FilesInv'
  <1>1. PICK x \in Results("open") :
          /\ fs' = x.fs
          /\ \/ /\ x.err # "none"
                /\ job' = JobAfter("open", x, StatusAfter("open", x.err))
                /\ handle' = handle
             \/ /\ x.err = "none" /\ handle = None
                /\ handle' = [path |-> job.req.p, obj |-> Stat(x.fs, job.req.p)]
                /\ job' = JobAfter("open", x, StatusAfter("open", x.err))
             \/ /\ x.err = "none" /\ handle # None
                /\ job' = JobAfter("open", x, "FAILURE")
                /\ handle' = handle
    BY DEF OpenFile
  <1>2. ~Answered /\ Due = "open" /\ disabled' = disabled /\ raced' = raced
    BY DEF OpenFile
  <1>3. Due \in CallsOf(job.req) /\ job.req \in Requests \cup HandleRequests
    BY <1>2, DueIs DEF Served
  <1>4. Good(fs, Opened, Results("open"), Lost("open"))
    BY <1>2, <1>3, ResultsGood DEF FilesInv
  <1>5. Sound(x.fs, Opened) /\ (x.err # "none" => x.fs = fs) BY <1>4 DEF Good
  <1>6. job' \in Jobs /\ JobGood(job', handle') BY <1>1, <1>2, <1>5, AfterGood
  <1>7. CASE handle' = handle
    BY <1>1, <1>2, <1>5, <1>6, <1>7, FilesInvOf DEF Opened, FilesInv, TypeOK
  <1>8. CASE /\ x.err = "none" /\ handle = None
             /\ handle' = [path |-> job.req.p, obj |-> Stat(x.fs, job.req.p)]
    <2>1. job.req.p \in Paths BY <1>3, RequestIs
    <2>2. x \in Open(fs, job.req.p, job.req.how, FileRights(job.req.rights), Opened)
      BY <1>8 DEF Results, PathOf, Failed
    <2>3. Stat(x.fs, job.req.p) \in Objects
      BY <1>8, <2>1, <2>2, OpenHas, MaskingsBound DEF FilesInv
    <2>4. handle' \in [path : Paths, obj : Objects] BY <1>8, <2>1, <2>3
    <2>5. Sound(x.fs, IF handle' = None THEN {} ELSE {handle'.obj})
      <3>1. Opened = {} BY <1>8 DEF Opened
      <3> QED BY <1>5, <3>1, SoundMore
    <2> QED BY <1>1, <1>2, <1>6, <2>4, <2>5, FilesInvOf DEF FilesInv, TypeOK
  <1> QED BY <1>1, <1>7, <1>8

LEMMA CloseStep ==
  ASSUME FilesInv, NEW r \in HandleRequests, Close(r)
  PROVE  FilesInv'
  <1>1. /\ fs' = Settled(fs, {}) /\ handle' = None /\ job' = Refused(r, "OK")
        /\ disabled' = disabled /\ raced' = raced
    BY DEF Close
  <1>2. Sound(fs', {}) BY <1>1, SettledSound DEF FilesInv, Sound
  <1>3. job' \in Jobs /\ JobGood(job', handle') BY <1>1, RefusedGood DEF Statuses
  <1> QED BY <1>1, <1>2, <1>3, FilesInvOf DEF FilesInv, TypeOK

LEMMA FilesInvNext ==
  ASSUME FilesInv, [Next]_vars
  PROVE  FilesInv'
  <1>1. ASSUME UNCHANGED <<fs, disabled, handle, raced>>, job' \in Jobs, JobGood(job', handle)
        PROVE  FilesInv'
    BY <1>1, FilesInvOf DEF FilesInv, TypeOK, Opened
  <1>2. CASE Call BY <1>2, CallStep
  <1>3. CASE OpenFile BY <1>3, OpenStep
  <1>4. CASE Others
    <2>1. PICK x \in OthersResults : fs' = x.fs BY <1>4 DEF Others
    <2>2. disabled' = disabled /\ handle' = handle /\ job' = job /\ raced' = raced
      BY <1>4 DEF Others
    <2>3. Sound(fs', Opened) BY <2>1, OthersSound DEF FilesInv
    <2> QED BY <2>2, <2>3, FilesInvOf DEF FilesInv, TypeOK, Opened, Jobs
  <1>5. ASSUME NEW r \in HandleRequests, Close(r) PROVE FilesInv'
    BY <1>5, CloseStep
  <1>6. ASSUME NEW r \in Requests, Begin(r) PROVE FilesInv'
    BY <1>1, <1>6, BeginGood DEF Begin
  <1>7. ASSUME NEW r \in HandleRequests, BeginHandle(r) PROVE FilesInv'
    BY <1>1, <1>7, BeginHandleGood DEF BeginHandle
  <1>8. CASE Check BY <1>1, <1>8, CheckGood DEF Check
  <1>9. CASE Send BY <1>1, <1>9, IdleGood DEF Send, JobGood
  <1>10. CASE UNCHANGED vars BY <1>1, <1>10 DEF vars, FilesInv, TypeOK, Jobs
  <1> QED
    BY <1>2, <1>3, <1>4, <1>5, <1>6, <1>7, <1>8, <1>9, <1>10 DEF Next

LEMMA FilesInvInit ==
  ASSUME Init
  PROVE  FilesInv
  <1>1. EmptyTree \in Trees BY DEF EmptyTree, Trees, Kinds
  <1>2. Formed(EmptyTree)
    BY <1>1, ObjectsAssumption DEF EmptyTree, Formed, Dirs
  <1>3. Sound(EmptyTree, {}) BY <1>2 DEF Sound, EmptyTree, Blank
  <1>4. TypeOK BY <1>1, IdleGood DEF Init, TypeOK, Jobs
  <1> QED BY <1>3, <1>4 DEF Init, FilesInv, JobGood, Opened

(* The tree, the handle and the request have their types for all names,    *)
(* objects, rights and profiles: what open() leaves a handle for is an     *)
(* object, and each request does its own calls only.                       *)
THEOREM TypeCorrect == Spec => []TypeOK
  <1>1. Init => FilesInv BY FilesInvInit
  <1>2. FilesInv /\ [Next]_vars => FilesInv' BY FilesInvNext
  <1>3. FilesInv => TypeOK BY DEF FilesInv
  <1> QED BY <1>1, <1>2, <1>3, PTL DEF Spec

(* A request that is refused or fails has changed nothing, but for the     *)
(* three exceptions (FSRename before it moves, DoOpen with no handle left, *)
(* DoSetStat with several attributes): for all requests, and whatever      *)
(* other processes do between its calls.                                   *)
THEOREM FailuresHarmless == Spec => []FailureHarmless
  <1>1. Init => FilesInv BY FilesInvInit
  <1>2. FilesInv /\ [Next]_vars => FilesInv' BY FilesInvNext
  <1>3. FilesInv => FailureHarmless
    <2> SUFFICES ASSUME FilesInv, Answered, job.status # "OK", job.changed
                 PROVE  \/ job.req.op = "rename" /\ "overwrite" \in job.req.how
                        \/ job.req.op = "open" /\ handle # None
                        \/ SetStat(job.req) /\ Cardinality(job.req.how) > 1
      BY DEF FailureHarmless
    <2>1. job # Idle BY DEF Idle
    <2>2. Served(job, handle) BY <2>1 DEF FilesInv, JobGood
    <2> QED BY <2>2 DEF Served, Single, Answered
  <1> QED BY <1>1, <1>2, <1>3, PTL DEF Spec

-----------------------------------------------------------------------------
(* Which files lose their data.                                            *)

Loss ==
  \A o \in fs.full \ fs'.full :
    job' # job => \/ job # Idle /\ Explained(o)
                  \/ job = Idle /\ handle' # handle /\ o \in Opened

\* What a call takes is what the request names, and its tag allows it.
LEMMA LostExplained ==
  ASSUME FilesInv, ~Answered, Due \notin {"check", "check_to"}, NEW o \in Lost(Due)
  PROVE  job # Idle /\ Explained(o)
  <1> DEFINE r == job.req
             c == Due
  <1>1. /\ job # Idle /\ Served(job, handle) /\ c \in CallsOf(r) /\ ~Disabled(r)
        /\ r \in Requests \cup HandleRequests
    BY DueIs DEF Served
  <1>2. r.op = "open" => ~OpenDisabled(r) BY <1>1 DEF Served, Answered
  <1>3. CASE c = "open"
    <2>1. r.op = "open" /\ "trunc" \in r.how /\ o = Stat(fs, r.p)
      BY <1>1, <1>3, CallIs DEF Lost
    <2> QED BY <1>1, <1>2, <2>1 DEF Explained, TruncatesToRead, Designated, OpenDisabled
  <1>4. CASE c = "unlink"
    <2>1. r.op = "remove" /\ o = Lstat(fs, r.p) BY <1>1, <1>4, CallIs DEF Lost
    <2> QED BY <1>1, <2>1 DEF Explained, Designated, Disabled, TagOf
  <1>5. CASE c \in {"clear", "rename"}
    <2>1. r.op = "rename" /\ o = Lstat(fs, r.q) BY <1>1, <1>5, CallIs DEF Lost
    <2> QED BY <1>1, <2>1 DEF Explained, Disabled, TagOf
  <1>6. CASE c = "truncate"
    <2>1. SetStat(r) /\ o = Stat(fs, r.p) BY <1>1, <1>6, CallIs DEF Lost
    <2>2. "SET_ATTRIBUTE" \notin disabled BY <1>1, <2>1 DEF Disabled, TagOf, SetStat
    <2> QED BY <1>1, <2>1, <2>2 DEF Explained, Designated
  <1>7. CASE c \notin {"open", "unlink", "clear", "rename", "truncate"}
    BY <1>7 DEF Lost
  <1> QED BY <1>3, <1>4, <1>5, <1>6, <1>7

LEMMA LossStep ==
  ASSUME FilesInv, [Next]_vars
  PROVE  Loss
  <1>1. ASSUME fs' = fs PROVE Loss BY <1>1 DEF Loss
  <1>2. ASSUME ~Answered, Due \notin {"check", "check_to"},
               NEW x \in Results(Due), fs' = x.fs
        PROVE  Loss
    <2>1. Due \in CallsOf(job.req) /\ job.req \in Requests \cup HandleRequests
      BY <1>2, DueIs DEF Served
    <2>2. Good(fs, Opened, Results(Due), Lost(Due)) BY <1>2, <2>1, ResultsGood DEF FilesInv
    <2>3. fs.full \ fs'.full \subseteq Lost(Due) BY <1>2, <2>2 DEF Good
    <2>4. \A o \in Lost(Due) : job # Idle /\ Explained(o) BY <1>2, LostExplained
    <2> QED BY <2>3, <2>4 DEF Loss
  <1>3. CASE Call BY <1>2, <1>3 DEF Call
  <1>4. CASE OpenFile BY <1>2, <1>4 DEF OpenFile
  <1>5. CASE Others BY <1>5 DEF Others, Loss
  <1>6. ASSUME NEW r \in HandleRequests, Close(r) PROVE Loss
    <2>1. job = Idle /\ handle # None /\ handle' = None /\ fs' = Settled(fs, {})
      BY <1>6 DEF Close
    <2>2. ASSUME NEW o \in fs.full \ fs'.full PROVE o \in Opened
      <3>1. Formed(fs) /\ fs \in Trees BY DEF FilesInv, Sound, Formed
      <3>2. o \in Objects /\ fs.kind[o] = "file" BY <3>1, TreeParts DEF Formed
      <3>3. ~HasName(fs, o) BY <2>1, <2>2, <3>1, <3>2, SettledIs
      <3> QED BY <3>2, <3>3 DEF FilesInv, Sound, Blank
    <2> QED BY <2>1, <2>2 DEF Loss
  <1>7. ASSUME NEW r \in Requests, Begin(r) PROVE Loss
    BY <1>1, <1>7 DEF Begin
  <1>8. ASSUME NEW r \in HandleRequests, BeginHandle(r) PROVE Loss
    BY <1>1, <1>8 DEF BeginHandle
  <1>9. CASE Check BY <1>1, <1>9 DEF Check
  <1>10. CASE Send BY <1>1, <1>10 DEF Send
  <1>11. CASE UNCHANGED vars BY <1>1, <1>11 DEF vars
  <1> QED
    BY <1>3, <1>4, <1>5, <1>6, <1>7, <1>8, <1>9, <1>10, <1>11 DEF Next

(* A session makes the data of a file disappear only by the five ways of   *)
(* LossExplained, and of no file but the one its request names when the    *)
(* call is made. The Disable tag of a request has been tested before, but  *)
(* for an open that truncates without asking for writing (Sftp.c 373-374). *)
THEOREM LossesExplained == Spec => LossExplained
  <1>1. Init => FilesInv BY FilesInvInit
  <1>2. FilesInv /\ [Next]_vars => FilesInv' BY FilesInvNext
  <1>3. FilesInv /\ [Next]_vars => [Loss]_vars BY LossStep
  <1>4. Spec => [][Loss]_vars BY <1>1, <1>2, <1>3, PTL DEF Spec
  <1> QED BY <1>4 DEF LossExplained, Loss

=============================================================================
