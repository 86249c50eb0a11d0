-------------------------- MODULE HandleTableProofs --------------------------
(***************************************************************************)
(* Proofs about HandleTable, for every number of sessions, of handles, of  *)
(* descriptors and of paths, and every limit.                              *)
(*                                                                         *)
(* The invariant is a predicate of what belongs to one session: its table, *)
(* what the kernel has open for it, its slot, its phase and its request,   *)
(* the descriptor not yet published, and whether it was taken for dead.    *)
(* An action changes these for one session only, so each operation of the  *)
(* table is treated in a lemma about a table and a kernel, and each action *)
(* cites the lemmas of the operations it makes.                            *)
(***************************************************************************)
EXTENDS HandleTable, FiniteSetTheorems, TLAPS

Tables == [Ids -> HandleRecord]
Kernels == [Nums -> Objects \cup {None}]

\* NothingLeaked for one table, where e is the descriptor that has no handle
\* yet, or None; and an unused entry has no descriptor.
Sound(t, k, e) ==
  /\ \A n \in Nums : k[n] # None =>
       n = e \/ \E h \in Ids : t[h].state # "UNUSED" /\ Number(t[h]) = n
  /\ \A h \in Ids : t[h].state # "UNUSED" =>
       /\ Number(t[h]) \in Nums
       /\ Number(t[h]) # e
       /\ k[Number(t[h])] = [kind |-> t[h].state, path |-> t[h].path]
       /\ t[h].path \in Paths
  /\ \A g, h \in Ids :
       t[g].state # "UNUSED" /\ t[h].state # "UNUSED" /\ Number(t[g]) = Number(t[h])
         => g = h
  /\ \A h \in Ids : t[h].state = "UNUSED" => t[h].dir = None /\ t[h].fd = None

\* ShownIsLast for one table and its slot.
ShownOK(t, r) ==
  IF FileIds(t) = {}
  THEN r.st = "IDLE" /\ r.file = None
  ELSE \E f \in FileIds(t) :
         /\ \A g \in FileIds(t) : g <= f
         /\ r.file = t[f].path
         /\ r.pos = t[f].pos
         /\ r.st = "PUT" <=> t[f].flags = "WRONLY"
         /\ r.st = "GET" <=> t[f].flags # "WRONLY"

\* The descriptor that has no handle yet.
Extra(ph, f) == IF ph = "opened" THEN f ELSE None

\* f is the descriptor not yet published, and rp that the slot was emptied
\* while the session lived.
SessionOK(t, k, r, ph, w, f, rp) ==
  /\ ph # "killed" => Sound(t, k, Extra(ph, f))
  /\ ph = "killed" => \A n \in Nums : k[n] = None
  /\ ph \in {"check", "open", "opened"} => w \in Request
  /\ ph = "opened" => f \in Nums /\ k[f] = [kind |-> "FILE", path |-> w.path]
  /\ ph \in Steady /\ ~ rp => ShownOK(t, r)
  /\ ph = "publish" /\ ~ rp =>
       /\ r.st # "EMPTY"
       /\ r.st = "IDLE" => \A h \in FileIds(t) : t[h].fd = f
  /\ ph = "closing" /\ ~ rp => r.st # "EMPTY" /\ (r.st = "IDLE" => FileIds(t) = {})
  /\ ph \in {"released", "exited"} => FileIds(t) = {}

Fine(s) ==
  SessionOK(handles[s], kernel[s], shown[s], phase[s], want[s], fresh[s], s \in reaped)

TableInv == \A s \in Sessions : Fine(s)

IInv == TypeOK /\ TableInv

-----------------------------------------------------------------------------
(* The first and the last of a set of entries.                             *)

\* A set of natural numbers that is not empty has a least element.
LEMMA LeastNat ==
  ASSUME NEW S, S \subseteq Nat, S # {}
  PROVE  \E m \in S : \A x \in S : m <= x
<1> DEFINE T == {0 .. m : m \in S}
<1>1. T \subseteq FiniteSubsetsOf(Nat) /\ T # {}
  <2>1. ASSUME NEW m \in S PROVE 0 .. m \in FiniteSubsetsOf(Nat)
    BY FS_Interval DEF FiniteSubsetsOf
  <2> QED BY <2>1
<1>2. PICK X \in T : \A Y \in T : <<Y, X>> \notin StrictSubsetOrdering(Nat)
  BY <1>1, FS_StrictSubsetOrderingWellFounded, WFMin
<1>3. PICK m \in S : X = 0 .. m
  BY <1>2
<1>4. ASSUME NEW x \in S, x < m PROVE FALSE
  <2>1. 0 .. x \in T /\ 0 .. x \subseteq 0 .. m /\ m \in 0 .. m /\ m \notin 0 .. x
    BY <1>4
  <2>2. <<0 .. x, X>> \in StrictSubsetOrdering(Nat)
    BY <2>1, <1>3 DEF StrictSubsetOrdering
  <2> QED BY <2>1, <2>2, <1>2
<1> QED BY <1>4

\* The indices of the table are natural numbers below 208.
LEMMA IdsAreNat == Ids \subseteq Nat /\ NHandles \in Nat /\ NHandles <= 208
BY HandlesAssumption DEF Ids

\* HandleNew takes an unused entry, when there is one.
LEMMA FirstFreeIs ==
  ASSUME NEW t, FreeIds(t) # {}
  PROVE  FirstFree(t) \in FreeIds(t)
<1>1. FreeIds(t) \subseteq Nat
  BY IdsAreNat DEF FreeIds
<1>2. \E h \in FreeIds(t) : \A g \in FreeIds(t) : h <= g
  BY <1>1, LeastNat
<1> QED BY <1>2 DEF FirstFree

\* HandleGetLastOpen gives the last file, when there is one.
LEMMA LastFileIs ==
  ASSUME NEW t, FileIds(t) # {}
  PROVE  LastFile(t) \in FileIds(t) /\ \A g \in FileIds(t) : g <= LastFile(t)
<1> DEFINE Down == {NHandles - h : h \in FileIds(t)}
<1>1. FileIds(t) \subseteq Ids
  BY DEF FileIds
<1>2. Down \subseteq Nat /\ Down # {}
  BY <1>1, IdsAreNat DEF Ids
<1>3. PICK m \in Down : \A x \in Down : m <= x
  BY <1>2, LeastNat
<1>4. PICK h \in FileIds(t) : m = NHandles - h
  BY <1>3
<1>5. \A g \in FileIds(t) : g <= h
  <2>1. ASSUME NEW g \in FileIds(t) PROVE g <= h
    <3>1. NHandles - g \in Down /\ g \in Nat /\ h \in Nat /\ NHandles \in Nat
      BY <1>1, IdsAreNat
    <3>2. NHandles - h <= NHandles - g
      BY <3>1, <1>3, <1>4
    <3> QED BY <3>1, <3>2
  <2> QED BY <2>1
<1>6. \E f \in FileIds(t) : \A g \in FileIds(t) : g <= f
  BY <1>5
<1> QED BY <1>6 DEF LastFile

-----------------------------------------------------------------------------
(* The operations of the table keep it sound.                              *)

\* TypeOK in terms of whole tables and whole kernels.
LEMMA TypesAre ==
  TypeOK <=>
    /\ handles \in [Sessions -> Tables]
    /\ kernel \in [Sessions -> Kernels]
    /\ shown \in [Sessions -> SlotRecord]
    /\ phase \in [Sessions -> Phases]
    /\ want \in [Sessions -> Request \cup {None}]
    /\ at \in [Sessions -> Sessions]
    /\ seen \in [Sessions -> [get : Nat, put : Nat]]
    /\ fresh \in [Sessions -> Nums \cup {None}]
    /\ reaped \subseteq Sessions
BY DEF TypeOK, Tables, Kernels

\* The same for the state after a step.
LEMMA TypesAfter ==
  ASSUME handles' \in [Sessions -> Tables],
         kernel' \in [Sessions -> Kernels],
         shown' \in [Sessions -> SlotRecord],
         phase' \in [Sessions -> Phases],
         want' \in [Sessions -> Request \cup {None}],
         at' \in [Sessions -> Sessions],
         seen' \in [Sessions -> [get : Nat, put : Nat]],
         fresh' \in [Sessions -> Nums \cup {None}],
         reaped' \subseteq Sessions
  PROVE  TypeOK'
BY DEF TypeOK, Tables, Kernels

\* An unused entry is an entry.
LEMMA UnusedIs == Unused \in HandleRecord
BY PositionsAssumption DEF Unused, HandleRecord, Access

\* HandleClose of any entry, even an unused one: the descriptor of the entry
\* is closed and no other.
LEMMA CloseSound ==
  ASSUME NEW t \in Tables, NEW k \in Kernels, Sound(t, k, None), NEW h \in Ids
  PROVE  LET u == [t EXCEPT ![h] = Cleared(@)]
             l == [n \in Nums |-> IF n \in Closed(t[h]) THEN None ELSE k[n]]
         IN /\ u \in Tables /\ l \in Kernels
            /\ Sound(u, l, None)
            /\ FileIds(u) = FileIds(t) \ {h}
<1> DEFINE u == [t EXCEPT ![h] = Cleared(@)]
           l == [n \in Nums |-> IF n \in Closed(t[h]) THEN None ELSE k[n]]
<1>1. u \in Tables
  BY UnusedIs DEF Tables, Cleared
<1>2. l \in Kernels
  BY DEF Kernels
<1>3. /\ u[h].state = "UNUSED" /\ u[h].dir = None /\ u[h].fd = None
      /\ \A g \in Ids \ {h} : u[g] = t[g]
  BY DEF Tables, Cleared, Unused
<1>4. \A n \in Nums : n \in Closed(t[h]) <=> t[h].state # "UNUSED" /\ Number(t[h]) = n
  <2>1. CASE t[h].state = "UNUSED"
    BY <2>1, NoneAssumption DEF Sound, Closed
  <2>2. CASE t[h].state # "UNUSED"
    BY <2>2 DEF Closed, Number
  <2> QED BY <2>1, <2>2
<1>5. Sound(u, l, None)
  <2>1. \A n \in Nums : l[n] # None => n = None \/
          \E g \in Ids : u[g].state # "UNUSED" /\ Number(u[g]) = n
    <3>1. SUFFICES ASSUME NEW n \in Nums, l[n] # None
                   PROVE  \E g \in Ids : u[g].state # "UNUSED" /\ Number(u[g]) = n
      OBVIOUS
    <3>2. n \notin Closed(t[h]) /\ k[n] # None
      BY <3>1
    <3>3. PICK g \in Ids : t[g].state # "UNUSED" /\ Number(t[g]) = n
      BY <3>2, NoneAssumption DEF Sound
    <3>4. g # h
      BY <3>2, <3>3, <1>4
    <3> QED BY <3>3, <3>4, <1>3
  <2>2. \A g \in Ids : u[g].state # "UNUSED" =>
          /\ Number(u[g]) \in Nums
          /\ Number(u[g]) # None
          /\ l[Number(u[g])] = [kind |-> u[g].state, path |-> u[g].path]
          /\ u[g].path \in Paths
    <3>1. SUFFICES ASSUME NEW g \in Ids, u[g].state # "UNUSED"
                   PROVE  /\ Number(u[g]) \in Nums
                          /\ Number(u[g]) # None
                          /\ l[Number(u[g])] = [kind |-> u[g].state, path |-> u[g].path]
                          /\ u[g].path \in Paths
      OBVIOUS
    <3>2. g # h /\ u[g] = t[g]
      BY <3>1, <1>3
    <3>3. /\ Number(t[g]) \in Nums /\ t[g].path \in Paths
          /\ k[Number(t[g])] = [kind |-> t[g].state, path |-> t[g].path]
      BY <3>1, <3>2 DEF Sound
    <3>4. Number(t[g]) \notin Closed(t[h])
      BY <3>1, <3>2, <3>3, <1>4 DEF Sound
    <3> QED BY <3>2, <3>3, <3>4, NoneAssumption
  <2>3. \A g, i \in Ids :
          u[g].state # "UNUSED" /\ u[i].state # "UNUSED" /\ Number(u[g]) = Number(u[i])
            => g = i
    BY <1>3 DEF Sound
  <2>4. \A g \in Ids : u[g].state = "UNUSED" => u[g].dir = None /\ u[g].fd = None
    BY <1>3 DEF Sound
  <2> HIDE DEF u, l
  <2> QED BY <2>1, <2>2, <2>3, <2>4 DEF Sound
<1>6. FileIds(u) = FileIds(t) \ {h}
  <2>1. \A g \in Ids : u[g].state = "FILE" <=> t[g].state = "FILE" /\ g # h
    BY <1>3
  <2> QED BY <2>1 DEF FileIds
<1> QED BY <1>1, <1>2, <1>5, <1>6

\* HandleNew with a descriptor that is open and has no handle.
LEMMA AddSound ==
  ASSUME NEW t \in Tables, NEW k \in Kernels, NEW n \in Nums, Sound(t, k, n),
         NEW h \in FreeIds(t),
         NEW r \in HandleRecord, r.state # "UNUSED", Number(r) = n, r.path \in Paths,
         k[n] = [kind |-> r.state, path |-> r.path]
  PROVE  LET u == [t EXCEPT ![h] = r]
         IN u \in Tables /\ Sound(u, k, None)
<1> DEFINE u == [t EXCEPT ![h] = r]
<1>1. h \in Ids /\ t[h].state = "UNUSED"
  BY DEF FreeIds
<1>2. u \in Tables /\ u[h] = r /\ \A g \in Ids \ {h} : u[g] = t[g]
  BY <1>1 DEF Tables
<1>5. \A g \in Ids : t[g].state # "UNUSED" => Number(t[g]) # n
  BY DEF Sound
<1>6. \A m \in Nums : k[m] # None =>
        m = None \/ \E g \in Ids : u[g].state # "UNUSED" /\ Number(u[g]) = m
  <2>1. SUFFICES ASSUME NEW m \in Nums, k[m] # None
                 PROVE  \E g \in Ids : u[g].state # "UNUSED" /\ Number(u[g]) = m
    OBVIOUS
  <2>2. CASE m = n
    BY <2>2, <1>1, <1>2
  <2>3. CASE m # n
    <3>1. PICK g \in Ids : t[g].state # "UNUSED" /\ Number(t[g]) = m
      BY <2>1, <2>3 DEF Sound
    <3> QED BY <3>1, <1>1, <1>2
  <2> QED BY <2>2, <2>3
<1>7. \A g \in Ids : u[g].state # "UNUSED" =>
        /\ Number(u[g]) \in Nums
        /\ Number(u[g]) # None
        /\ k[Number(u[g])] = [kind |-> u[g].state, path |-> u[g].path]
        /\ u[g].path \in Paths
  <2>1. SUFFICES ASSUME NEW g \in Ids, u[g].state # "UNUSED"
                 PROVE  /\ Number(u[g]) \in Nums
                        /\ k[Number(u[g])] = [kind |-> u[g].state, path |-> u[g].path]
                        /\ u[g].path \in Paths
    BY NoneAssumption
  <2>2. CASE g = h
    BY <2>2, <1>2
  <2>3. CASE g # h
    BY <2>1, <2>3, <1>2 DEF Sound
  <2> QED BY <2>2, <2>3
<1>8. \A g, i \in Ids :
        u[g].state # "UNUSED" /\ u[i].state # "UNUSED" /\ Number(u[g]) = Number(u[i])
          => g = i
  BY <1>2, <1>5 DEF Sound
<1>9. \A g \in Ids : u[g].state = "UNUSED" => u[g].dir = None /\ u[g].fd = None
  BY <1>2 DEF Sound
<1>10. Sound(u, k, None)
  <2> HIDE DEF u
  <2> QED BY <1>6, <1>7, <1>8, <1>9 DEF Sound
<1> QED BY <1>2, <1>10

\* A descriptor just opened is no handle's.
LEMMA OpenSound ==
  ASSUME NEW t \in Tables, NEW k \in Kernels, Sound(t, k, None),
         NEW n \in Nums, k[n] = None, NEW o \in Objects
  PROVE  LET l == [k EXCEPT ![n] = o]
         IN l \in Kernels /\ l[n] = o /\ Sound(t, l, n)
<1> DEFINE l == [k EXCEPT ![n] = o]
<1>1. l \in Kernels /\ l[n] = o /\ \A m \in Nums \ {n} : l[m] = k[m]
  BY DEF Kernels
<1>2. \A g \in Ids : t[g].state # "UNUSED" => Number(t[g]) # n
  <2>1. SUFFICES ASSUME NEW g \in Ids, t[g].state # "UNUSED", Number(t[g]) = n
                 PROVE  FALSE
    OBVIOUS
  <2>2. k[n] = [kind |-> t[g].state, path |-> t[g].path] /\ t[g].path \in Paths
    BY <2>1 DEF Sound
  <2>3. [kind |-> t[g].state, path |-> t[g].path] \in Objects
    BY <2>1, <2>2 DEF Objects, Tables, HandleRecord
  <2> QED BY <2>2, <2>3, NoneAssumption
<1>3. Sound(t, l, n)
  <2> HIDE DEF l
  <2>1. \A m \in Nums : l[m] # None =>
          m = n \/ \E h \in Ids : t[h].state # "UNUSED" /\ Number(t[h]) = m
    BY <1>1, NoneAssumption DEF Sound
  <2>2. \A h \in Ids : t[h].state # "UNUSED" =>
          /\ Number(t[h]) \in Nums /\ Number(t[h]) # n
          /\ l[Number(t[h])] = [kind |-> t[h].state, path |-> t[h].path]
          /\ t[h].path \in Paths
    BY <1>1, <1>2 DEF Sound
  <2> QED BY <2>1, <2>2 DEF Sound
<1> QED BY <1>1, <1>3

\* xclose of it.
LEMMA DropSound ==
  ASSUME NEW t \in Tables, NEW k \in Kernels, NEW n \in Nums, Sound(t, k, n)
  PROVE  LET l == [k EXCEPT ![n] = None]
         IN l \in Kernels /\ Sound(t, l, None)
<1> DEFINE l == [k EXCEPT ![n] = None]
<1>1. l \in Kernels /\ l[n] = None /\ \A m \in Nums \ {n} : l[m] = k[m]
  BY DEF Kernels
<1>2. Sound(t, l, None)
  <2> HIDE DEF l
  <2>1. \A m \in Nums : l[m] # None =>
          \E h \in Ids : t[h].state # "UNUSED" /\ Number(t[h]) = m
    BY <1>1 DEF Sound
  <2>2. \A h \in Ids : t[h].state # "UNUSED" =>
          /\ Number(t[h]) \in Nums /\ Number(t[h]) # None
          /\ l[Number(t[h])] = [kind |-> t[h].state, path |-> t[h].path]
          /\ t[h].path \in Paths
    BY <1>1, NoneAssumption DEF Sound
  <2> QED BY <2>1, <2>2 DEF Sound
<1> QED BY <1>1, <1>2

\* A change of position.
LEMMA MoveSound ==
  ASSUME NEW t \in Tables, NEW k \in Kernels, Sound(t, k, None),
         NEW h \in Ids, NEW n \in Positions
  PROVE  LET u == [t EXCEPT ![h].pos = n]
         IN u \in Tables /\ Sound(u, k, None)
<1> DEFINE u == [t EXCEPT ![h].pos = n]
<1>1. u \in Tables
  BY DEF Tables, HandleRecord
<1>2. \A g \in Ids : /\ u[g].state = t[g].state /\ u[g].path = t[g].path
                     /\ u[g].dir = t[g].dir /\ u[g].fd = t[g].fd
                     /\ Number(u[g]) = Number(t[g])
  BY DEF Tables, HandleRecord, Number
<1>3. Sound(u, k, None)
  <2> HIDE DEF u
  <2> QED BY <1>2 DEF Sound
<1> QED BY <1>1, <1>3

\* UpdateInfoForOpenFiles publishes the last file.
LEMMA PublishedOK ==
  ASSUME NEW t \in Tables, NEW r \in SlotRecord
  PROVE  Published(t, r) \in SlotRecord /\ ShownOK(t, Published(t, r))
<1>1. CASE FileIds(t) = {}
  <2>1. Published(t, r) = [r EXCEPT !.st = "IDLE", !.file = None]
    BY <1>1 DEF Published
  <2> QED BY <1>1, <2>1 DEF SlotRecord, ShownOK
<1>2. CASE FileIds(t) # {}
  <2> DEFINE f == LastFile(t)
  <2>1. f \in FileIds(t) /\ \A g \in FileIds(t) : g <= f
    BY <1>2, LastFileIs
  <2>2. f \in Ids /\ t[f].state = "FILE" /\ t[f] \in HandleRecord
    BY <2>1 DEF FileIds, Tables
  <2>3. t[f].path \in Paths \cup {None} /\ t[f].pos \in Positions /\ t[f].flags \in Access
    BY <2>2 DEF HandleRecord
  <2>4. Published(t, r) =
          [st |-> IF t[f].flags = "WRONLY" THEN "PUT" ELSE "GET",
           file |-> t[f].path, pos |-> t[f].pos]
    BY <1>2 DEF Published
  <2> HIDE DEF f
  <2>5. Published(t, r) \in SlotRecord
    BY <2>3, <2>4 DEF SlotRecord
  <2>6. /\ Published(t, r).file = t[f].path /\ Published(t, r).pos = t[f].pos
        /\ Published(t, r).st = "PUT" <=> t[f].flags = "WRONLY"
        /\ Published(t, r).st = "GET" <=> t[f].flags # "WRONLY"
    BY <2>4
  <2> QED BY <1>2, <2>1, <2>5, <2>6 DEF ShownOK
<1> QED BY <1>1, <1>2

-----------------------------------------------------------------------------
(* The invariant, action by action.                                        *)

\* An action of one session leaves the others alone.
Same(o) ==
  /\ handles'[o] = handles[o] /\ kernel'[o] = kernel[o] /\ shown'[o] = shown[o]
  /\ phase'[o] = phase[o] /\ want'[o] = want[o] /\ fresh'[o] = fresh[o]
  /\ o \in reaped' <=> o \in reaped

OKAfter(s) ==
  SessionOK(handles'[s], kernel'[s], shown'[s], phase'[s], want'[s], fresh'[s], s \in reaped')

\* An action that keeps its own session in order keeps them all.
LEMMA Frame ==
  ASSUME TableInv, NEW s \in Sessions, OKAfter(s),
         \A o \in Sessions \ {s} : Same(o)
  PROVE  TableInv'
<1>1. ASSUME NEW o \in Sessions PROVE OKAfter(o)
  <2>1. CASE o = s
    BY <2>1
  <2>2. CASE o # s
    <3>1. Same(o) /\ Fine(o)
      BY <2>2 DEF TableInv
    <3>2. CASE o \in reaped
      BY <3>1, <3>2 DEF Fine, Same, OKAfter, SessionOK
    <3>3. CASE o \notin reaped
      BY <3>1, <3>3 DEF Fine, Same, OKAfter, SessionOK
    <3> QED BY <3>2, <3>3
  <2> QED BY <2>1, <2>2
<1> QED BY <1>1 DEF TableInv, Fine, OKAfter

\* The invariant holds when sessions begin (HandleInit).
LEMMA InitInv == Init => IInv
<1>1. SUFFICES ASSUME Init PROVE IInv
  OBVIOUS
<1>2. Unused \in HandleRecord /\ Unused.state = "UNUSED" /\ Unused.dir = None /\ Unused.fd = None
  BY PositionsAssumption DEF Unused, HandleRecord, Access
<1>3. TypeOK
  BY <1>1, <1>2, SessionsAssumption, PositionsAssumption
  DEF Init, TypeOK, SlotRecord, Phases, Serving, Steady, Sessions, NobodySeen
<1>4. ASSUME NEW s \in Sessions PROVE Fine(s)
  <2>1. /\ \A h \in Ids : handles[s][h] = Unused
        /\ \A n \in Nums : kernel[s][n] = None
        /\ shown[s].st = "IDLE" /\ shown[s].file = None
        /\ phase[s] = "run"
    BY <1>1 DEF Init
  <2>2. Sound(handles[s], kernel[s], None)
    BY <2>1, <1>2 DEF Sound
  <2>3. FileIds(handles[s]) = {}
    BY <2>1, <1>2 DEF FileIds
  <2> QED BY <2>1, <2>2, <2>3 DEF Fine, SessionOK, ShownOK, Extra
<1> QED BY <1>3, <1>4 DEF IInv, TableInv

\* What the invariant says of the session that acts.
LEMMA Here ==
  ASSUME IInv, NEW s \in Sessions
  PROVE  /\ handles[s] \in Tables /\ kernel[s] \in Kernels /\ shown[s] \in SlotRecord
         /\ phase[s] \in Phases /\ want[s] \in Request \cup {None}
         /\ fresh[s] \in Nums \cup {None} /\ Fine(s)
         /\ phase[s] \notin {"killed", "opened"} => Sound(handles[s], kernel[s], None)
<1>1. Fine(s)
  BY DEF IInv, TableInv
<1>2. phase[s] \notin {"killed", "opened"} => Sound(handles[s], kernel[s], None)
  BY <1>1 DEF Fine, SessionOK, Extra
<1> QED BY <1>1, <1>2, TypesAre DEF IInv

\* DoOpenDir keeps the invariant: with no free entry the stream is closed.
LEMMA OpenDirInv ==
  ASSUME IInv, NEW s \in Sessions, DoOpenDir(s)
  PROVE  IInv'
<1>1. PICK n \in FreeNums(s), p \in Paths :
        IF FreeIds(handles[s]) = {}
        THEN UNCHANGED <<handles, kernel>>
        ELSE /\ OpenAs(s, n, [kind |-> "DIR", path |-> p])
             /\ handles' = [handles EXCEPT ![s][FirstFree(handles[s])] =
                  [state |-> "DIR", path |-> p, dir |-> n, fd |-> None,
                   flags |-> "RDONLY", pos |-> @.pos]]
  BY DEF DoOpenDir
<1>2. phase[s] = "run" /\ UNCHANGED <<shown, phase, want, at, seen, fresh, reaped>>
  BY DEF DoOpenDir
<1>3. CASE FreeIds(handles[s]) = {}
  <2>1. UNCHANGED vars
    BY <1>1, <1>2, <1>3 DEF vars
  <2> QED BY <2>1 DEF vars, IInv, TypeOK, TableInv, Fine
<1>4. CASE FreeIds(handles[s]) # {}
  <2> DEFINE h == FirstFree(handles[s])
             r == [state |-> "DIR", path |-> p, dir |-> n, fd |-> None,
                   flags |-> "RDONLY", pos |-> handles[s][h].pos]
             o == [kind |-> "DIR", path |-> p]
  <2>1. h \in FreeIds(handles[s]) /\ h \in Ids
    BY <1>4, FirstFreeIs DEF FreeIds
  <2>2. r \in HandleRecord /\ r.state = "DIR" /\ Number(r) = n /\ r.path = p
    BY <2>1, Here DEF Tables, HandleRecord, Access, Number, FreeNums
  <2>3. n \in Nums /\ kernel[s][n] = None
    BY DEF FreeNums
  <2>4. /\ handles' = [handles EXCEPT ![s][h] = r]
        /\ kernel' = [kernel EXCEPT ![s][n] = o]
    BY <1>1, <1>4 DEF OpenAs
  <2> HIDE DEF h
  <2>5. /\ handles'[s] = [handles[s] EXCEPT ![h] = r]
        /\ kernel'[s] = [kernel[s] EXCEPT ![n] = o]
        /\ \A i \in Sessions \ {s} : Same(i)
    BY <2>4, <1>2, TypesAre DEF IInv, Same
  <2>6. o \in Objects /\ o = [kind |-> r.state, path |-> r.path]
    BY DEF Objects
  <2> HIDE DEF r, o
  <2>7. /\ handles'[s] \in Tables /\ kernel'[s] \in Kernels
        /\ Sound(handles'[s], kernel'[s], None)
    <3>1. handles[s] \in Tables /\ kernel[s] \in Kernels /\ Sound(handles[s], kernel[s], None)
      BY <1>2, Here
    <3>2. /\ kernel'[s] \in Kernels /\ kernel'[s][n] = o
          /\ Sound(handles[s], kernel'[s], n)
      BY <2>3, <2>5, <2>6, <3>1, OpenSound
    <3>3. /\ n \in Nums /\ r.state # "UNUSED" /\ r.path \in Paths
          /\ kernel'[s][n] = [kind |-> r.state, path |-> r.path]
      BY <2>2, <2>3, <2>6, <3>2
    <3> DEFINE t == handles[s]
               k == kernel'[s]
    <3>4. /\ t \in Tables /\ k \in Kernels /\ Sound(t, k, n) /\ h \in FreeIds(t)
          /\ r \in HandleRecord /\ Number(r) = n
          /\ k[n] = [kind |-> r.state, path |-> r.path]
      BY <2>1, <2>2, <3>1, <3>2, <3>3
    <3>5. handles'[s] = [t EXCEPT ![h] = r]
      BY <2>5
    <3> HIDE DEF t, k
    <3>6. [t EXCEPT ![h] = r] \in Tables /\ Sound([t EXCEPT ![h] = r], k, None)
      BY <3>3, <3>4, AddSound
    <3> QED BY <3>2, <3>5, <3>6 DEF k
  <2>8. TypeOK'
    <3>1. /\ handles' \in [Sessions -> Tables]
          /\ kernel' \in [Sessions -> Kernels]
      BY <2>4, <2>5, <2>7, TypesAre DEF IInv
    <3> QED BY <3>1, <1>2, TypesAre, TypesAfter DEF IInv
  <2>9. FileIds(handles'[s]) = FileIds(handles[s])
        /\ \A g \in FileIds(handles[s]) : handles'[s][g] = handles[s][g]
    BY <2>1, <2>2, <2>5, Here DEF FileIds, FreeIds, Tables
  <2>10. OKAfter(s)
    <3>1. phase'[s] = "run" /\ shown'[s] = shown[s] /\ (s \in reaped' <=> s \in reaped)
      BY <1>2
    <3>2. s \notin reaped => ShownOK(handles[s], shown[s])
      BY <1>2, Here DEF Fine, SessionOK, Steady
    <3>3. ShownOK(handles[s], shown[s]) => ShownOK(handles'[s], shown[s])
      BY <2>9 DEF ShownOK
    <3> QED BY <2>7, <3>1, <3>2, <3>3 DEF OKAfter, SessionOK, Steady, Extra
  <2> QED BY <2>5, <2>8, <2>10, Frame DEF IInv
<1> QED BY <1>3, <1>4

\* DoOpen, up to the rules about the number of files, keeps the invariant.
LEMMA OpenInv ==
  ASSUME IInv, NEW s \in Sessions, DoOpen(s)
  PROVE  IInv'
<1>1. PICK p \in Paths, f \in AccessOf[s] :
        want' = [want EXCEPT ![s] = [path |-> p, flags |-> f]]
  BY DEF DoOpen
<1>2. /\ phase[s] = "run" /\ phase' = [phase EXCEPT ![s] = "check"]
      /\ UNCHANGED <<handles, kernel, shown, at, seen, fresh, reaped>>
  BY DEF DoOpen, Goto
<1>3. [path |-> p, flags |-> f] \in Request
  BY AccessAssumption DEF Request
<1>4. TypeOK'
  BY <1>1, <1>2, <1>3, TypesAre, TypesAfter DEF IInv, Phases, Serving, Steady
<1>5. phase'[s] = "check" /\ want'[s] \in Request /\ \A o \in Sessions \ {s} : Same(o)
  BY <1>1, <1>2, <1>3, TypesAre DEF IInv, Same
<1>6. OKAfter(s)
  BY <1>2, <1>5, Here DEF OKAfter, Fine, SessionOK, Steady, Extra
<1> QED BY <1>4, <1>5, <1>6, Frame DEF IInv

\* Each turn of the loop of CheckRulesAboutMaxFiles keeps the invariant.
LEMMA CheckSlotInv ==
  ASSUME IInv, NEW s \in Sessions, CheckSlot(s)
  PROVE  IInv'
<1>1. phase[s] = "check" /\ UNCHANGED <<handles, kernel, shown, fresh, reaped>>
  BY DEF CheckSlot
<1>2. s \in 1 .. NSessions /\ at[s] \in 1 .. NSessions /\ NSessions \in Nat \ {0}
  BY TypesAre, SessionsAssumption DEF IInv, Sessions
<1>3. CASE MoreSlots(s)
  <2>1. /\ seen' = [seen EXCEPT ![s] = Seen(s, at[s])]
        /\ at' = [at EXCEPT ![s] = @ + 1]
        /\ UNCHANGED <<phase, want>>
    BY <1>3 DEF CheckSlot
  <2>2. at[s] + 1 \in Sessions
    BY <1>2, <1>3 DEF MoreSlots, Sessions
  <2>3. Seen(s, at[s]) \in [get : Nat, put : Nat]
    BY TypesAre DEF IInv, Seen
  <2>4. TypeOK'
    BY <1>1, <2>1, <2>2, <2>3, TypesAre, TypesAfter DEF IInv
  <2>5. OKAfter(s) /\ \A o \in Sessions \ {s} : Same(o)
    BY <1>1, <2>1, Here DEF OKAfter, Fine, Same
  <2> QED BY <2>4, <2>5, Frame DEF IInv
<1>4. CASE ~ MoreSlots(s)
  <2>1. /\ seen' = [seen EXCEPT ![s] = NobodySeen]
        /\ at' = [at EXCEPT ![s] = 1]
        /\ \/ /\ phase' = [phase EXCEPT ![s] = "run"]
              /\ want' = [want EXCEPT ![s] = None]
           \/ phase' = [phase EXCEPT ![s] = "open"] /\ want' = want
    BY <1>4 DEF CheckSlot, Goto
  <2>2. 1 \in Sessions /\ NobodySeen \in [get : Nat, put : Nat]
    BY <1>2 DEF Sessions, NobodySeen
  <2>3. TypeOK'
    BY <1>1, <2>1, <2>2, TypesAre, TypesAfter DEF IInv, Phases, Serving, Steady
  <2>4. \/ phase'[s] = "run"
        \/ phase'[s] = "open" /\ want'[s] = want[s]
    <3>1. phase \in [Sessions -> Phases]
      BY TypesAre DEF IInv
    <3> QED BY <2>1, <3>1
  <2>5. OKAfter(s)
    BY <1>1, <2>4, Here DEF OKAfter, Fine, SessionOK, Steady, Extra
  <2>6. \A o \in Sessions \ {s} : Same(o)
    BY <1>1, <2>1, TypesAre DEF IInv, Same
  <2> QED BY <2>3, <2>5, <2>6, Frame DEF IInv
<1> QED BY <1>3, <1>4

\* open(2) keeps the invariant: the descriptor is known to the request only.
LEMMA OpenFileInv ==
  ASSUME IInv, NEW s \in Sessions, OpenFile(s)
  PROVE  IInv'
<1>1. phase[s] = "open" /\ UNCHANGED <<handles, shown, at, seen, reaped>>
  BY DEF OpenFile
<1>2. CASE /\ phase' = [phase EXCEPT ![s] = "run"]
           /\ want' = [want EXCEPT ![s] = None]
           /\ UNCHANGED <<kernel, fresh>>
  <2>1. TypeOK'
    BY <1>1, <1>2, TypesAre, TypesAfter DEF IInv, Phases, Serving, Steady
  <2>2. phase'[s] = "run" /\ \A i \in Sessions \ {s} : Same(i)
    BY <1>1, <1>2, TypesAre DEF IInv, Same
  <2>3. OKAfter(s)
    BY <1>1, <1>2, <2>2, Here DEF OKAfter, Fine, SessionOK, Steady, Extra
  <2> QED BY <2>1, <2>2, <2>3, Frame DEF IInv
<1>3. ASSUME NEW n \in FreeNums(s),
             kernel' = [kernel EXCEPT ![s][n] = [kind |-> "FILE", path |-> want[s].path]],
             fresh' = [fresh EXCEPT ![s] = n],
             phase' = [phase EXCEPT ![s] = "opened"],
             want' = want
      PROVE  IInv'
  <2> DEFINE o == [kind |-> "FILE", path |-> want[s].path]
  <2>1. n \in Nums /\ kernel[s][n] = None
    BY DEF FreeNums
  <2>2. want[s] \in Request
    BY <1>1, Here DEF Fine, SessionOK
  <2>3. o \in Objects
    BY <2>2 DEF Objects, Request
  <2>4. /\ kernel'[s] = [kernel[s] EXCEPT ![n] = o]
        /\ phase'[s] = "opened" /\ fresh'[s] = n
        /\ \A i \in Sessions \ {s} : Same(i)
    BY <1>1, <1>3, TypesAre DEF IInv, Same
  <2>5. o = [kind |-> "FILE", path |-> want'[s].path]
    BY <1>3
  <2> HIDE DEF o
  <2>6. Sound(handles[s], kernel[s], None) /\ handles[s] \in Tables /\ kernel[s] \in Kernels
    BY <1>1, Here
  <2>7. /\ kernel'[s] \in Kernels /\ kernel'[s][n] = o
        /\ Sound(handles[s], kernel'[s], n)
    BY <2>1, <2>3, <2>4, <2>6, OpenSound
  <2>8. TypeOK'
    <3>1. kernel' \in [Sessions -> Kernels]
      BY <1>3, <2>4, <2>7, TypesAre DEF IInv
    <3> QED BY <3>1, <2>1, <1>1, <1>3, TypesAre, TypesAfter DEF IInv, Phases, Serving, Steady
  <2>9. OKAfter(s)
    BY <1>1, <1>3, <2>1, <2>2, <2>4, <2>5, <2>7, Here
    DEF OKAfter, Fine, SessionOK, Steady, Extra
  <2> QED BY <2>4, <2>8, <2>9, Frame DEF IInv
<1>4. \/ /\ phase' = [phase EXCEPT ![s] = "run"]
         /\ want' = [want EXCEPT ![s] = None]
         /\ UNCHANGED <<kernel, fresh>>
      \/ \E n \in FreeNums(s) :
           /\ kernel' = [kernel EXCEPT ![s][n] = [kind |-> "FILE", path |-> want[s].path]]
           /\ fresh' = [fresh EXCEPT ![s] = n]
           /\ phase' = [phase EXCEPT ![s] = "opened"]
           /\ want' = want
  BY DEF OpenFile, OpenAs, Goto
<1> QED BY <1>2, <1>3, <1>4

\* xclose and HandleNew keep the invariant: with no free entry the
\* descriptor is closed, else a handle has it.
LEMMA NewFileInv ==
  ASSUME IInv, NEW s \in Sessions, NewFile(s)
  PROVE  IInv'
<1> DEFINE n == fresh[s]
           r == [state |-> "FILE", path |-> want[s].path, dir |-> None,
                 fd |-> n, flags |-> want[s].flags, pos |-> 0]
<1>1. /\ phase[s] = "opened" /\ want' = [want EXCEPT ![s] = None]
      /\ UNCHANGED <<shown, at, seen, reaped>>
      /\ TableFull(s) \/ HandleNewFile(s)
  BY DEF NewFile
<1>2. /\ n \in Nums /\ kernel[s][n] = [kind |-> "FILE", path |-> want[s].path]
      /\ Sound(handles[s], kernel[s], n) /\ want[s] \in Request
      /\ handles[s] \in Tables /\ kernel[s] \in Kernels
      /\ s \notin reaped => ShownOK(handles[s], shown[s])
  BY <1>1, Here DEF Fine, SessionOK, Steady, Extra
<1>3. CASE TableFull(s)
  <2>1. /\ kernel' = [kernel EXCEPT ![s][n] = None]
        /\ fresh' = [fresh EXCEPT ![s] = None]
        /\ phase' = [phase EXCEPT ![s] = "run"]
        /\ handles' = handles
    BY <1>3 DEF TableFull, Goto
  <2>2. /\ kernel'[s] = [kernel[s] EXCEPT ![n] = None] /\ phase'[s] = "run"
        /\ \A i \in Sessions \ {s} : Same(i)
    BY <1>1, <2>1, TypesAre DEF IInv, Same
  <2>3. kernel'[s] \in Kernels /\ Sound(handles[s], kernel'[s], None)
    BY <1>2, <2>2, DropSound
  <2>4. TypeOK'
    <3>1. kernel' \in [Sessions -> Kernels]
      BY <2>1, <2>2, <2>3, TypesAre DEF IInv
    <3> QED BY <3>1, <1>1, <2>1, TypesAre, TypesAfter DEF IInv, Phases, Serving, Steady
  <2>5. OKAfter(s)
    BY <1>1, <1>2, <2>1, <2>2, <2>3 DEF OKAfter, SessionOK, Steady, Extra
  <2> QED BY <2>2, <2>4, <2>5, Frame DEF IInv
<1>4. CASE HandleNewFile(s)
  <2> DEFINE h == FirstFree(handles[s])
  <2>1. /\ FreeIds(handles[s]) # {}
        /\ handles' = [handles EXCEPT ![s][h] = r]
        /\ phase' = [phase EXCEPT ![s] = "publish"]
        /\ UNCHANGED <<kernel, fresh>>
    BY <1>4 DEF HandleNewFile, Goto
  <2>2. h \in FreeIds(handles[s]) /\ h \in Ids /\ handles[s][h].state = "UNUSED"
    BY <2>1, FirstFreeIs DEF FreeIds
  <2>3. r \in HandleRecord /\ r.state = "FILE" /\ Number(r) = n /\ r.fd = n
        /\ r.path \in Paths /\ kernel[s][n] = [kind |-> r.state, path |-> r.path]
    <3>1. want[s].path \in Paths /\ want[s].flags \in Access
      BY <1>2 DEF Request
    <3>2. r \in HandleRecord
      BY <3>1, <1>2, PositionsAssumption DEF HandleRecord
    <3> QED BY <3>1, <3>2, <1>2 DEF Number
  <2> HIDE DEF h, r
  <2>4. /\ handles'[s] = [handles[s] EXCEPT ![h] = r]
        /\ kernel'[s] = kernel[s] /\ phase'[s] = "publish" /\ fresh'[s] = n
        /\ \A i \in Sessions \ {s} : Same(i)
    BY <1>1, <2>1, TypesAre DEF IInv, Same
  <2>5. handles'[s] \in Tables /\ Sound(handles'[s], kernel'[s], None)
    BY <1>2, <2>2, <2>3, <2>4, AddSound
  <2>6. TypeOK'
    <3>1. handles' \in [Sessions -> Tables]
      BY <2>1, <2>4, <2>5, TypesAre DEF IInv
    <3> QED BY <3>1, <1>1, <2>1, TypesAre, TypesAfter DEF IInv, Phases, Serving, Steady
  <2>7. s \notin reaped =>
          /\ shown[s].st # "EMPTY"
          /\ shown[s].st = "IDLE" => \A g \in FileIds(handles'[s]) : handles'[s][g].fd = n
    <3>1. SUFFICES ASSUME s \notin reaped
                   PROVE  /\ shown[s].st # "EMPTY"
                          /\ shown[s].st = "IDLE" => FileIds(handles[s]) = {}
      <4>1. \A g \in FileIds(handles'[s]) : g = h \/ g \in FileIds(handles[s])
        BY <2>4, <1>2 DEF FileIds, Tables
      <4>2. handles'[s][h].fd = n
        BY <2>2, <2>3, <2>4, <1>2 DEF Tables
      <4> QED BY <4>1, <4>2
    <3>2. ShownOK(handles[s], shown[s])
      BY <3>1, <1>2
    <3>3. CASE FileIds(handles[s]) = {}
      BY <3>2, <3>3 DEF ShownOK
    <3>4. CASE FileIds(handles[s]) # {}
      BY <3>2, <3>4 DEF ShownOK
    <3> QED BY <3>3, <3>4
  <2>8. OKAfter(s)
    BY <1>1, <2>4, <2>5, <2>7 DEF OKAfter, SessionOK, Steady, Extra
  <2> QED BY <2>4, <2>6, <2>8, Frame DEF IInv
<1> QED BY <1>1, <1>3, <1>4

\* UpdateInfoForOpenFiles after a change of the table keeps the invariant.
LEMMA PublishInv ==
  ASSUME IInv, NEW s \in Sessions, Publish(s)
  PROVE  IInv'
<1>1. /\ phase[s] = "publish" /\ phase' = [phase EXCEPT ![s] = "run"]
      /\ shown' = [shown EXCEPT ![s] = Published(handles[s], @)]
      /\ fresh' = [fresh EXCEPT ![s] = None]
      /\ UNCHANGED <<handles, kernel, want, at, seen, reaped>>
  BY DEF Publish, UpdateInfoForOpenFiles, Goto
<1>2. Sound(handles[s], kernel[s], None) /\ handles[s] \in Tables /\ shown[s] \in SlotRecord
  BY <1>1, Here
<1>3. /\ phase'[s] = "run" /\ shown'[s] = Published(handles[s], shown[s])
      /\ \A o \in Sessions \ {s} : Same(o)
  BY <1>1, TypesAre DEF IInv, Same
<1>4. shown'[s] \in SlotRecord /\ ShownOK(handles[s], shown'[s])
  BY <1>2, <1>3, PublishedOK
<1>5. TypeOK'
  <2>1. shown' \in [Sessions -> SlotRecord]
    BY <1>1, <1>3, <1>4, TypesAre DEF IInv
  <2> QED BY <2>1, <1>1, TypesAre, TypesAfter DEF IInv, Phases, Serving, Steady
<1>6. OKAfter(s)
  BY <1>1, <1>2, <1>3, <1>4 DEF OKAfter, SessionOK, Steady, Extra
<1> QED BY <1>3, <1>5, <1>6, Frame DEF IInv

\* DoRead and DoWrite keep the invariant: the new position is published.
LEMMA MoveInv ==
  ASSUME IInv, NEW s \in Sessions, NEW h \in Ids, NEW n \in Positions,
         phase[s] = "run", MoveTo(s, h, n)
  PROVE  IInv'
<1>1. /\ handles' = [handles EXCEPT ![s][h].pos = n]
      /\ shown' = [shown EXCEPT ![s] = Published(handles'[s], @)]
      /\ UNCHANGED <<kernel, phase, want, at, seen, fresh, reaped>>
  BY DEF MoveTo, UpdateInfoForOpenFiles
<1>2. /\ handles'[s] = [handles[s] EXCEPT ![h].pos = n]
      /\ shown'[s] = Published(handles'[s], shown[s])
      /\ \A o \in Sessions \ {s} : Same(o)
  BY <1>1, TypesAre DEF IInv, Same
<1>3. Sound(handles[s], kernel[s], None) /\ handles[s] \in Tables /\ kernel[s] \in Kernels
  BY Here
<1>4. handles'[s] \in Tables /\ Sound(handles'[s], kernel[s], None)
  BY <1>2, <1>3, MoveSound
<1>5. shown'[s] \in SlotRecord /\ ShownOK(handles'[s], shown'[s])
  BY <1>2, <1>3, <1>4, Here, PublishedOK
<1>6. TypeOK'
  <2>1. handles' \in [Sessions -> Tables] /\ shown' \in [Sessions -> SlotRecord]
    BY <1>1, <1>2, <1>4, <1>5, TypesAre DEF IInv
  <2> QED BY <2>1, <1>1, TypesAre, TypesAfter DEF IInv
<1>7. OKAfter(s)
  BY <1>1, <1>4, <1>5 DEF OKAfter, SessionOK, Extra
<1> QED BY <1>2, <1>6, <1>7, Frame DEF IInv

\* What a HandleClose does to the session that makes it.
LEMMA CloseStep ==
  ASSUME IInv, NEW s \in Sessions, NEW h \in Ids,
         phase[s] \notin {"killed", "opened"}, HandleClose(s, h)
  PROVE  /\ handles' \in [Sessions -> Tables] /\ kernel' \in [Sessions -> Kernels]
         /\ \A o \in Sessions \ {s} : handles'[o] = handles[o] /\ kernel'[o] = kernel[o]
         /\ Sound(handles'[s], kernel'[s], None)
         /\ FileIds(handles'[s]) = FileIds(handles[s]) \ {h}
         /\ handles'[s][h].state = "UNUSED"
         /\ \A g \in Ids \ {h} : handles'[s][g] = handles[s][g]
<1> DEFINE t == handles[s]
           u == [t EXCEPT ![h] = Cleared(@)]
           l == [n \in Nums |-> IF n \in Closed(t[h]) THEN None ELSE kernel[s][n]]
<1>1. handles' = [handles EXCEPT ![s] = u] /\ kernel' = [kernel EXCEPT ![s] = l]
  BY DEF HandleClose
<1>2. t \in Tables /\ kernel[s] \in Kernels /\ Sound(t, kernel[s], None)
  BY Here
<1>3. u \in Tables /\ l \in Kernels /\ Sound(u, l, None) /\ FileIds(u) = FileIds(t) \ {h}
  BY <1>2, CloseSound
<1>4. u[h].state = "UNUSED" /\ \A g \in Ids \ {h} : u[g] = t[g]
  BY <1>2 DEF Cleared, Tables, Unused
<1> HIDE DEF u, l
<1> QED BY <1>1, <1>3, <1>4, TypesAre DEF IInv

\* DoClose keeps the invariant: after a file, what is left is to be published.
LEMMA CloseInv ==
  ASSUME IInv, NEW s \in Sessions, NEW b \in Bytes, DoClose(s, b)
  PROVE  IInv'
<1> DEFINE h == HandleOf(b)
<1>1. /\ h \in Ids /\ phase[s] = "run" /\ HandleClose(s, h)
      /\ UNCHANGED <<shown, want, at, seen, fresh, reaped>>
      /\ IF handles[s][h].state = "FILE"
         THEN phase' = [phase EXCEPT ![s] = "publish"]
         ELSE phase' = phase
  BY DEF DoClose, InState, Goto
<1> HIDE DEF h
<1>2. /\ handles' \in [Sessions -> Tables] /\ kernel' \in [Sessions -> Kernels]
      /\ \A o \in Sessions \ {s} : handles'[o] = handles[o] /\ kernel'[o] = kernel[o]
      /\ Sound(handles'[s], kernel'[s], None)
      /\ FileIds(handles'[s]) = FileIds(handles[s]) \ {h}
      /\ \A g \in Ids \ {h} : handles'[s][g] = handles[s][g]
  BY <1>1, CloseStep
<1>3. TypeOK'
  BY <1>1, <1>2, TypesAre, TypesAfter DEF IInv, Phases, Serving, Steady
<1>4. \A o \in Sessions \ {s} : Same(o)
  BY <1>1, <1>2, TypesAre DEF IInv, Same
<1>5. s \notin reaped => ShownOK(handles[s], shown[s])
  BY <1>1, Here DEF Fine, SessionOK, Steady
<1>6. OKAfter(s)
  <2>1. CASE handles[s][h].state = "FILE"
    <3>1. phase'[s] = "publish"
      BY <1>1, <2>1, TypesAre DEF IInv
    <3>2. FileIds(handles[s]) # {}
      BY <1>1, <2>1 DEF FileIds
    <3>3. s \notin reaped => shown[s].st \notin {"EMPTY", "IDLE"}
      BY <3>2, <1>5 DEF ShownOK
    <3> QED BY <1>1, <1>2, <3>1, <3>3 DEF OKAfter, SessionOK, Steady, Extra
  <2>2. CASE handles[s][h].state # "FILE"
    <3>1. phase'[s] = "run"
      BY <1>1, <2>2
    <3>2. FileIds(handles'[s]) = FileIds(handles[s])
          /\ \A g \in FileIds(handles[s]) : handles'[s][g] = handles[s][g]
      BY <1>2, <2>2 DEF FileIds
    <3>3. s \notin reaped => ShownOK(handles'[s], shown[s])
      BY <3>2, <1>5 DEF ShownOK
    <3> QED BY <1>1, <1>2, <3>1, <3>3 DEF OKAfter, SessionOK, Steady, Extra
  <2> QED BY <2>1, <2>2
<1> QED BY <1>3, <1>4, <1>6, Frame DEF IInv

\* The beginning of end_sftp: the slot still tells of the last file.
LEMMA QuitInv ==
  ASSUME IInv, NEW s \in Sessions, Quit(s)
  PROVE  IInv'
<1>1. /\ phase[s] = "run" /\ phase' = [phase EXCEPT ![s] = "closing"]
      /\ UNCHANGED <<handles, kernel, shown, want, at, seen, fresh, reaped>>
  BY DEF Quit, Goto
<1>2. TypeOK'
  BY <1>1, TypesAre, TypesAfter DEF IInv, Phases
<1>3. phase'[s] = "closing" /\ \A o \in Sessions \ {s} : Same(o)
  BY <1>1, TypesAre DEF IInv, Same
<1>4. ASSUME s \notin reaped
      PROVE  shown[s].st # "EMPTY" /\ (shown[s].st = "IDLE" => FileIds(handles[s]) = {})
  <2>1. ShownOK(handles[s], shown[s])
    BY <1>1, <1>4, Here DEF Fine, SessionOK, Steady
  <2>2. CASE FileIds(handles[s]) = {}
    BY <2>1, <2>2 DEF ShownOK
  <2>3. CASE FileIds(handles[s]) # {}
    BY <2>1, <2>3 DEF ShownOK
  <2> QED BY <2>2, <2>3
<1>5. OKAfter(s)
  BY <1>1, <1>3, <1>4, Here DEF OKAfter, Fine, SessionOK, Steady, Extra
<1> QED BY <1>2, <1>3, <1>5, Frame DEF IInv

\* A turn of CloseInfoForOpenFiles keeps the invariant.
LEMMA CloseLastInv ==
  ASSUME IInv, NEW s \in Sessions, CloseLastFile(s)
  PROVE  IInv'
<1> DEFINE h == LastFile(handles[s])
<1>1. /\ phase[s] = "closing" /\ HandleClose(s, h)
      /\ UNCHANGED <<shown, phase, want, at, seen, fresh, reaped>>
  BY DEF CloseLastFile
<1>2. h \in Ids
  BY LastFileIs DEF CloseLastFile, FileIds
<1> HIDE DEF h
<1>3. /\ handles' \in [Sessions -> Tables] /\ kernel' \in [Sessions -> Kernels]
      /\ \A o \in Sessions \ {s} : handles'[o] = handles[o] /\ kernel'[o] = kernel[o]
      /\ Sound(handles'[s], kernel'[s], None)
      /\ FileIds(handles'[s]) = FileIds(handles[s]) \ {h}
  BY <1>1, <1>2, CloseStep
<1>4. TypeOK'
  BY <1>1, <1>3, TypesAre, TypesAfter DEF IInv
<1>5. OKAfter(s)
  BY <1>1, <1>3, Here DEF OKAfter, Fine, SessionOK, Steady, Extra
<1>6. \A o \in Sessions \ {s} : Same(o)
  BY <1>1, <1>3 DEF Same
<1> QED BY <1>4, <1>5, <1>6, Frame DEF IInv

\* The slot is given back when no file is open.
LEMMA ReleaseInv ==
  ASSUME IInv, NEW s \in Sessions, Release(s)
  PROVE  IInv'
<1>1. /\ phase[s] = "closing" /\ FileIds(handles[s]) = {}
      /\ shown' = [shown EXCEPT ![s].st = "EMPTY"]
      /\ phase' = [phase EXCEPT ![s] = "released"]
      /\ UNCHANGED <<handles, kernel, want, at, seen, fresh, reaped>>
  BY DEF Release, Goto
<1>2. [shown[s] EXCEPT !.st = "EMPTY"] \in SlotRecord
  BY Here DEF SlotRecord
<1>3. TypeOK'
  BY <1>1, <1>2, TypesAre, TypesAfter DEF IInv, Phases
<1>4. phase'[s] = "released" /\ \A o \in Sessions \ {s} : Same(o)
  BY <1>1, TypesAre DEF IInv, Same
<1>5. OKAfter(s)
  BY <1>1, <1>4, Here DEF OKAfter, Fine, SessionOK, Steady, Extra
<1> QED BY <1>3, <1>4, <1>5, Frame DEF IInv

\* A turn of HandleCloseAll keeps the invariant.
LEMMA CloseNextInv ==
  ASSUME IInv, NEW s \in Sessions, CloseNext(s)
  PROVE  IInv'
<1> DEFINE used == Ids \ FreeIds(handles[s])
           h == CHOOSE i \in used : \A g \in used : i <= g
<1>1. /\ phase[s] = "released" /\ UNCHANGED <<shown, want, at, seen, fresh, reaped>>
      /\ IF used # {}
         THEN HandleClose(s, h) /\ UNCHANGED phase
         ELSE phase' = [phase EXCEPT ![s] = "exited"] /\ UNCHANGED <<handles, kernel>>
  BY DEF CloseNext, Goto
<1>2. CASE used # {}
  <2>1. h \in Ids
    <3>1. \E i \in used : \A g \in used : i <= g
      BY <1>2, IdsAreNat, LeastNat
    <3> QED BY <3>1
  <2>2. HandleClose(s, h) /\ UNCHANGED phase
    BY <1>1, <1>2
  <2> HIDE DEF h
  <2>3. /\ handles' \in [Sessions -> Tables] /\ kernel' \in [Sessions -> Kernels]
        /\ \A o \in Sessions \ {s} : handles'[o] = handles[o] /\ kernel'[o] = kernel[o]
        /\ Sound(handles'[s], kernel'[s], None)
        /\ FileIds(handles'[s]) = FileIds(handles[s]) \ {h}
    BY <1>1, <2>1, <2>2, CloseStep
  <2>4. TypeOK'
    BY <1>1, <2>2, <2>3, TypesAre, TypesAfter DEF IInv
  <2>5. OKAfter(s)
    BY <1>1, <2>2, <2>3, Here DEF OKAfter, Fine, SessionOK, Steady, Extra
  <2>6. \A o \in Sessions \ {s} : Same(o)
    BY <1>1, <2>2, <2>3 DEF Same
  <2> QED BY <2>4, <2>5, <2>6, Frame DEF IInv
<1>3. CASE used = {}
  <2>1. phase' = [phase EXCEPT ![s] = "exited"] /\ UNCHANGED <<handles, kernel>>
    BY <1>1, <1>3
  <2>2. TypeOK'
    BY <1>1, <2>1, TypesAre, TypesAfter DEF IInv, Phases
  <2>3. phase'[s] = "exited" /\ \A o \in Sessions \ {s} : Same(o)
    BY <1>1, <2>1, TypesAre DEF IInv, Same
  <2>4. OKAfter(s)
    BY <1>1, <2>1, <2>3, Here DEF OKAfter, Fine, SessionOK, Steady, Extra
  <2> QED BY <2>2, <2>3, <2>4, Frame DEF IInv
<1> QED BY <1>2, <1>3

\* A process that is killed leaves nothing open.
LEMMA CrashInv ==
  ASSUME IInv, NEW s \in Sessions, Crash(s)
  PROVE  IInv'
<1>1. /\ phase' = [phase EXCEPT ![s] = "killed"]
      /\ kernel' = [kernel EXCEPT ![s] = [n \in Nums |-> None]]
      /\ want' = [want EXCEPT ![s] = None]
      /\ at' = [at EXCEPT ![s] = 1]
      /\ seen' = [seen EXCEPT ![s] = NobodySeen]
      /\ handles' = [handles EXCEPT ![s] = [h \in Ids |-> Unused]]
      /\ fresh' = [fresh EXCEPT ![s] = None]
      /\ UNCHANGED <<shown, reaped>>
  BY DEF Crash, Goto
<1>2. /\ 1 \in Sessions /\ NobodySeen \in [get : Nat, put : Nat]
      /\ [n \in Nums |-> None] \in Kernels
      /\ [h \in Ids |-> Unused] \in Tables
  BY UnusedIs, SessionsAssumption DEF Sessions, NobodySeen, Kernels, Tables
<1>3. TypeOK'
  BY <1>1, <1>2, TypesAre, TypesAfter DEF IInv, Phases
<1>4. /\ phase'[s] = "killed" /\ kernel'[s] = [n \in Nums |-> None]
      /\ \A o \in Sessions \ {s} : Same(o)
  BY <1>1, TypesAre DEF IInv, Same
<1>5. OKAfter(s)
  BY <1>4 DEF OKAfter, Fine, SessionOK, Steady, Extra
<1> QED BY <1>3, <1>4, <1>5, Frame DEF IInv

\* The cleaning of a slot keeps the invariant: of a session that was taken
\* for dead nothing is said of what it shows.
LEMMA ReapedInv ==
  ASSUME IInv, NEW s \in Sessions, Reaped(s)
  PROVE  IInv'
<1>1. /\ shown' = [shown EXCEPT ![s].st = "EMPTY"]
      /\ reaped' = IF phase[s] = "killed" THEN reaped ELSE reaped \cup {s}
      /\ UNCHANGED <<handles, kernel, phase, want, at, seen, fresh>>
  BY DEF Reaped
<1>2. [shown[s] EXCEPT !.st = "EMPTY"] \in SlotRecord
  BY Here DEF SlotRecord
<1>3. TypeOK'
  BY <1>1, <1>2, TypesAre, TypesAfter DEF IInv
<1>4. \A o \in Sessions \ {s} : Same(o)
  BY <1>1, TypesAre DEF IInv, Same
<1>5. OKAfter(s)
  <2>1. CASE phase[s] = "killed"
    BY <1>1, <2>1, Here DEF OKAfter, Fine, SessionOK, Steady, Extra
  <2>2. CASE phase[s] # "killed"
    <3>1. s \in reaped'
      BY <1>1, <2>2
    <3> QED BY <1>1, <2>2, <3>1, Here DEF OKAfter, Fine, SessionOK
  <2> QED BY <2>1, <2>2
<1> QED BY <1>3, <1>4, <1>5, Frame DEF IInv

\* Every step keeps the invariant.
LEMMA NextInv ==
  ASSUME IInv, [Next]_vars
  PROVE  IInv'
<1>1. CASE UNCHANGED vars
  BY <1>1 DEF vars, IInv, TypeOK, TableInv, Fine
<1>2. CASE Next
  <2>1. PICK s \in Sessions :
          \/ DoOpenDir(s) \/ DoOpen(s) \/ CheckSlot(s)
          \/ OpenFile(s) \/ NewFile(s) \/ Publish(s)
          \/ \E b \in Bytes : DoRead(s, b) \/ DoWrite(s, b) \/ DoClose(s, b)
          \/ Quit(s) \/ CloseLastFile(s) \/ Release(s) \/ CloseNext(s)
          \/ Crash(s) \/ Reaped(s)
    BY <1>2 DEF Next, OpenStep, ExitStep
  <2>2. ASSUME NEW b \in Bytes, DoRead(s, b) \/ DoWrite(s, b)
        PROVE  IInv'
    <3>1. phase[s] = "run" /\ HandleOf(b) \in Ids
      BY <2>2 DEF DoRead, DoWrite, InState
    <3>2. \E n \in Positions : MoveTo(s, HandleOf(b), n)
      BY <2>2, PositionsAssumption DEF DoRead, DoWrite
    <3> QED BY <3>1, <3>2, MoveInv
  <2> QED
    BY <2>1, <2>2, OpenDirInv, OpenInv, CheckSlotInv, OpenFileInv, NewFileInv,
       PublishInv, CloseInv,
       QuitInv, CloseLastInv, ReleaseInv, CloseNextInv, CrashInv, ReapedInv
<1> QED BY <1>1, <1>2

\* The invariant always holds.
LEMMA AlwaysInv == Spec => []IInv
<1>1. Init => IInv
  BY InitInv
<1>2. IInv /\ [Next]_vars => IInv'
  BY NextInv
<1> QED BY <1>1, <1>2, PTL DEF Spec

-----------------------------------------------------------------------------
(* The theorems.                                                           *)

\* Every variable keeps its type: the handles of a session are records with
\* descriptors of the process or none, positions and requests are legal.
THEOREM HandleTypes == Spec => []TypeOK
<1>1. IInv => TypeOK
  BY DEF IInv
<1> QED BY <1>1, AlwaysInv, PTL

\* No descriptor is lost, shared or closed under a handle that still uses it
\* (HandleNew, HandleClose, DoOpen, DoOpenDir, DoClose, end_sftp): but for the
\* one between open() and HandleNew, each has its handle.
THEOREM NoLeak == Spec => []NothingLeaked
<1>1. IInv => NothingLeaked
  <2>1. SUFFICES ASSUME IInv, NEW s \in Sessions, Alive(s)
                 PROVE  /\ \A n \in Nums : kernel[s][n] # None =>
                             Unnamed(s, n) \/ \E h \in Used(s) : Number(handles[s][h]) = n
                        /\ \A h \in Used(s) :
                             /\ Number(handles[s][h]) \in Nums
                             /\ ~ Unnamed(s, Number(handles[s][h]))
                             /\ kernel[s][Number(handles[s][h])] =
                                  [kind |-> handles[s][h].state, path |-> handles[s][h].path]
                        /\ \A g, h \in Used(s) :
                             Number(handles[s][g]) = Number(handles[s][h]) => g = h
    BY DEF NothingLeaked
  <2> DEFINE e == Extra(phase[s], fresh[s])
  <2>2. Sound(handles[s], kernel[s], e)
    BY <2>1, Here DEF Fine, SessionOK, Alive
  <2>3. \A h : h \in Used(s) <=> h \in Ids /\ handles[s][h].state # "UNUSED"
    BY DEF Used
  <2>4. \A n \in Nums : Unnamed(s, n) <=> n = e
    BY NoneAssumption DEF Unnamed, Extra
  <2> HIDE DEF e
  <2> QED BY <2>2, <2>3, <2>4 DEF Sound
<1> QED BY <1>1, AlwaysInv, PTL

\* Between two changes of the table, the slot of a session that serves requests
\* and was not taken for dead tells of its last open file
\* (UpdateInfoForOpenFiles and every place that calls it).
THEOREM SlotTellsTheTruth == Spec => []ShownIsLast
<1>1. IInv => ShownIsLast
  <2>1. SUFFICES ASSUME IInv PROVE ShownIsLast
    OBVIOUS
  <2>2. \A s \in Sessions \ reaped : phase[s] \in Steady => ShownOK(handles[s], shown[s])
    BY <2>1, Here DEF Fine, SessionOK
  <2>3. ASSUME NEW s \in Sessions \ reaped, phase[s] \in Steady,
               FileIds(handles[s]) = {}
        PROVE  shown[s].st = "IDLE" /\ shown[s].file = None
    BY <2>2, <2>3 DEF ShownOK
  <2>4. ASSUME NEW s \in Sessions \ reaped, phase[s] \in Steady,
               FileIds(handles[s]) # {}
        PROVE  \E f \in FileIds(handles[s]) :
                 /\ \A g \in FileIds(handles[s]) : g <= f
                 /\ shown[s].file = handles[s][f].path
                 /\ shown[s].pos = handles[s][f].pos
                 /\ shown[s].st = "PUT" <=> handles[s][f].flags = "WRONLY"
                 /\ shown[s].st = "GET" <=> handles[s][f].flags # "WRONLY"
    BY <2>2, <2>4 DEF ShownOK
  <2> QED BY <2>3, <2>4 DEF ShownIsLast
<1> QED BY <1>1, AlwaysInv, PTL

\* A session that the table shows as idle or not at all has no file open but the
\* one its DoOpen is about to publish, if its slot was not emptied while it
\* lived (DoOpen, and end_sftp, which closes the files before it gives the slot
\* back).
THEOREM UnseenOnlyOpening == Spec => []UnseenIsOpening
<1>1. IInv => UnseenIsOpening
  <2>1. SUFFICES ASSUME IInv, NEW s \in Sessions \ reaped,
                        shown[s].st \in {"EMPTY", "IDLE"},
                        NEW n \in Nums, kernel[s][n] # None, n # fresh[s]
                 PROVE  kernel[s][n].kind = "DIR"
    BY DEF UnseenIsOpening
  <2>2. Fine(s) /\ phase[s] \in Phases
    BY <2>1, Here
  <2>3. phase[s] # "killed" /\ Sound(handles[s], kernel[s], Extra(phase[s], fresh[s]))
    BY <2>1, <2>2 DEF Fine, SessionOK
  <2>4. PICK h \in Ids : /\ handles[s][h].state # "UNUSED"
                         /\ Number(handles[s][h]) = n
    BY <2>1, <2>3, NoneAssumption DEF Sound, Extra
  <2>5. kernel[s][n].kind = handles[s][h].state
    <3>1. kernel[s][Number(handles[s][h])] =
            [kind |-> handles[s][h].state, path |-> handles[s][h].path]
      BY <2>3, <2>4 DEF Sound
    <3> QED BY <3>1, <2>4
  <2>6. handles[s][h].state \in {"UNUSED", "DIR", "FILE"}
    BY <2>1, Here DEF Tables, HandleRecord
  <2>7. handles[s][h].state # "FILE"
    <3>1. CASE phase[s] \in Steady
      <4>1. ShownOK(handles[s], shown[s])
        BY <2>1, <2>2, <3>1 DEF Fine, SessionOK
      <4>2. FileIds(handles[s]) = {}
        BY <2>1, <4>1 DEF ShownOK
      <4> QED BY <4>2 DEF FileIds
    <3>2. CASE phase[s] = "publish"
      <4>1. \A g \in FileIds(handles[s]) : handles[s][g].fd = fresh[s]
        BY <2>1, <2>2, <3>2 DEF Fine, SessionOK
      <4> QED BY <2>1, <2>4, <4>1 DEF FileIds, Number
    <3>3. CASE phase[s] \in {"closing", "released", "exited"}
      <4>1. FileIds(handles[s]) = {}
        BY <2>1, <2>2, <3>3 DEF Fine, SessionOK
      <4> QED BY <4>1 DEF FileIds
    <3> QED BY <2>2, <2>3, <3>1, <3>2, <3>3 DEF Phases, Serving
  <2> QED BY <2>4, <2>5, <2>6, <2>7
<1> QED BY <1>1, AlwaysInv, PTL

-----------------------------------------------------------------------------
(* HandleTable implements OpenObjects.                                     *)

Obj(r) ==
  IF r.state = "UNUSED" THEN None ELSE [kind |-> r.state, path |-> r.path]

Desig(t, k, ph, b) ==
  IF ph # "killed" /\ t[HandleOf(b)].state # "UNUSED"
  THEN k[Number(t[HandleOf(b)])] ELSE None

Named == [s \in Sessions |-> [b \in Bytes |-> Designated(s, b)]]
Ending == {s \in Sessions : phase[s] \notin Serving}

\* The byte of a handle leads back to it: 100 handles fit in a byte.
LEMMA ByteOf ==
  /\ \A h \in Ids : HandleByte(h) \in Bytes /\ HandleOf(HandleByte(h)) = h
  /\ \A b \in Bytes : HandleOf(b) \in Ids /\ HandleByte(HandleOf(b)) = b
<1>1. ASSUME NEW h \in Ids PROVE HandleByte(h) = h + 48 /\ h \in Int
  BY IdsAreNat DEF Ids, HandleByte
<1>2. ASSUME NEW h \in Ids PROVE HandleByte(h) \in Bytes /\ HandleOf(HandleByte(h)) = h
  BY <1>1 DEF Bytes, HandleOf
<1>3. ASSUME NEW b \in Bytes PROVE HandleOf(b) \in Ids /\ HandleByte(HandleOf(b)) = b
  BY <1>2 DEF Bytes
<1> QED BY <1>2, <1>3

\* In a sound table a handle designates what its entry says.
LEMMA DesigIs ==
  ASSUME NEW t, NEW k, NEW ph, NEW e, Sound(t, k, e), ph # "killed", NEW b \in Bytes
  PROVE  Desig(t, k, ph, b) = Obj(t[HandleOf(b)])
BY ByteOf DEF Desig, Obj, Sound

\* What the handles stand for before and after a step of a session that is
\* not killed, in terms of its table.
LEMMA NamedStep ==
  ASSUME IInv, IInv', NEW s \in Sessions, phase[s] # "killed", phase'[s] # "killed",
         \A o \in Sessions \ {s} : Same(o)
  PROVE  /\ \A b \in Bytes : Named[s][b] = Obj(handles[s][HandleOf(b)])
         /\ Named' = [Named EXCEPT ![s] = [b \in Bytes |-> Obj(handles'[s][HandleOf(b)])]]
<1>1. PICK e : Sound(handles[s], kernel[s], e)
  BY Here DEF Fine, SessionOK
<1>2. PICK e2 : Sound(handles'[s], kernel'[s], e2)
  BY DEF IInv, TableInv, Fine, SessionOK
<1>3. \A o \in Sessions, b \in Bytes :
        Designated(o, b) = Desig(handles[o], kernel[o], phase[o], b)
  BY DEF Designated, Desig, Alive
<1>4. \A o \in Sessions, b \in Bytes :
        Designated(o, b)' = Desig(handles'[o], kernel'[o], phase'[o], b)
  BY DEF Designated, Desig, Alive
<1>5. \A b \in Bytes : Designated(s, b) = Obj(handles[s][HandleOf(b)])
  BY <1>1, <1>3, DesigIs
<1>6. \A b \in Bytes : Designated(s, b)' = Obj(handles'[s][HandleOf(b)])
  BY <1>2, <1>4, DesigIs
<1>7. \A o \in Sessions \ {s}, b \in Bytes : Designated(o, b)' = Designated(o, b)
  BY <1>3, <1>4 DEF Same
<1>8. Named' = [o \in Sessions |-> [b \in Bytes |-> Designated(o, b)']]
  BY DEF Named
<1> QED BY <1>5, <1>6, <1>7, <1>8 DEF Named

\* The sessions that are ending are others only if this one changes side.
LEMMA EndingStep ==
  ASSUME NEW s \in Sessions, \A o \in Sessions \ {s} : phase'[o] = phase[o]
  PROVE  /\ (phase[s] \in Serving <=> phase'[s] \in Serving) => Ending' = Ending
         /\ phase'[s] \notin Serving => Ending' = Ending \cup {s}
BY DEF Ending

\* A change of one entry is an Open, a Close or nothing for OpenObjects.
LEMMA EntryStep ==
  ASSUME IInv, IInv', NEW s \in Sessions, phase[s] # "killed", phase'[s] # "killed",
         phase[s] \in Serving <=> phase'[s] \in Serving,
         \A o \in Sessions \ {s} : Same(o),
         NEW h \in Ids, \A g \in Ids \ {h} : Obj(handles'[s][g]) = Obj(handles[s][g])
  PROVE  /\ Obj(handles'[s][h]) = Obj(handles[s][h]) => UNCHANGED <<Named, Ending>>
         /\ /\ Obj(handles[s][h]) = None /\ Obj(handles'[s][h]) \in Objects
            /\ phase[s] \in Serving
            => Abstract!Open(s)
         /\ Obj(handles[s][h]) # None /\ Obj(handles'[s][h]) = None => Abstract!Close(s)
<1> DEFINE b == HandleByte(h)
           after == [c \in Bytes |-> Obj(handles'[s][HandleOf(c)])]
<1>1. /\ \A c \in Bytes : Named[s][c] = Obj(handles[s][HandleOf(c)])
      /\ Named' = [Named EXCEPT ![s] = after]
  BY NamedStep
<1>2. Ending' = Ending /\ (phase[s] \in Serving => s \notin Ending)
  <2>1. \A o \in Sessions \ {s} : phase'[o] = phase[o]
    BY DEF Same
  <2> QED BY <2>1, EndingStep DEF Ending
<1>3. b \in Bytes /\ HandleOf(b) = h
  BY ByteOf
<1>4. \A c \in Bytes \ {b} : HandleOf(c) \in Ids \ {h}
  BY ByteOf
<1>5. /\ \A c \in Bytes \ {b} : after[c] = Named[s][c]
      /\ after[b] = Obj(handles'[s][h])
      /\ Named[s][b] = Obj(handles[s][h])
  BY <1>1, <1>3, <1>4 DEF Named
<1> HIDE DEF after, b
<1>6. Named[s] = [c \in Bytes |-> Named[s][c]] /\ Named = [o \in Sessions |-> Named[o]]
  BY DEF Named
<1>7. after = [Named[s] EXCEPT ![b] = after[b]]
  <2>1. after = [c \in Bytes |-> after[c]]
    BY DEF after
  <2>2. after = [c \in Bytes |-> IF c = b THEN after[b] ELSE Named[s][c]]
    <3>1. \A c \in Bytes : after[c] = IF c = b THEN after[b] ELSE Named[s][c]
      BY <1>5
    <3> QED BY <2>1, <3>1
  <2>3. [Named[s] EXCEPT ![b] = after[b]] =
          [c \in Bytes |-> IF c = b THEN after[b] ELSE Named[s][c]]
    BY <1>6
  <2> QED BY <2>2, <2>3
<1>8. Named' = [Named EXCEPT ![s][b] = Obj(handles'[s][h])]
  BY <1>1, <1>5, <1>7
<1>9. ASSUME Obj(handles'[s][h]) = Obj(handles[s][h])
      PROVE  UNCHANGED <<Named, Ending>>
  <2>1. after[b] = Named[s][b]
    BY <1>5, <1>9
  <2>2. after = Named[s]
    BY <1>5, <1>6, <2>1 DEF after
  <2>3. Named' = Named
    BY <1>1, <1>6, <2>2
  <2> QED BY <1>2, <2>3
<1>10. ASSUME Obj(handles[s][h]) = None, Obj(handles'[s][h]) \in Objects,
              phase[s] \in Serving
       PROVE  Abstract!Open(s)
  BY <1>2, <1>3, <1>5, <1>8, <1>10 DEF Abstract!Open, Named, Ending
<1>11. ASSUME Obj(handles[s][h]) # None, Obj(handles'[s][h]) = None
       PROVE  Abstract!Close(s)
  BY <1>2, <1>3, <1>5, <1>8, <1>11 DEF Abstract!Close, Named, Ending
<1> QED BY <1>9, <1>10, <1>11

\* A step that changes no entry, and at most makes a request or its end.
LEMMA QuietStep ==
  ASSUME IInv, IInv', NEW s \in Sessions, phase[s] # "killed", phase'[s] # "killed",
         \A o \in Sessions \ {s} : Same(o),
         \A h \in Ids : Obj(handles'[s][h]) = Obj(handles[s][h])
  PROVE  /\ Named' = Named
         /\ (phase[s] \in Serving <=> phase'[s] \in Serving) => Ending' = Ending
         /\ phase'[s] \notin Serving => Ending' = Ending \cup {s}
<1> DEFINE after == [c \in Bytes |-> Obj(handles'[s][HandleOf(c)])]
<1>1. /\ \A c \in Bytes : Named[s][c] = Obj(handles[s][HandleOf(c)])
      /\ Named' = [Named EXCEPT ![s] = after]
  BY NamedStep
<1>2. \A c \in Bytes : Obj(handles'[s][HandleOf(c)]) = Named[s][c]
  BY <1>1, ByteOf
<1>3. Named[s] = [c \in Bytes |-> Named[s][c]] /\ Named = [o \in Sessions |-> Named[o]]
  BY DEF Named
<1>4. after = Named[s]
  BY <1>2, <1>3
<1> HIDE DEF after
<1>5. Named' = Named
  BY <1>1, <1>3, <1>4
<1>6. \A o \in Sessions \ {s} : phase'[o] = phase[o]
  BY DEF Same
<1> QED BY <1>5, <1>6, EndingStep

\* DoOpenDir opens an object, or nothing when the table is full.
LEMMA OpenDirMaps ==
  ASSUME IInv, IInv', NEW s \in Sessions, DoOpenDir(s)
  PROVE  \/ Abstract!Open(s)
         \/ UNCHANGED <<Named, Ending>>
<1>1. PICK n \in FreeNums(s), p \in Paths :
        IF FreeIds(handles[s]) = {}
        THEN UNCHANGED <<handles, kernel>>
        ELSE /\ OpenAs(s, n, [kind |-> "DIR", path |-> p])
             /\ handles' = [handles EXCEPT ![s][FirstFree(handles[s])] =
                  [state |-> "DIR", path |-> p, dir |-> n, fd |-> None,
                   flags |-> "RDONLY", pos |-> @.pos]]
  BY DEF DoOpenDir
<1>2. phase[s] = "run" /\ UNCHANGED <<shown, phase, want, at, seen, fresh, reaped>>
  BY DEF DoOpenDir
<1>3. CASE FreeIds(handles[s]) = {}
  <2>1. /\ \A o \in Sessions : Same(o) /\ phase'[o] = phase[o]
        /\ \A h \in Ids : Obj(handles'[s][h]) = Obj(handles[s][h])
    BY <1>1, <1>2, <1>3 DEF Same
  <2> QED BY <1>2, <2>1, QuietStep
<1>4. CASE FreeIds(handles[s]) # {}
  <2> DEFINE h == FirstFree(handles[s])
             r == [state |-> "DIR", path |-> p, dir |-> n, fd |-> None,
                   flags |-> "RDONLY", pos |-> handles[s][h].pos]
  <2>1. h \in FreeIds(handles[s]) /\ h \in Ids /\ handles[s][h].state = "UNUSED"
    BY <1>4, FirstFreeIs DEF FreeIds
  <2>2. Obj(r) = [kind |-> "DIR", path |-> p] /\ Obj(r) \in Objects
    BY DEF Obj, Objects
  <2>3. handles' = [handles EXCEPT ![s][h] = r]
        /\ kernel' = [kernel EXCEPT ![s][n] = [kind |-> "DIR", path |-> p]]
    BY <1>1, <1>4 DEF OpenAs
  <2> HIDE DEF h, r
  <2>4. /\ handles'[s][h] = r /\ \A g \in Ids \ {h} : handles'[s][g] = handles[s][g]
        /\ \A o \in Sessions \ {s} : Same(o)
    BY <1>2, <2>1, <2>3, TypesAre DEF IInv, Same, Tables
  <2>5. Obj(handles[s][h]) = None
    BY <2>1 DEF Obj
  <2>6. phase'[s] = phase[s] /\ phase[s] # "killed" /\ phase[s] \in Serving
    BY <1>2 DEF Serving, Steady
  <2> QED BY <2>1, <2>2, <2>4, <2>5, <2>6, EntryStep
<1> QED BY <1>3, <1>4

\* open(2) and what follows a full table show nothing to the client.
LEMMA NoHandleMaps ==
  ASSUME IInv, IInv', NEW s \in Sessions,
         OpenFile(s) \/ Publish(s) \/ (phase[s] = "opened" /\ NewFile(s) /\ TableFull(s))
  PROVE  UNCHANGED <<Named, Ending>>
<1>1. /\ phase[s] \in Serving /\ phase'[s] \in Serving /\ handles' = handles
      /\ \A i \in Sessions \ {s} : Same(i)
  BY TypesAre
  DEF IInv, OpenFile, Publish, NewFile, TableFull, OpenAs, UpdateInfoForOpenFiles, Goto,
      Same, Serving, Steady
<1>2. phase[s] # "killed" /\ phase'[s] # "killed"
  BY <1>1 DEF Serving, Steady
<1> QED BY <1>1, <1>2, QuietStep

\* HandleNew in DoOpen opens an object, or nothing.
LEMMA NewFileMaps ==
  ASSUME IInv, IInv', NEW s \in Sessions, NewFile(s)
  PROVE  \/ Abstract!Open(s)
         \/ UNCHANGED <<Named, Ending>>
<1> DEFINE r == [state |-> "FILE", path |-> want[s].path, dir |-> None,
                 fd |-> fresh[s], flags |-> want[s].flags, pos |-> 0]
           h == FirstFree(handles[s])
<1>1. /\ phase[s] = "opened" /\ want' = [want EXCEPT ![s] = None]
      /\ UNCHANGED <<shown, at, seen, reaped>>
      /\ TableFull(s) \/ HandleNewFile(s)
  BY DEF NewFile
<1>2. CASE TableFull(s)
  BY <1>1, <1>2, NoHandleMaps
<1>3. CASE HandleNewFile(s)
  <2>1. /\ FreeIds(handles[s]) # {}
        /\ handles' = [handles EXCEPT ![s][h] = r]
        /\ phase' = [phase EXCEPT ![s] = "publish"]
        /\ UNCHANGED <<kernel, fresh>>
    BY <1>3 DEF HandleNewFile, Goto
  <2>2. h \in FreeIds(handles[s]) /\ h \in Ids /\ handles[s][h].state = "UNUSED"
    BY <2>1, FirstFreeIs DEF FreeIds
  <2>3. want[s].path \in Paths
    BY <1>1, Here DEF Fine, SessionOK, Request
  <2>4. Obj(r) \in Objects
    BY <2>3 DEF Obj, Objects
  <2> HIDE DEF h, r
  <2>5. /\ handles'[s][h] = r /\ \A g \in Ids \ {h} : handles'[s][g] = handles[s][g]
        /\ \A i \in Sessions \ {s} : Same(i)
        /\ phase'[s] = "publish"
    BY <1>1, <2>1, <2>2, TypesAre DEF IInv, Same, Tables
  <2>6. Obj(handles[s][h]) = None
    BY <2>2 DEF Obj
  <2>7. phase[s] \in Serving /\ phase'[s] \in Serving
    BY <1>1, <2>5 DEF Serving, Steady
  <2> QED BY <1>1, <2>2, <2>4, <2>5, <2>6, <2>7, EntryStep
<1> QED BY <1>1, <1>2, <1>3

\* HandleClose of an entry, in a request or at the end.
LEMMA CloseMaps ==
  ASSUME IInv, IInv', NEW s \in Sessions, NEW h \in Ids,
         phase[s] \notin {"killed", "opened"}, phase'[s] # "killed",
         phase[s] \in Serving <=> phase'[s] \in Serving,
         \A o \in Sessions \ {s} : phase'[o] = phase[o],
         HandleClose(s, h), UNCHANGED <<shown, want, fresh, reaped>>
  PROVE  \/ Abstract!Close(s)
         \/ UNCHANGED <<Named, Ending>>
<1>1. /\ \A o \in Sessions \ {s} : handles'[o] = handles[o] /\ kernel'[o] = kernel[o]
      /\ handles'[s][h].state = "UNUSED"
      /\ \A g \in Ids \ {h} : handles'[s][g] = handles[s][g]
  BY CloseStep
<1>2. \A o \in Sessions \ {s} : Same(o)
  BY <1>1 DEF Same
<1>3. Obj(handles'[s][h]) = None
  BY <1>1 DEF Obj
<1>4. CASE Obj(handles[s][h]) = None
  BY <1>1, <1>2, <1>3, <1>4, EntryStep
<1>5. CASE Obj(handles[s][h]) # None
  BY <1>1, <1>2, <1>3, <1>5, EntryStep
<1> QED BY <1>4, <1>5

\* A killed process has nothing open.
LEMMA CrashMaps ==
  ASSUME IInv, IInv', NEW s \in Sessions, Crash(s)
  PROVE  Abstract!Vanish(s)
<1>1. /\ phase'[s] = "killed"
      /\ \A o \in Sessions \ {s} :
           handles'[o] = handles[o] /\ kernel'[o] = kernel[o] /\ phase'[o] = phase[o]
  BY TypesAre DEF IInv, Crash, Goto
<1>2. \A b \in Bytes : Designated(s, b)' = None
  BY <1>1 DEF Designated, Alive
<1>3. \A o \in Sessions \ {s}, b \in Bytes : Designated(o, b)' = Designated(o, b)
  BY <1>1 DEF Designated, Alive
<1>4. Named' = [o \in Sessions |-> [b \in Bytes |-> Designated(o, b)']]
  BY DEF Named
<1>5. Named' = [Named EXCEPT ![s] = [b \in Bytes |-> None]]
  BY <1>2, <1>3, <1>4 DEF Named
<1>6. Ending' = Ending \cup {s}
  BY <1>1, EndingStep DEF Serving, Steady
<1> QED BY <1>5, <1>6 DEF Abstract!Vanish, Abstract!Free, Named, Ending

\* At first no handle stands for anything.
LEMMA InitMaps == Init => Abstract!Init
<1>1. SUFFICES ASSUME Init PROVE Abstract!Init
  OBVIOUS
<1>2. \A s \in Sessions, b \in Bytes : Designated(s, b) = None
  BY <1>1, ByteOf DEF Init, Designated, Unused
<1>3. \A s \in Sessions : phase[s] \in Serving
  BY <1>1 DEF Init, Serving, Steady
<1> QED BY <1>2, <1>3 DEF Abstract!Init, Abstract!Free

\* Every step is one of OpenObjects or changes nothing there.
LEMMA NextMaps ==
  ASSUME IInv, IInv', [Next]_vars
  PROVE  [Abstract!Next]_<<Named, Ending>>
<1>1. CASE UNCHANGED vars
  <2>1. /\ \A s \in Sessions, b \in Bytes : Designated(s, b)' = Designated(s, b)
        /\ phase' = phase
    BY <1>1 DEF vars, Designated, Alive
  <2> QED BY <2>1 DEF Named, Ending
<1>2. CASE Next
  <2>1. PICK s \in Sessions :
          \/ DoOpenDir(s) \/ DoOpen(s) \/ CheckSlot(s)
          \/ OpenFile(s) \/ NewFile(s) \/ Publish(s)
          \/ \E b \in Bytes : DoRead(s, b) \/ DoWrite(s, b) \/ DoClose(s, b)
          \/ Quit(s) \/ CloseLastFile(s) \/ Release(s) \/ CloseNext(s)
          \/ Crash(s) \/ Reaped(s)
    BY <1>2 DEF Next, OpenStep, ExitStep
  <2> DEFINE Maps == \/ Abstract!Open(s) \/ Abstract!Close(s)
                     \/ Abstract!End(s) \/ Abstract!Vanish(s)
                     \/ UNCHANGED <<Named, Ending>>
  <2>2. ASSUME DoOpen(s) \/ CheckSlot(s) PROVE Maps
    <3>1. /\ UNCHANGED <<handles, kernel, shown, fresh, reaped>>
          /\ phase[s] \in {"run", "check"} /\ phase'[s] \in Serving
          /\ \A o \in Sessions \ {s} : phase'[o] = phase[o] /\ want'[o] = want[o]
      BY <2>2, TypesAre DEF IInv, DoOpen, CheckSlot, Goto, Serving, Steady
    <3>2. \A o \in Sessions \ {s} : Same(o)
      BY <3>1 DEF Same
    <3> QED BY <3>1, <3>2, QuietStep DEF Serving, Steady
  <2>3. ASSUME NEW b \in Bytes, DoRead(s, b) \/ DoWrite(s, b) PROVE Maps
    <3> DEFINE h == HandleOf(b)
    <3>1. phase[s] = "run" /\ h \in Ids
      BY <2>3 DEF DoRead, DoWrite, InState
    <3>2. PICK n \in Positions : MoveTo(s, h, n)
      BY <2>3, PositionsAssumption DEF DoRead, DoWrite
    <3> HIDE DEF h
    <3>3. /\ handles' = [handles EXCEPT ![s][h].pos = n]
          /\ shown' = [shown EXCEPT ![s] = Published(handles'[s], @)]
          /\ UNCHANGED <<kernel, phase, want, fresh, reaped>>
      BY <3>2 DEF MoveTo, UpdateInfoForOpenFiles
    <3>4. \A g \in Ids : /\ handles'[s][g].state = handles[s][g].state
                         /\ handles'[s][g].path = handles[s][g].path
      BY <3>3, TypesAre DEF IInv, Tables, HandleRecord
    <3>5. \A o \in Sessions \ {s} : Same(o)
      BY <3>3, TypesAre DEF IInv, Same
    <3> QED BY <3>1, <3>3, <3>4, <3>5, QuietStep DEF Obj
  <2>4. ASSUME NEW b \in Bytes, DoClose(s, b) PROVE Maps
    <3>1. /\ HandleOf(b) \in Ids /\ phase[s] = "run" /\ HandleClose(s, HandleOf(b))
          /\ UNCHANGED <<shown, want, fresh, reaped>>
          /\ phase'[s] \in {"run", "publish"}
          /\ \A o \in Sessions \ {s} : phase'[o] = phase[o]
      BY <2>4, TypesAre DEF IInv, DoClose, InState, Goto
    <3> QED BY <3>1, CloseMaps DEF Serving, Steady
  <2>5. ASSUME Quit(s) PROVE Maps
    <3>1. /\ UNCHANGED <<handles, kernel, shown, want, fresh, reaped>> /\ phase[s] = "run"
          /\ phase'[s] = "closing" /\ \A o \in Sessions \ {s} : phase'[o] = phase[o]
      BY <2>5, TypesAre DEF IInv, Quit, Goto
    <3>2. \A o \in Sessions \ {s} : Same(o)
      BY <3>1 DEF Same
    <3>3. Named' = Named /\ Ending' = Ending \cup {s}
      BY <3>1, <3>2, QuietStep DEF Serving, Steady
    <3> QED BY <3>3 DEF Abstract!End, Named, Ending
  <2>6. ASSUME CloseLastFile(s) PROVE Maps
    <3>1. LastFile(handles[s]) \in Ids
      BY <2>6, LastFileIs DEF CloseLastFile, FileIds
    <3>2. /\ phase[s] = "closing" /\ HandleClose(s, LastFile(handles[s]))
          /\ UNCHANGED <<shown, phase, want, fresh, reaped>>
      BY <2>6 DEF CloseLastFile
    <3> QED BY <3>1, <3>2, CloseMaps
  <2>7. ASSUME Release(s) PROVE Maps
    <3>1. /\ UNCHANGED <<handles, kernel, want, fresh, reaped>> /\ phase[s] = "closing"
          /\ phase'[s] = "released"
          /\ \A o \in Sessions \ {s} : phase'[o] = phase[o] /\ shown'[o] = shown[o]
      BY <2>7, TypesAre DEF IInv, Release, Goto
    <3>2. \A o \in Sessions \ {s} : Same(o)
      BY <3>1 DEF Same
    <3> QED BY <3>1, <3>2, QuietStep DEF Serving, Steady
  <2>8. ASSUME Reaped(s) PROVE Maps
    <3>1. UNCHANGED <<handles, kernel, phase>>
      BY <2>8 DEF Reaped
    <3>2. \A o \in Sessions, b \in Bytes : Designated(o, b)' = Designated(o, b)
      BY <3>1 DEF Designated, Alive
    <3> QED BY <3>1, <3>2 DEF Named, Ending
  <2>9. ASSUME CloseNext(s) PROVE Maps
    <3> DEFINE used == Ids \ FreeIds(handles[s])
               h == CHOOSE i \in used : \A g \in used : i <= g
    <3>1. /\ phase[s] = "released" /\ UNCHANGED <<shown, want, fresh, reaped>>
          /\ IF used # {}
             THEN HandleClose(s, h) /\ UNCHANGED phase
             ELSE phase' = [phase EXCEPT ![s] = "exited"] /\ UNCHANGED <<handles, kernel>>
      BY <2>9 DEF CloseNext, Goto
    <3>2. CASE used # {}
      <4>1. \E i \in used : \A g \in used : i <= g
        BY <3>2, IdsAreNat, LeastNat
      <4>2. h \in Ids
        BY <4>1
      <4> HIDE DEF h, used
      <4> QED BY <3>1, <3>2, <4>2, CloseMaps
    <3>3. CASE used = {}
      <4>1. /\ UNCHANGED <<handles, kernel>> /\ phase'[s] = "exited"
            /\ \A o \in Sessions \ {s} : phase'[o] = phase[o]
        BY <3>1, <3>3, TypesAre DEF IInv
      <4>2. \A o \in Sessions \ {s} : Same(o)
        BY <3>1, <4>1 DEF Same
      <4> QED BY <3>1, <4>1, <4>2, QuietStep DEF Serving, Steady
    <3> QED BY <3>2, <3>3
  <2>10. Maps
    BY <2>1, <2>2, <2>3, <2>4, <2>5, <2>6, <2>7, <2>8, <2>9,
       OpenDirMaps, NoHandleMaps, NewFileMaps, CrashMaps
  <2> QED BY <2>10 DEF Abstract!Next, Named, Ending
<1> QED BY <1>1, <1>2

\* The handles given to clients behave as the names of OpenObjects: each
\* stands for what was opened under it until it is closed (HandleNew,
\* HandleGet, HandleClose), and nothing is opened by a session that ends.
THEOREM ImplementsOpenObjects == Spec => HandlesDesignate
<1>1. Init => Abstract!Init
  BY InitMaps
<1>2. IInv /\ IInv' /\ [Next]_vars => [Abstract!Next]_<<Named, Ending>>
  BY NextMaps
<1>3. Abstract!Spec <=> Abstract!Init /\ [][Abstract!Next]_<<Named, Ending>>
  BY DEF Abstract!Spec, Named, Ending
<1> QED BY <1>1, <1>2, <1>3, AlwaysInv, PTL DEF Spec, HandlesDesignate
==============================================================================
