---------------------------- MODULE ConfigProofs ----------------------------
(***************************************************************************)
(* Proofs about Config, for all files, tags, parameters, inclusions and    *)
(* filters: a parameter has the value of the last line that gives it one   *)
(* and applies, the stack of tags is empty when the configuration is       *)
(* loaded, ranges of addresses are read as they are written, and what the  *)
(* selected filters refuse is what the lines between their tags say.       *)
(***************************************************************************)
EXTENDS Config, FiniteSetTheorems, SequenceTheorems, WellFoundedInduction, TLAPS

-----------------------------------------------------------------------------
(* The table of parameters.                                                *)

IsTable(h) == DOMAIN h = Keys
Agrees(h, values) == \A k \in Keys : h[k] = SaidElement(k, values[k])

\* An element of the table that is given a string, or a number.
LEMMA HashSet ==
  ASSUME NEW h, IsTable(h), NEW key \in Keys, NEW v, v # None,
         NEW b, NEW s, NEW n, h[key] = [set |-> b, str |-> s, num |-> n]
  PROVE  /\ IsTable(hash_set(h, key, v))
         /\ hash_set(h, key, v)[key] = [set |-> TRUE, str |-> v, num |-> n]
         /\ \A k \in Keys : k # key => hash_set(h, key, v)[k] = h[k]
BY DEF IsTable, hash_set

LEMMA HashSetInt ==
  ASSUME NEW h, IsTable(h), NEW key \in Keys, NEW v,
         NEW b, NEW s, NEW n, h[key] = [set |-> b, str |-> s, num |-> n]
  PROVE  /\ IsTable(hash_set_int(h, key, v))
         /\ hash_set_int(h, key, v)[key] = [set |-> TRUE, str |-> s, num |-> v]
         /\ \A k \in Keys : k # key => hash_set_int(h, key, v)[k] = h[k]
BY DEF IsTable, hash_set_int

\* What a line does to a table that is as the lines before say.
Gives(w, values) ==
  [k \in Keys |-> IF GivenTo(w, k) = None THEN values[k] ELSE GivenTo(w, k)]

LEMMA LineTable ==
  ASSUME NEW w, NEW h, IsTable(h)
  PROVE  IsTable(processLine(h, w))
<1>1. ASSUME NEW g, IsTable(g), NEW k, NEW v
      PROVE  IsTable(hash_set(g, k, v)) /\ IsTable(hash_set_int(g, k, v))
  BY <1>1 DEF IsTable, hash_set, hash_set_int
<1> QED BY <1>1, Zenon DEF processLine

LEMMA LineAgrees ==
  ASSUME NEW w \in Words, NEW h, IsTable(h), NEW values, Agrees(h, values)
  PROVE  /\ IsTable(processLine(h, w))
         /\ Agrees(processLine(h, w), Gives(w, values))
<1> DEFINE p == w[1]
           kind == KindOf[p]
           key == <<p, "Name">>
<1>0. /\ Len(w) \in Nat \ {0}
      /\ \A i \in 1 .. Len(w) : w[i] # None
  BY WordsAssumption
<1>n. \A n \in Nat \ {0} : (n # 1 => 2 \in 1 .. n) /\ (n # 1 /\ n # 2 => 3 \in 1 .. n)
  OBVIOUS
<1>1. CASE p \notin Params \/ (Len(w) = 1 /\ kind # "STRING_MAYBE_EMPTY")
  <2>1. processLine(h, w) = h
    BY <1>1 DEF processLine
  <2>2. \A k \in Keys : GivenTo(w, k) = None
    BY <1>1 DEF GivenTo, Keys
  <2> QED BY <2>1, <2>2 DEF Agrees, Gives
<1>2. CASE p \in Params /\ ~(Len(w) = 1 /\ kind # "STRING_MAYBE_EMPTY")
  <2>0. /\ kind \in Kinds
        /\ key \in Keys /\ <<p, "File">> \in Keys /\ <<p, "Directory">> \in Keys
    BY <1>2, KindsAssumption DEF Keys
  <2>k. ASSUME NEW k \in Keys, k[1] # p  PROVE GivenTo(w, k) = None
    BY <2>k DEF GivenTo
  <2>m. ASSUME NEW k \in Keys, k[1] = p
        PROVE  k = key \/ k = <<p, "File">> \/ k = <<p, "Directory">>
    BY <2>m DEF Keys
  <2>d. key # <<p, "File">> /\ key # <<p, "Directory">> /\ <<p, "File">> # <<p, "Directory">>
    OBVIOUS
  <2>1. CASE kind \in {"STRING", "STRING_MAYBE_EMPTY"} /\ Len(w) # 1
    <3>0. w[2] # None
      <4>1. 2 \in 1 .. Len(w)
        BY <2>1, <1>0, <1>n
      <4> QED BY <4>1, <1>0
    <3>1. processLine(h, w) = hash_set(h, key, w[2])
      <4>1. (IF Len(w) = 1 THEN None ELSE w[2]) = w[2]
        BY <2>1
      <4>2. processLine(h, w) = hash_set(h, key, IF Len(w) = 1 THEN None ELSE w[2])
        BY <1>2, <2>1, Zenon DEF processLine
      <4> QED BY <4>1, <4>2, Zenon
    <3>2. \E b, s, n : h[key] = [set |-> b, str |-> s, num |-> n] /\ n = 0
      BY <2>0, <2>1 DEF Agrees, SaidElement, Absent
    <3>3. /\ IsTable(processLine(h, w))
          /\ processLine(h, w)[key] = [set |-> TRUE, str |-> w[2], num |-> 0]
          /\ \A k \in Keys : k # key => processLine(h, w)[k] = h[k]
      BY <3>0, <3>1, <3>2, <2>0, HashSet
    <3>4. GivenTo(w, key) = w[2]
      BY <2>1, <1>2 DEF GivenTo
    <3>5. \A k \in Keys : k # key => GivenTo(w, k) = None
      BY <2>k, <2>m, <2>1 DEF GivenTo
    <3>6. Gives(w, values)[key] = w[2]
      BY <3>0, <3>4, <2>0 DEF Gives
    <3>7. SaidElement(key, w[2]) = [set |-> TRUE, str |-> w[2], num |-> 0]
      BY <3>0, <2>1 DEF SaidElement
    <3>8. \A k \in Keys : k # key => Gives(w, values)[k] = values[k]
      BY <3>5 DEF Gives
    <3> QED BY <3>3, <3>6, <3>7, <3>8 DEF Agrees
  <2>2. CASE kind = "STRING_MAYBE_EMPTY" /\ Len(w) = 1
    <3>1. processLine(h, w) = h
      BY <1>2, <2>2 DEF processLine, hash_set
    <3>2. \A k \in Keys : GivenTo(w, k) = None
      BY <2>2 DEF GivenTo
    <3> QED BY <3>1, <3>2 DEF Agrees, Gives
  <2>3. CASE kind = "DEPRECATED"
    <3>1. processLine(h, w) = h
      BY <1>2, <2>3 DEF processLine
    <3>2. \A k \in Keys : GivenTo(w, k) = None
      BY <2>3 DEF GivenTo
    <3> QED BY <3>1, <3>2 DEF Agrees, Gives
  <2>4. CASE kind = "FILE_AND_DIR"
    <3> DEFINE file == <<p, "File">>
               dir == <<p, "Directory">>
               f1 == hash_set_int(h, key, 42)
               f2 == hash_set_int(f1, file, Converted("MODE", w[2]))
               f3 == hash_set_int(f2, dir, Converted("MODE", w[3]))
    <3>1. processLine(h, w) = IF Len(w) = 2 THEN f2 ELSE f3
      <4>1. kind \notin {"STRING", "STRING_MAYBE_EMPTY"} /\ kind # "DEPRECATED"
        BY <2>4
      <4> QED BY <1>2, <2>4, <4>1, Zenon DEF processLine
    <3>2. \A k \in {key, file, dir} : \E b, n : h[k] = [set |-> b, str |-> None, num |-> n]
      <4>1. \A k \in {key, file, dir} : k \in Keys /\ KindOf[k[1]] = "FILE_AND_DIR"
        BY <2>0, <2>4
      <4>2. ASSUME NEW k \in {key, file, dir}
            PROVE  \E b, n : SaidElement(k, values[k]) = [set |-> b, str |-> None, num |-> n]
        BY <4>1 DEF SaidElement, Absent
      <4> QED BY <4>1, <4>2 DEF Agrees
    <3>3. /\ IsTable(f1)
          /\ f1[key] = [set |-> TRUE, str |-> None, num |-> 42]
          /\ \A k \in Keys : k # key => f1[k] = h[k]
      <4>1. PICK b, n : h[key] = [set |-> b, str |-> None, num |-> n]
        BY <3>2
      <4> QED BY <4>1, <2>0, HashSetInt
    <3>4. /\ IsTable(f2)
          /\ f2[file] = [set |-> TRUE, str |-> None, num |-> Converted("MODE", w[2])]
          /\ \A k \in Keys : k # file => f2[k] = f1[k]
      <4>1. f1[file] = h[file]
        BY <3>3, <2>0, <2>d
      <4>2. PICK b, n : h[file] = [set |-> b, str |-> None, num |-> n]
        BY <3>2
      <4> HIDE DEF f1
      <4> QED BY <4>1, <4>2, <3>3, <2>0, HashSetInt
    <3>5. /\ IsTable(f3)
          /\ f3[dir] = [set |-> TRUE, str |-> None, num |-> Converted("MODE", w[3])]
          /\ \A k \in Keys : k # dir => f3[k] = f2[k]
      <4>1. f2[dir] = h[dir]
        BY <3>3, <3>4, <2>0, <2>d
      <4>2. PICK b, n : h[dir] = [set |-> b, str |-> None, num |-> n]
        BY <3>2
      <4> HIDE DEF f1, f2
      <4> QED BY <4>1, <4>2, <3>4, <2>0, HashSetInt
    <3>6. /\ 2 \in 1 .. Len(w) /\ (Len(w) # 2 => 3 \in 1 .. Len(w))
          /\ w[2] # None /\ (Len(w) # 2 => w[3] # None)
      <4>1. 2 \in 1 .. Len(w) /\ (Len(w) # 2 => 3 \in 1 .. Len(w))
        BY <1>0, <1>2, <2>4, <1>n
      <4> QED BY <4>1, <1>0
    <3>7. /\ Gives(w, values)[key] = w[2]
          /\ Gives(w, values)[file] = w[2]
          /\ Gives(w, values)[dir] = IF Len(w) = 2 THEN values[dir] ELSE w[3]
          /\ \A k \in Keys : k \notin {key, file, dir} => Gives(w, values)[k] = values[k]
      <4>1. GivenTo(w, key) = w[2] /\ GivenTo(w, file) = w[2]
        BY <2>4, <1>2 DEF GivenTo
      <4>2. GivenTo(w, dir) = IF Len(w) = 2 THEN None ELSE w[3]
        BY <2>4, <1>2 DEF GivenTo
      <4>3. \A k \in Keys : k \notin {key, file, dir} => GivenTo(w, k) = None
        BY <2>k, <2>m
      <4> QED BY <4>1, <4>2, <4>3, <3>6, <2>0 DEF Gives
    <3>8. /\ SaidElement(key, w[2]) = [set |-> TRUE, str |-> None, num |-> 42]
          /\ SaidElement(file, w[2]) = [set |-> TRUE, str |-> None, num |-> Converted("MODE", w[2])]
          /\ Len(w) # 2 =>
               SaidElement(dir, w[3]) = [set |-> TRUE, str |-> None, num |-> Converted("MODE", w[3])]
      BY <2>4, <3>6 DEF SaidElement
    <3> HIDE DEF f1, f2, f3
    <3>9. \A k \in Keys \ {key, file, dir} : f2[k] = h[k] /\ f3[k] = h[k]
      BY <3>3, <3>4, <3>5
    <3>10. f2[key] = f1[key] /\ f3[key] = f1[key] /\ f2[dir] = h[dir] /\ f3[file] = f2[file]
      BY <3>3, <3>4, <3>5, <2>0, <2>d
    <3>11. CASE Len(w) = 2
      BY <3>11, <3>1, <3>3, <3>4, <3>7, <3>8, <3>9, <3>10 DEF Agrees
    <3>12. CASE Len(w) # 2
      BY <3>12, <3>1, <3>3, <3>4, <3>5, <3>7, <3>8, <3>9, <3>10 DEF Agrees
    <3> QED BY <3>11, <3>12
  <2>5. CASE kind \in {"INT", "BOOLEAN", "SPEED", "TIME", "MODE"}
    <3>1. processLine(h, w) = hash_set_int(h, key, Converted(kind, w[2]))
      <4>1. /\ kind \notin {"STRING", "STRING_MAYBE_EMPTY"} /\ kind # "DEPRECATED"
            /\ kind # "FILE_AND_DIR"
        BY <2>5
      <4> QED BY <1>2, <4>1, Zenon DEF processLine
    <3>2. \E b, s, n : h[key] = [set |-> b, str |-> s, num |-> n] /\ s = None
      <4>1. h[key] = SaidElement(key, values[key])
        BY <2>0 DEF Agrees
      <4>2. /\ KindOf[key[1]] \notin {"STRING", "STRING_MAYBE_EMPTY", "FILE_AND_DIR"}
            /\ key[2] = "Name"
        BY <2>5
      <4>3. \/ SaidElement(key, values[key]) = [set |-> FALSE, str |-> None, num |-> 0]
            \/ SaidElement(key, values[key]) =
                 [set |-> TRUE, str |-> None, num |-> Converted(KindOf[key[1]], values[key])]
        BY <4>2 DEF SaidElement, Absent
      <4> QED BY <4>1, <4>3
    <3>3. /\ IsTable(processLine(h, w))
          /\ processLine(h, w)[key] = [set |-> TRUE, str |-> None, num |-> Converted(kind, w[2])]
          /\ \A k \in Keys : k # key => processLine(h, w)[k] = h[k]
      BY <3>1, <3>2, <2>0, HashSetInt
    <3>0. w[2] # None
      <4>1. 2 \in 1 .. Len(w)
        BY <1>2, <2>5, <1>0
      <4> QED BY <4>1, <1>0
    <3>4. GivenTo(w, key) = w[2]
      BY <2>5, <1>2 DEF GivenTo
    <3>5. \A k \in Keys : k # key => GivenTo(w, k) = None
      BY <2>k, <2>m, <2>5 DEF GivenTo
    <3>6. Gives(w, values)[key] = w[2]
      BY <3>0, <3>4, <2>0 DEF Gives
    <3>7. SaidElement(key, w[2]) = [set |-> TRUE, str |-> None, num |-> Converted(kind, w[2])]
      BY <3>0, <2>5 DEF SaidElement
    <3>8. \A k \in Keys : k # key => Gives(w, values)[k] = values[k]
      BY <3>5 DEF Gives
    <3> QED BY <3>3, <3>6, <3>7, <3>8 DEF Agrees
  <2> QED BY <1>2, <2>0, <2>1, <2>2, <2>3, <2>4, <2>5 DEF Kinds
<1> QED BY <1>1, <1>2
-----------------------------------------------------------------------------
(* Files and tags. While no tag is inside another one, the tags on the     *)
(* stack are for the session and no filter, unless the last one is the one *)
(* that is open in the file being read.                                    *)

Stacked == {Entry(t) : t \in Tags}
Nows == Stacked \cup {NoTag, BareEntry}
FileRecs == [opened : Nat, active : BOOLEAN, now : Nows]

Applies(w, now) == now = NoTag \/ IsFor(w, now)

Plain(w, fs, ts) ==
  /\ \A i \in 1 .. Len(fs) - 1 :
       Applies(w, fs[i].now) /\ fs[i].now.type # "FILESPEC" /\ fs[i].active
  /\ \A i \in 1 .. Len(fs) : fs[i].opened = IF fs[i].now = NoTag THEN 0 ELSE 1
  /\ fs[Len(fs)].active <=> Applies(w, fs[Len(fs)].now)
  /\ \A i \in 1 .. Len(ts) :
       ~IsFor(w, ts[i]) \/ ts[i].type = "FILESPEC" =>
         i = Len(ts) /\ ts[i] = fs[Len(fs)].now
  /\ ~Applies(w, fs[Len(fs)].now) \/ fs[Len(fs)].now.type = "FILESPEC" =>
       ts # <<>> /\ ts[Len(ts)] = fs[Len(fs)].now

\* The tags, as the properties see them.
LEMMA EntryTypes ==
  /\ \A e \in Stacked \cup {BareEntry} : e.type \in TagTypes /\ e # NoTag
  /\ NoTag.type \notin TagTypes
  /\ \A w : IsFor(w, BareEntry)
  /\ \A w, e : e.type = "FILESPEC" => IsFor(w, e)
<1>1. \A t \in Tags : Entry(t).type = t.type
  BY DEF Entry
<1>2. \A e \in Stacked : e.type \in TagTypes
  BY <1>1, TagsAssumption DEF Stacked
<1>3. BareEntry.type = "DEFAULT" /\ NoTag.type = "none"
  BY DEF BareEntry, NoTag
<1>4. "none" \notin TagTypes /\ "DEFAULT" \in TagTypes
  BY DEF TagTypes
<1>5. \A w, e : e.type \in {"FILESPEC", "DEFAULT"} => IsFor(w, e)
  BY DEF IsFor
<1>6. \A e : e.type \in TagTypes => e # NoTag
  BY <1>3, <1>4
<1> QED BY <1>2, <1>3, <1>4, <1>5, <1>6

\* A tag is opened outside tags.
LEMMA PlainOpen ==
  ASSUME NEW w, NEW fs \in Seq(FileRecs), fs # <<>>, NEW ts \in Seq(Stacked),
         Plain(w, fs, ts), fs[Len(fs)].now = NoTag, NEW e \in Stacked,
         NEW gs \in Seq(FileRecs), Len(gs) = Len(fs),
         \A i \in 1 .. Len(fs) - 1 : gs[i] = fs[i],
         gs[Len(fs)].opened = fs[Len(fs)].opened + 1,
         gs[Len(fs)].active <=> IsFor(w, e), gs[Len(fs)].now = e
  PROVE  Plain(w, gs, Append(ts, e))
<1>0. /\ Len(fs) \in Nat \ {0} /\ Len(ts) \in Nat
      /\ e # NoTag /\ \A i \in 1 .. Len(ts) : ts[i] # NoTag
  BY EntryTypes
<1> DEFINE us == Append(ts, e)
<1>1. us # <<>> /\ Len(us) = Len(ts) + 1 /\ us[Len(us)] = e /\ \A i \in 1 .. Len(ts) : us[i] = ts[i]
  OBVIOUS
<1>2. \A i \in 1 .. Len(ts) : IsFor(w, ts[i]) /\ ts[i].type # "FILESPEC"
  BY <1>0 DEF Plain
<1>3. \A i \in 1 .. Len(us) :
        ~IsFor(w, us[i]) \/ us[i].type = "FILESPEC" => i = Len(us) /\ us[i] = e
  BY <1>0, <1>1, <1>2
<1>4. /\ gs[Len(gs)].now = e /\ gs[Len(gs)].opened = 1
      /\ gs[Len(gs)].active <=> Applies(w, e)
  BY <1>0 DEF Plain, Applies
<1>5. \A i \in 1 .. Len(gs) : gs[i].opened = IF gs[i].now = NoTag THEN 0 ELSE 1
  BY <1>0, <1>4 DEF Plain
<1> HIDE DEF us
<1> QED BY <1>0, <1>1, <1>3, <1>4, <1>5 DEF Plain

\* A tag without argument.
LEMMA PlainBare ==
  ASSUME NEW w, NEW fs \in Seq(FileRecs), fs # <<>>, NEW ts \in Seq(Stacked),
         Plain(w, fs, ts), fs[Len(fs)].now = NoTag,
         NEW gs \in Seq(FileRecs), Len(gs) = Len(fs),
         \A i \in 1 .. Len(fs) - 1 : gs[i] = fs[i],
         gs[Len(fs)].opened = fs[Len(fs)].opened + 1,
         gs[Len(fs)].active <=> ts = <<>> \/ IsFor(w, ts[Len(ts)]),
         gs[Len(fs)].now = BareEntry
  PROVE  Plain(w, gs, ts)
<1>0. /\ Len(fs) \in Nat \ {0} /\ Len(ts) \in Nat /\ (ts # <<>> => Len(ts) \in 1 .. Len(ts))
      /\ BareEntry # NoTag /\ \A i \in 1 .. Len(ts) : ts[i] # NoTag
  BY EntryTypes
<1>2. \A i \in 1 .. Len(ts) : IsFor(w, ts[i]) /\ ts[i].type # "FILESPEC"
  BY <1>0 DEF Plain
<1>3. BareEntry.type # "FILESPEC" /\ IsFor(w, BareEntry)
  BY EntryTypes DEF BareEntry
<1>a. ts = <<>> \/ IsFor(w, ts[Len(ts)])
  BY <1>0, <1>2
<1>b. fs[Len(fs)].opened = 0
  BY <1>0 DEF Plain
<1>4. /\ gs[Len(gs)].now = BareEntry /\ gs[Len(gs)].opened = 1
      /\ gs[Len(gs)].active
  BY <1>0, <1>a, <1>b
<1>5. \A i \in 1 .. Len(gs) : gs[i].opened = IF gs[i].now = NoTag THEN 0 ELSE 1
  BY <1>0, <1>4 DEF Plain
<1> QED BY <1>0, <1>2, <1>3, <1>4, <1>5 DEF Plain, Applies

\* A tag is closed.
LEMMA PlainClose ==
  ASSUME NEW w, NEW fs \in Seq(FileRecs), fs # <<>>, NEW ts \in Seq(Stacked),
         Plain(w, fs, ts), fs[Len(fs)].opened # 0,
         NEW us \in Seq(Stacked), Len(us) = IF ts = <<>> THEN 0 ELSE Len(ts) - 1,
         \A i \in 1 .. Len(us) : us[i] = ts[i],
         NEW gs \in Seq(FileRecs), Len(gs) = Len(fs),
         \A i \in 1 .. Len(fs) - 1 : gs[i] = fs[i],
         gs[Len(fs)].opened = fs[Len(fs)].opened - 1,
         gs[Len(fs)].active <=> us = <<>> \/ IsFor(w, us[Len(us)]),
         gs[Len(fs)].now = NoTag
  PROVE  Plain(w, gs, us)
<1>0. /\ Len(fs) \in Nat \ {0} /\ Len(ts) \in Nat /\ Len(us) \in Nat
      /\ (us # <<>> => Len(us) \in 1 .. Len(us)) /\ (ts = <<>> => us = <<>>)
      /\ NoTag.type # "FILESPEC"
  BY EntryTypes DEF TagTypes
<1>1. \A i \in 1 .. Len(us) : i \in 1 .. Len(ts) /\ i # Len(ts) /\ us[i] = ts[i]
  BY <1>0
<1>2. \A i \in 1 .. Len(us) : IsFor(w, us[i]) /\ us[i].type # "FILESPEC"
  BY <1>1 DEF Plain
<1>a. us = <<>> \/ IsFor(w, us[Len(us)])
  BY <1>0, <1>2
<1>c. Len(fs) \in 1 .. Len(fs)
  BY <1>0
<1>b. fs[Len(fs)].opened = 1
  BY <1>c DEF Plain
<1>4. /\ gs[Len(gs)].now = NoTag /\ gs[Len(gs)].opened = 0
      /\ gs[Len(gs)].active
  BY <1>0, <1>a, <1>b
<1>d. \A i \in 1 .. Len(gs) :
        i = Len(gs) \/ (i \in 1 .. Len(fs) - 1 /\ i \in 1 .. Len(fs) /\ gs[i] = fs[i])
  BY <1>0
<1>5. \A i \in 1 .. Len(gs) : gs[i].opened = IF gs[i].now = NoTag THEN 0 ELSE 1
  BY <1>d, <1>4 DEF Plain
<1> QED BY <1>0, <1>2, <1>4, <1>5 DEF Plain, Applies

\* A file is included, outside filters.
LEMMA PlainInclude ==
  ASSUME NEW w, NEW fs \in Seq(FileRecs), fs # <<>>, NEW ts \in Seq(Stacked),
         Plain(w, fs, ts), fs[Len(fs)].active,
         ~(ts # <<>> /\ ts[Len(ts)].type = "FILESPEC")
  PROVE  /\ Append(fs, NewFile) \in Seq(FileRecs)
         /\ Plain(w, Append(fs, NewFile), ts)
<1> DEFINE gs == Append(fs, NewFile)
<1>0. /\ Len(fs) \in Nat \ {0} /\ Len(ts) \in Nat
      /\ NoTag.type # "FILESPEC" /\ \A i \in 1 .. Len(ts) : ts[i] # NoTag
  BY EntryTypes DEF TagTypes
<1>1. gs # <<>> /\ Len(gs) = Len(fs) + 1 /\ gs[Len(gs)] = NewFile /\ \A i \in 1 .. Len(fs) : gs[i] = fs[i]
  OBVIOUS
<1>2. NewFile \in FileRecs /\ NewFile.now = NoTag /\ NewFile.opened = 0 /\ NewFile.active
  BY DEF NewFile, FileRecs, Nows
<1>3. Applies(w, fs[Len(fs)].now) /\ fs[Len(fs)].now.type # "FILESPEC"
  BY DEF Plain
<1>4. \A i \in 1 .. Len(ts) : IsFor(w, ts[i]) /\ ts[i].type # "FILESPEC"
  BY <1>0, <1>3 DEF Plain, Applies
<1>5. \A i \in 1 .. Len(gs) - 1 :
        Applies(w, gs[i].now) /\ gs[i].now.type # "FILESPEC" /\ gs[i].active
  BY <1>0, <1>1, <1>3 DEF Plain
<1>6. \A i \in 1 .. Len(gs) : gs[i].opened = IF gs[i].now = NoTag THEN 0 ELSE 1
  BY <1>0, <1>1, <1>2 DEF Plain
<1>7. gs \in Seq(FileRecs)
  BY <1>2
<1> HIDE DEF gs
<1>8. Plain(w, gs, ts)
  BY <1>0, <1>1, <1>2, <1>4, <1>5, <1>6 DEF Plain, Applies
<1> QED BY <1>7, <1>8 DEF gs

\* The end of an included file.
LEMMA PlainBack ==
  ASSUME NEW w, NEW fs \in Seq(FileRecs), Len(fs) > 1, NEW ts \in Seq(Stacked),
         Plain(w, fs, ts), fs[Len(fs)].opened = 0,
         NEW gs \in Seq(FileRecs), Len(gs) = Len(fs) - 1,
         \A i \in 1 .. Len(gs) : gs[i] = fs[i]
  PROVE  Plain(w, gs, ts)
<1>0. /\ Len(fs) \in Nat \ {0} /\ Len(ts) \in Nat
      /\ \A i \in 1 .. Len(ts) : ts[i] # NoTag
  BY EntryTypes
<1>1. fs[Len(fs)].now = NoTag
  BY <1>0 DEF Plain
<1>2. \A i \in 1 .. Len(ts) : IsFor(w, ts[i]) /\ ts[i].type # "FILESPEC"
  BY <1>0, <1>1 DEF Plain
<1>3. /\ Applies(w, gs[Len(gs)].now) /\ gs[Len(gs)].now.type # "FILESPEC"
      /\ gs[Len(gs)].active
  BY <1>0 DEF Plain
<1> QED BY <1>0, <1>2, <1>3 DEF Plain
-----------------------------------------------------------------------------
(* The invariant.                                                          *)

Reading == status = "read" => files # <<>> /\ (~written.nested => Plain(who, files, tags))

IInv ==
  /\ status \in Statuses
  /\ DOMAIN hash = Keys
  /\ files \in Seq(FileRecs) /\ tags \in Seq(Stacked)
  /\ \/ written = Nested
     \/ \E v, d : written = [nested |-> FALSE, values |-> v, defined |-> d]
  /\ status \in {"start", "open"} =>
       /\ hash = EmptyHash /\ written = NothingSaid
       /\ files = <<>> /\ tags = <<>>
  /\ status \in {"read", "loaded"} /\ ~written.nested => Agrees(hash, written.values)
  /\ Reading

\* Nothing is said, and nothing is in the table.
LEMMA EmptyAgrees ==
  /\ IsTable(EmptyHash)
  /\ NothingSaid.nested = FALSE
  /\ Agrees(EmptyHash, NothingSaid.values)
  /\ \E v, d : NothingSaid = [nested |-> FALSE, values |-> v, defined |-> d]
BY DEF IsTable, EmptyHash, NothingSaid, Agrees, SaidElement

LEMMA ExitKeeps == ASSUME IInv, Exit  PROVE IInv'
<1>1. <<>> \in Seq(FileRecs) /\ <<>> \in Seq(Stacked)
  OBVIOUS
<1> QED BY <1>1, EmptyAgrees DEF IInv, Exit, Reading, IsTable, Statuses

LEMMA InitIInv == Init => IInv
<1>1. <<>> \in Seq(FileRecs) /\ <<>> \in Seq(Stacked)
  OBVIOUS
<1> QED BY <1>1, EmptyAgrees DEF Init, IInv, Reading, IsTable, Statuses

\* One file has just been opened.
LEMMA PlainNew == ASSUME NEW w  PROVE <<NewFile>> \in Seq(FileRecs) /\ Plain(w, <<NewFile>>, <<>>)
<1>1. NewFile \in FileRecs /\ NewFile.now = NoTag /\ NewFile.opened = 0 /\ NewFile.active
  BY DEF NewFile, FileRecs, Nows
<1>2. NoTag.type # "FILESPEC"
  BY DEF NoTag
<1> QED BY <1>1, <1>2 DEF Plain, Applies

\* The file being read after a tag.
LEMMA AfterTagIs ==
  ASSUME files \in Seq(FileRecs), files # <<>>, NEW n \in Nat, NEW s, NEW now \in Nows,
         AfterTag(n, s, now)
  PROVE  /\ files' \in Seq(FileRecs) /\ Len(files') = Len(files) /\ files' # <<>>
         /\ \A i \in 1 .. Len(files) - 1 : files'[i] = files[i]
         /\ files'[Len(files)].opened = n /\ files'[Len(files)].now = now
         /\ files'[Len(files)].active <=> s = <<>> \/ IsFor(who, s[Len(s)])
<1> DEFINE r == [opened |-> n, active |-> TagIsActive(s), now |-> now]
<1>1. r \in FileRecs
  BY DEF FileRecs, TagIsActive
<1>2. /\ r.opened = n /\ r.now = now
      /\ r.active <=> s = <<>> \/ IsFor(who, s[Len(s)])
  BY DEF TagIsActive, Last
<1>3. files' = [files EXCEPT ![Len(files)] = r]
  BY DEF AfterTag
<1> HIDE DEF r
<1> QED BY <1>1, <1>2, <1>3

LEMMA CurrentIs ==
  ASSUME files \in Seq(FileRecs), files # <<>>
  PROVE  /\ Len(files) \in Nat \ {0} /\ Current = files[Len(files)] /\ Current \in FileRecs
         /\ Current.opened \in Nat /\ Current.now \in Nows /\ Current.active \in BOOLEAN
<1>1. Len(files) \in Nat \ {0} /\ Len(files) \in 1 .. Len(files)
  OBVIOUS
<1>2. Current = files[Len(files)]
  BY DEF Current, Last
<1>3. files[Len(files)] \in FileRecs
  BY <1>1
<1> QED BY <1>1, <1>2, <1>3 DEF FileRecs

LEMMA OpenTagKeeps == ASSUME IInv, NEW t \in Tags, OpenTag(t)  PROVE IInv'
<1> DEFINE e == Entry(t)
<1>1. e \in Stacked /\ e \in Nows
  BY DEF Stacked, Nows
<1>2. /\ status = "read" /\ status' = status /\ who' = who /\ hash' = hash
      /\ tags' = Append(tags, e)
      /\ AfterTag(Current.opened + 1, tags', e)
      /\ written' = SaysTag(Current.now, e)
  BY DEF OpenTag, ReadLine, Keep
<1>3. files # <<>> /\ files \in Seq(FileRecs) /\ tags \in Seq(Stacked)
  BY <1>2 DEF IInv, Reading
<1>4. Current.opened + 1 \in Nat
  BY <1>3, CurrentIs
<1>5. tags' \in Seq(Stacked) /\ tags' # <<>> /\ tags'[Len(tags')] = e
  BY <1>1, <1>2, <1>3
<1>6. /\ files' \in Seq(FileRecs) /\ Len(files') = Len(files) /\ files' # <<>>
      /\ \A i \in 1 .. Len(files) - 1 : files'[i] = files[i]
      /\ files'[Len(files)].opened = Current.opened + 1
      /\ files'[Len(files)].active <=> IsFor(who, e)
      /\ files'[Len(files)].now = e
  <2> HIDE DEF e
  <2> QED BY <1>1, <1>2, <1>3, <1>4, <1>5, AfterTagIs
<1> HIDE DEF e
<1>7. CASE written.nested \/ Current.now # NoTag
  <2>1. written' = Nested
    BY <1>2, <1>7 DEF SaysTag
  <2> QED BY <1>2, <1>5, <1>6, <2>1 DEF IInv, Reading, Nested
<1>8. CASE ~written.nested /\ Current.now = NoTag
  <2>1. PICK v, d : written = [nested |-> FALSE, values |-> v, defined |-> d]
    BY <1>8 DEF IInv, Nested
  <2>2. \E f : written' = [nested |-> FALSE, values |-> v, defined |-> f]
    BY <1>2, <1>8, <2>1 DEF SaysTag
  <2>3. Plain(who, files', tags')
    BY <1>1, <1>2, <1>3, <1>6, <1>8, CurrentIs, PlainOpen DEF IInv, Reading
  <2>4. Agrees(hash', written'.values) /\ DOMAIN hash' = Keys
    BY <1>2, <1>8, <2>1, <2>2 DEF IInv
  <2> QED BY <1>2, <1>5, <1>6, <2>2, <2>3, <2>4 DEF IInv, Reading, Statuses
<1> QED BY <1>7, <1>8
LEMMA OpenBareTagKeeps == ASSUME IInv, OpenBareTag  PROVE IInv'
<1>1. BareEntry \in Nows
  BY DEF Nows
<1>2. /\ status = "read" /\ status' = status /\ who' = who /\ hash' = hash
      /\ tags' = tags
      /\ AfterTag(Current.opened + 1, tags, BareEntry)
      /\ written' = SaysTag(Current.now, BareEntry)
  BY DEF OpenBareTag, ReadLine, Keep
<1>3. files # <<>> /\ files \in Seq(FileRecs) /\ tags \in Seq(Stacked)
  BY <1>2 DEF IInv, Reading
<1>4. Current.opened + 1 \in Nat
  BY <1>3, CurrentIs
<1>6. /\ files' \in Seq(FileRecs) /\ Len(files') = Len(files) /\ files' # <<>>
      /\ \A i \in 1 .. Len(files) - 1 : files'[i] = files[i]
      /\ files'[Len(files)].opened = Current.opened + 1
      /\ files'[Len(files)].active <=> tags = <<>> \/ IsFor(who, tags[Len(tags)])
      /\ files'[Len(files)].now = BareEntry
  BY <1>1, <1>2, <1>3, <1>4, AfterTagIs
<1>7. CASE written.nested \/ Current.now # NoTag
  <2>1. written' = Nested
    BY <1>2, <1>7 DEF SaysTag
  <2> QED BY <1>2, <1>3, <1>6, <2>1 DEF IInv, Reading, Nested
<1>8. CASE ~written.nested /\ Current.now = NoTag
  <2>1. PICK v, d : written = [nested |-> FALSE, values |-> v, defined |-> d]
    BY <1>8 DEF IInv, Nested
  <2>2. \E f : written' = [nested |-> FALSE, values |-> v, defined |-> f]
    BY <1>2, <1>8, <2>1 DEF SaysTag
  <2>3. Plain(who, files', tags')
    BY <1>2, <1>3, <1>6, <1>8, CurrentIs, PlainBare DEF IInv, Reading
  <2>4. Agrees(hash', written'.values) /\ DOMAIN hash' = Keys
    BY <1>2, <1>8, <2>1, <2>2 DEF IInv
  <2> QED BY <1>2, <1>3, <1>6, <2>2, <2>3, <2>4 DEF IInv, Reading, Statuses
<1> QED BY <1>7, <1>8

\* All but the last one.
LEMMA FrontIs ==
  ASSUME NEW S, NEW s \in Seq(S), s # <<>>
  PROVE  /\ Front(s) \in Seq(S) /\ Len(Front(s)) = Len(s) - 1
         /\ \A i \in 1 .. Len(s) - 1 : Front(s)[i] = s[i]
<1> DEFINE n == Len(s) - 1
<1>1. n \in Nat /\ n \in Int /\ 1 \in Int /\ \A i \in 1 .. n : s[i] \in S
  OBVIOUS
<1>2. Front(s) = SubSeq(s, 1, n)
  BY DEF Front
<1> HIDE DEF n
<1>3. SubSeq(s, 1, n) \in Seq(S)
  BY <1>1, SubSeqProperties
<1>4. Len(SubSeq(s, 1, n)) = n
  BY <1>1, SubSeqProperties
<1>5. \A i \in 1 .. n : SubSeq(s, 1, n)[i] = s[i]
  BY <1>1
<1> QED BY <1>2, <1>3, <1>4, <1>5 DEF n

\* The stack after a closing tag.
LEMMA ClosedIs ==
  ASSUME NEW ts \in Seq(Stacked)
  PROVE  /\ TagParseClose(ts) \in Seq(Stacked)
         /\ Len(TagParseClose(ts)) = IF ts = <<>> THEN 0 ELSE Len(ts) - 1
         /\ \A i \in 1 .. Len(TagParseClose(ts)) : TagParseClose(ts)[i] = ts[i]
<1>1. CASE ts = <<>>
  BY <1>1 DEF TagParseClose
<1>2. CASE ts # <<>>
  <2>1. TagParseClose(ts) = Front(ts)
    BY <1>2 DEF TagParseClose
  <2> QED BY <1>2, <2>1, FrontIs
<1> QED BY <1>1, <1>2

LEMMA CloseTagKeeps == ASSUME IInv, CloseTag  PROVE IInv'
<1>1. CASE Current.opened = 0
  BY <1>1, ExitKeeps DEF CloseTag
<1>2. CASE Current.opened # 0
  <2> DEFINE us == TagParseClose(tags)
  <2>1. /\ status = "read" /\ status' = status /\ who' = who /\ hash' = hash
        /\ tags' = us /\ AfterTag(Current.opened - 1, us, NoTag) /\ written' = written
    BY <1>2 DEF CloseTag, ReadLine, Keep
  <2>2. files # <<>> /\ files \in Seq(FileRecs) /\ tags \in Seq(Stacked)
    BY <2>1 DEF IInv, Reading
  <2>3. Current.opened - 1 \in Nat
    BY <1>2, <2>2, CurrentIs
  <2>4. /\ us \in Seq(Stacked) /\ Len(us) = IF tags = <<>> THEN 0 ELSE Len(tags) - 1
        /\ \A i \in 1 .. Len(us) : us[i] = tags[i]
    BY <2>2, ClosedIs
  <2>5. NoTag \in Nows
    BY DEF Nows
  <2> HIDE DEF us
  <2>6. /\ files' \in Seq(FileRecs) /\ Len(files') = Len(files) /\ files' # <<>>
        /\ \A i \in 1 .. Len(files) - 1 : files'[i] = files[i]
        /\ files'[Len(files)].opened = Current.opened - 1
        /\ files'[Len(files)].active <=> us = <<>> \/ IsFor(who, us[Len(us)])
        /\ files'[Len(files)].now = NoTag
    BY <2>1, <2>2, <2>3, <2>5, AfterTagIs
  <2>7. ~written.nested => Plain(who, files', us)
    BY <1>2, <2>1, <2>2, <2>4, <2>6, CurrentIs, PlainClose DEF IInv, Reading
  <2> QED BY <2>1, <2>4, <2>6, <2>7 DEF IInv, Reading, Statuses
<1> QED BY <1>1, <1>2
LEMMA EndOfFileKeeps == ASSUME IInv, EndOfFile  PROVE IInv'
<1>1. CASE Current.opened # 0
  BY <1>1, ExitKeeps DEF EndOfFile
<1>2. CASE Current.opened = 0
  <2>1. /\ status = "read" /\ who' = who /\ hash' = hash /\ tags' = tags /\ written' = written
        /\ files' = Front(files)
        /\ status' = IF Len(files) = 1 THEN "loaded" ELSE status
    BY <1>2 DEF EndOfFile
  <2>2. files # <<>> /\ files \in Seq(FileRecs) /\ tags \in Seq(Stacked)
    BY <2>1 DEF IInv, Reading
  <2>n. Len(files) \in Nat \ {0}
    BY <2>2, CurrentIs
  <2>3. Len(files) # 1 => Len(files) > 1
    BY <2>n
  <2>4. /\ files' \in Seq(FileRecs) /\ Len(files') = Len(files) - 1
        /\ \A i \in 1 .. Len(files') : files'[i] = files[i]
    BY <2>1, <2>2, FrontIs
  <2>5. CASE Len(files) = 1
    BY <2>1, <2>2, <2>4, <2>5 DEF IInv, Reading, Statuses
  <2>6. CASE Len(files) # 1
    <3>1. ~written.nested => Plain(who, files', tags)
      BY <1>2, <2>1, <2>2, <2>3, <2>4, <2>6, CurrentIs, PlainBack DEF IInv, Reading
    <3>2. files' # <<>>
      BY <2>3, <2>4, <2>6
    <3> QED BY <2>1, <2>2, <2>4, <2>6, <3>1, <3>2 DEF IInv, Reading, Statuses
  <2> QED BY <2>5, <2>6
<1> QED BY <1>1, <1>2

\* A line of a tag that is not for the session says nothing.
LEMMA SkipWordsKeeps == ASSUME IInv, SkipWords  PROVE IInv'
<1>1. PICK w \in Words : written' = SaysWord(w, Current.now)
  BY DEF SkipWords
<1>2. /\ status = "read" /\ status' = status /\ who' = who /\ hash' = hash
      /\ tags' = tags /\ files' = files /\ ~Current.active
  BY DEF SkipWords, ReadLine, Keep
<1>3. files # <<>> /\ files \in Seq(FileRecs)
  BY <1>2 DEF IInv, Reading
<1>4. written' = written
  <2>1. CASE written.nested
    BY <1>1, <2>1 DEF SaysWord
  <2>2. CASE ~written.nested
    <3>1. ~Applies(who, Current.now)
      BY <1>2, <1>3, <2>2, CurrentIs DEF IInv, Reading, Plain
    <3>2. Current.now # NoTag /\ ~IsFor(who, Current.now) /\ Current.now.type # "FILESPEC"
      BY <3>1, EntryTypes DEF Applies
    <3> QED BY <1>1, <2>2, <3>2 DEF SaysWord
  <2> QED BY <2>1, <2>2
<1> QED BY <1>2, <1>4 DEF IInv, Reading

\* The lines of a filter.
LEMMA SpecWordsKeeps == ASSUME IInv, NEW w \in Words, SpecWords(w)  PROVE IInv'
<1>1. /\ status = "read" /\ status' = status /\ who' = who /\ hash' = hash
      /\ tags' = tags /\ files' = files /\ written' = SaysWord(w, Current.now)
      /\ tags # <<>> /\ tags[Len(tags)].type = "FILESPEC"
  BY DEF SpecWords, Active, ReadLine, Keep, TagIsOpen, Last
<1>2. files # <<>> /\ files \in Seq(FileRecs) /\ tags \in Seq(Stacked)
  BY <1>1 DEF IInv, Reading
<1>3. CASE written.nested
  <2>1. written' = written
    BY <1>1, <1>3 DEF SaysWord
  <2> QED BY <1>1, <2>1 DEF IInv, Reading
<1>4. CASE ~written.nested
  <2>1. PICK v, d : written = [nested |-> FALSE, values |-> v, defined |-> d]
    BY <1>4 DEF IInv, Nested
  <2>2. Len(tags) \in 1 .. Len(tags)
    BY <1>1, <1>2
  <2>3. Current.now.type = "FILESPEC"
    BY <1>1, <1>2, <1>4, <2>2, CurrentIs DEF IInv, Reading, Plain
  <2>4. \E f : written' = [nested |-> FALSE, values |-> v, defined |-> f]
    BY <1>1, <1>4, <2>1, <2>3 DEF SaysWord
  <2>5. Agrees(hash', written'.values)
    BY <1>1, <1>4, <2>1, <2>4 DEF IInv
  <2> QED BY <1>1, <1>4, <2>1, <2>4, <2>5 DEF IInv, Reading
<1> QED BY <1>3, <1>4

\* A parameter: the table follows what is said.
LEMMA ParamWordsKeeps == ASSUME IInv, NEW w \in Words, ParamWords(w)  PROVE IInv'
<1>1. /\ status = "read" /\ status' = status /\ who' = who /\ hash' = processLine(hash, w)
      /\ tags' = tags /\ files' = files /\ written' = SaysWord(w, Current.now)
      /\ Current.active
      /\ ~(tags # <<>> /\ tags[Len(tags)].type = "FILESPEC")
  BY DEF ParamWords, Active, ReadLine, Keep, TagIsOpen, Last
<1>2. files # <<>> /\ files \in Seq(FileRecs) /\ tags \in Seq(Stacked)
  BY <1>1 DEF IInv, Reading
<1>3. CASE written.nested
  <2>1. written' = written
    BY <1>1, <1>3 DEF SaysWord
  <2>2. DOMAIN hash' = Keys
    BY <1>1, LineTable DEF IInv, IsTable
  <2> QED BY <1>1, <1>3, <2>1, <2>2 DEF IInv, Reading
<1>4. CASE ~written.nested
  <2>1. PICK v, d : written = [nested |-> FALSE, values |-> v, defined |-> d]
    BY <1>4 DEF IInv, Nested
  <2>3. Applies(who, Current.now) /\ Current.now.type # "FILESPEC"
    BY <1>1, <1>2, <1>4, CurrentIs DEF IInv, Reading, Plain
  <2>4. written' = [nested |-> FALSE, values |-> Gives(w, v), defined |-> d]
    <3>1. written' = [written EXCEPT !.values = Gives(w, v)]
      <4>1. written' = [written EXCEPT !.values =
              [k \in Keys |-> IF GivenTo(w, k) = None THEN written.values[k] ELSE GivenTo(w, k)]]
        BY <1>1, <1>4, <2>3 DEF SaysWord, Applies
      <4> QED BY <4>1, <2>1 DEF Gives
    <3> QED BY <2>1, <3>1
  <2>5. IsTable(processLine(hash, w)) /\ Agrees(processLine(hash, w), Gives(w, v))
    BY <1>1, <1>4, <2>1, LineAgrees DEF IInv, IsTable
  <2>6. Agrees(hash', written'.values) /\ DOMAIN hash' = Keys
    BY <1>1, <2>4, <2>5 DEF IsTable
  <2> QED BY <1>1, <1>4, <2>4, <2>6 DEF IInv, Reading
<1> QED BY <1>3, <1>4

LEMMA IncludeKeeps == ASSUME IInv, Include  PROVE IInv'
<1>1. /\ status = "read" /\ status' = status /\ who' = who /\ hash' = hash
      /\ tags' = tags /\ written' = written /\ Current.active
      /\ files' = Append(files, NewFile) \/ files' = files
      /\ ~(tags # <<>> /\ tags[Len(tags)].type = "FILESPEC")
  BY DEF Include, Active, ReadLine, Keep, TagIsOpen, Last
<1>2. files # <<>> /\ files \in Seq(FileRecs) /\ tags \in Seq(Stacked)
  BY <1>1 DEF IInv, Reading
<1>3. NewFile \in FileRecs
  BY DEF NewFile, FileRecs, Nows
<1>4. files' \in Seq(FileRecs) /\ files' # <<>>
  BY <1>1, <1>2, <1>3
<1>5. ~written.nested => Plain(who, files', tags)
  BY <1>1, <1>2, CurrentIs, PlainInclude DEF IInv, Reading
<1> QED BY <1>1, <1>4, <1>5 DEF IInv, Reading
LEMMA LoadConfigKeeps == ASSUME IInv, LoadConfig  PROVE IInv'
<1>1. CASE Exit
  BY <1>1, ExitKeeps
<1>2. CASE status' = "open" /\ UNCHANGED <<tried, files, tags, hash, allSpecs, written>>
  BY <1>2 DEF LoadConfig, IInv, Reading, Statuses
<1> QED BY <1>1, <1>2 DEF LoadConfig

LEMMA OpenConfigKeeps == ASSUME IInv, OpenConfig  PROVE IInv'
<1>0. status = "open" /\ who' = who
  BY DEF OpenConfig
<1>1. CASE Exit
  BY <1>1, ExitKeeps
<1>2. CASE files' = <<NewFile>> /\ status' = "read" /\ UNCHANGED <<tags, hash, allSpecs, written>>
  <2>1. /\ hash' = EmptyHash /\ written' = NothingSaid /\ tags' = <<>>
    BY <1>0, <1>2 DEF IInv
  <2>2. files' # <<>>
    BY <1>2
  <2>3. tags' \in Seq(Stacked)
    BY <2>1
  <2> QED BY <1>0, <1>2, <2>1, <2>2, <2>3, PlainNew, EmptyAgrees
         DEF IInv, Reading, Statuses, IsTable
<1>3. CASE UNCHANGED <<status, files, tags, hash, allSpecs, written>>
  BY <1>0, <1>3 DEF IInv, Reading
<1> QED BY <1>1, <1>2, <1>3 DEF OpenConfig

LEMMA SettleKeeps == ASSUME IInv, Settle  PROVE IInv'
<1>1. /\ status' = "ready" /\ hash' = EmptyHash
      /\ UNCHANGED <<who, files, tags, written>>
  BY DEF Settle
<1> QED BY <1>1, EmptyAgrees DEF IInv, Reading, Statuses, IsTable

LEMMA NextKeeps == ASSUME IInv, [Next]_vars  PROVE IInv'
<1>1. CASE LoadConfig
  BY <1>1, LoadConfigKeeps
<1>2. CASE OpenConfig
  BY <1>2, OpenConfigKeeps
<1>3. ASSUME NEW t \in Tags, OpenTag(t)  PROVE IInv'
  BY <1>3, OpenTagKeeps
<1>4. CASE OpenBareTag
  BY <1>4, OpenBareTagKeeps
<1>5. CASE CloseTag
  BY <1>5, CloseTagKeeps
<1>6. CASE BadTag
  BY <1>6, ExitKeeps DEF BadTag
<1>7. CASE SkipWords
  BY <1>7, SkipWordsKeeps
<1>8. ASSUME NEW w \in Words, SpecWords(w)  PROVE IInv'
  BY <1>8, SpecWordsKeeps
<1>9. ASSUME NEW w \in Words, ParamWords(w)  PROVE IInv'
  BY <1>9, ParamWordsKeeps
<1>10. CASE Include
  BY <1>10, IncludeKeeps
<1>11. CASE EndOfFile
  BY <1>11, EndOfFileKeeps
<1>12. CASE Settle
  BY <1>12, SettleKeeps
<1>13. CASE UNCHANGED vars
  BY <1>13 DEF vars, IInv, Reading
<1> QED BY <1>1, <1>2, <1>3, <1>4, <1>5, <1>6, <1>7, <1>8, <1>9, <1>10, <1>11, <1>12, <1>13
       DEF Next

THEOREM Invariant == Spec => []IInv
<1>1. Init => IInv
  BY InitIInv
<1>2. IInv /\ [Next]_vars => IInv'
  BY NextKeeps
<1> QED BY <1>1, <1>2, PTL DEF Spec

\* A parameter has the value of the last line that gives it one, among those
\* that are for the session (load_config_file, TagParse, processLine).
THEOREM ValueIsLast == Spec => []ValueIsLastApplicable
<1>1. IInv => ValueIsLastApplicable
  BY DEF IInv, Agrees, ValueIsLastApplicable
<1> QED BY <1>1, Invariant, PTL

-----------------------------------------------------------------------------
(* The stack of tags. The tags of a file are counted by this file, and the *)
(* stack is common to the files: the number of tags on it is at most the   *)
(* sum of what the files have counted. The partial sums are f.             *)

Counts(fs, ts) ==
  \E f \in [0 .. Len(fs) -> Nat] :
    /\ f[0] = 0
    /\ \A i \in 1 .. Len(fs) : f[i] = f[i - 1] + fs[i].opened
    /\ Len(ts) <= f[Len(fs)]

Counted ==
  /\ status # "read" => tags = <<>>
  /\ status = "read" => Counts(files, tags)

\* One tag more, or one less.
LEMMA CountsTag ==
  ASSUME NEW fs \in Seq(FileRecs), fs # <<>>, NEW ts \in Seq(Stacked), Counts(fs, ts),
         NEW gs \in Seq(FileRecs), Len(gs) = Len(fs),
         \A i \in 1 .. Len(fs) - 1 : gs[i] = fs[i],
         NEW us \in Seq(Stacked), Len(us) = 0 \/
           Len(us) - Len(ts) <= gs[Len(fs)].opened - fs[Len(fs)].opened
  PROVE  Counts(gs, us)
<1> DEFINE n == Len(fs)
<1>a. n \in Nat \ {0} /\ Len(ts) \in Nat /\ Len(us) \in Nat
  OBVIOUS
<1>b. \A i \in 1 .. n : fs[i] \in FileRecs /\ gs[i] \in FileRecs
  OBVIOUS
<1>0. n \in Nat \ {0} /\ Len(ts) \in Nat /\ Len(us) \in Nat
      /\ \A i \in 1 .. n : fs[i].opened \in Nat /\ gs[i].opened \in Nat
  BY <1>a, <1>b DEF FileRecs
<1>1. PICK f \in [0 .. n -> Nat] :
        /\ f[0] = 0
        /\ \A i \in 1 .. n : f[i] = f[i - 1] + fs[i].opened
        /\ Len(ts) <= f[n]
  BY DEF Counts
<1> DEFINE last == f[n - 1] + gs[n].opened
           g == [f EXCEPT ![n] = last]
<1>2. n - 1 \in 0 .. n /\ n \in 0 .. n /\ n \in 1 .. n /\ 0 \in 0 .. n /\ 0 # n
  BY <1>0
<1>3. f[n - 1] \in Nat /\ gs[n].opened \in Nat /\ fs[n].opened \in Nat
      /\ f[n] = f[n - 1] + fs[n].opened
  BY <1>0, <1>1, <1>2
<1>c. last \in Nat /\ last = f[n - 1] + gs[n].opened
  BY <1>3
<1> HIDE DEF n, last
<1>d. g \in [0 .. n -> Nat] /\ g[0] = 0 /\ g[n] = last
  BY <1>1, <1>2, <1>c
<1>4. g \in [0 .. n -> Nat] /\ g[0] = 0 /\ g[n] = f[n - 1] + gs[n].opened
  BY <1>c, <1>d
<1>5. \A i \in 1 .. n : g[i] = g[i - 1] + gs[i].opened
  <2>1. ASSUME NEW i \in 1 .. n  PROVE g[i] = g[i - 1] + gs[i].opened
    <3>1. i - 1 \in 0 .. n /\ i \in 0 .. n /\ i - 1 # n
      BY <1>0
    <3>2. CASE i = n
      BY <1>1, <1>2, <1>4, <3>1, <3>2
    <3>3. CASE i # n
      <4>1. i \in 1 .. n - 1
        BY <1>0, <3>3
      <4>2. g[i] = f[i] /\ g[i - 1] = f[i - 1]
        BY <1>1, <3>1, <3>3
      <4>3. gs[i] = fs[i]
        BY <4>1 DEF n
      <4> QED BY <1>1, <4>2, <4>3
    <3> QED BY <3>2, <3>3
  <2> QED BY <2>1
<1> HIDE DEF g
<1>6. Len(us) <= g[n]
  <2>1. CASE Len(us) = 0
    BY <1>3, <1>4, <2>1
  <2>2. CASE Len(us) - Len(ts) <= gs[n].opened - fs[n].opened
    <3> DEFINE a == Len(us)
               b == Len(ts)
               x == f[n - 1]
               y == fs[n].opened
               z == gs[n].opened
    <3>1. a \in Nat /\ b \in Nat /\ x \in Nat /\ y \in Nat /\ z \in Nat
      BY <1>0, <1>3
    <3>2. b <= x + y
      BY <1>1, <1>3
    <3>3. a - b <= z - y
      BY <2>2
    <3>4. g[n] = x + z
      BY <1>4
    <3> HIDE DEF a, b, x, y, z
    <3>5. a <= x + z
      BY <3>1, <3>2, <3>3
    <3> QED BY <3>4, <3>5 DEF a
  <2> QED BY <2>1, <2>2 DEF n
<1> QED BY <1>4, <1>5, <1>6 DEF Counts, n

\* One file more.
LEMMA CountsInclude ==
  ASSUME NEW fs \in Seq(FileRecs), NEW ts \in Seq(Stacked), Counts(fs, ts)
  PROVE  Counts(Append(fs, NewFile), ts)
<1> DEFINE n == Len(fs)
           gs == Append(fs, NewFile)
<1>1. PICK f \in [0 .. n -> Nat] :
        /\ f[0] = 0
        /\ \A i \in 1 .. n : f[i] = f[i - 1] + fs[i].opened
        /\ Len(ts) <= f[n]
  BY DEF Counts
<1>2. n \in Nat /\ Len(gs) = n + 1 /\ gs[n + 1] = NewFile /\ \A i \in 1 .. n : gs[i] = fs[i]
  OBVIOUS
<1>3. NewFile.opened = 0
  BY DEF NewFile
<1> DEFINE g == [i \in 0 .. n + 1 |-> IF i = n + 1 THEN f[n] ELSE f[i]]
<1> HIDE DEF n, gs
<1>4. g \in [0 .. n + 1 -> Nat] /\ g[0] = 0 /\ g[n + 1] = f[n]
  BY <1>1, <1>2
<1>5. \A i \in 1 .. n + 1 : g[i] = g[i - 1] + gs[i].opened
  <2>1. ASSUME NEW i \in 1 .. n + 1  PROVE g[i] = g[i - 1] + gs[i].opened
    <3>1. CASE i = n + 1
      <4>1. g[i] = f[n] /\ g[i - 1] = f[n] /\ f[n] \in Nat
        BY <1>1, <1>2, <3>1
      <4> QED BY <1>2, <1>3, <3>1, <4>1
    <3>2. CASE i # n + 1
      <4>1. i \in 1 .. n /\ i - 1 # n + 1 /\ i - 1 \in 0 .. n + 1
        BY <1>2, <3>2
      <4>2. g[i] = f[i] /\ g[i - 1] = f[i - 1]
        BY <3>2, <4>1, <1>2
      <4> QED BY <1>1, <1>2, <4>1, <4>2
    <3> QED BY <3>1, <3>2
  <2> QED BY <2>1
<1> HIDE DEF g
<1>6. Counts(gs, ts)
  BY <1>1, <1>2, <1>4, <1>5 DEF Counts
<1> QED BY <1>6 DEF gs

\* One file less.
LEMMA CountsBack ==
  ASSUME NEW fs \in Seq(FileRecs), NEW ts \in Seq(Stacked), Counts(fs, ts),
         Len(fs) # 0, fs[Len(fs)].opened = 0,
         NEW gs \in Seq(FileRecs), Len(gs) = Len(fs) - 1,
         \A i \in 1 .. Len(gs) : gs[i] = fs[i]
  PROVE  Counts(gs, ts) /\ (Len(gs) = 0 => ts = <<>>)
<1> DEFINE n == Len(fs)
<1>1. PICK f \in [0 .. n -> Nat] :
        /\ f[0] = 0
        /\ \A i \in 1 .. n : f[i] = f[i - 1] + fs[i].opened
        /\ Len(ts) <= f[n]
  BY DEF Counts
<1>2. n \in Nat \ {0} /\ n \in 1 .. n /\ n - 1 \in Nat /\ n - 1 \in 0 .. n
  OBVIOUS
<1>3. f[n] = f[n - 1] + 0 /\ f[n - 1] \in Nat
  BY <1>1, <1>2
<1> HIDE DEF n
<1> DEFINE g == [i \in 0 .. n - 1 |-> f[i]]
<1>4. g \in [0 .. n - 1 -> Nat] /\ g[0] = 0 /\ g[n - 1] = f[n]
  BY <1>1, <1>2, <1>3
<1>5. \A i \in 1 .. n - 1 : g[i] = g[i - 1] + gs[i].opened
  BY <1>1, <1>2 DEF n
<1>6. n - 1 = 0 => Len(ts) = 0
  BY <1>1, <1>3
<1> HIDE DEF g
<1>7. Len(gs) = n - 1 /\ Len(ts) <= g[n - 1]
  BY <1>1, <1>4 DEF n
<1>8. Counts(gs, ts)
  BY <1>4, <1>5, <1>7 DEF Counts
<1>9. Len(ts) = 0 => ts = <<>>
  OBVIOUS
<1> QED BY <1>6, <1>7, <1>8, <1>9
LEMMA CountedInit == Init => Counted
BY DEF Init, Counted

LEMMA CountedNext == ASSUME IInv, Counted, [Next]_vars  PROVE Counted'
<1>0. status = "read" =>
        files # <<>> /\ files \in Seq(FileRecs) /\ tags \in Seq(Stacked)
  BY DEF IInv, Reading
<1>e. Exit => Counted'
  BY DEF Exit, Counted
<1>1. CASE LoadConfig
  BY <1>1, <1>e DEF LoadConfig, Counted
<1>2. CASE OpenConfig
  <2>1. CASE files' = <<NewFile>> /\ status' = "read" /\ UNCHANGED <<tags, hash, allSpecs, written>>
    <3>1. tags' = <<>>
      BY <1>2, <2>1 DEF OpenConfig, Counted
    <3>2. Counts(<<NewFile>>, <<>>)
      <4> DEFINE f == [i \in 0 .. 1 |-> 0]
      <4>1. /\ f \in [0 .. Len(<<NewFile>>) -> Nat] /\ f[0] = 0
            /\ \A i \in 1 .. Len(<<NewFile>>) : f[i] = f[i - 1] + <<NewFile>>[i].opened
            /\ Len(<<>>) <= f[Len(<<NewFile>>)]
        BY DEF NewFile
      <4> HIDE DEF f
      <4> QED BY <4>1 DEF Counts
    <3> QED BY <2>1, <3>1, <3>2 DEF Counted
  <2> QED BY <1>2, <1>e, <2>1 DEF OpenConfig, Counted
<1>3. ASSUME NEW t \in Tags, OpenTag(t)  PROVE Counted'
  <2> DEFINE e == Entry(t)
  <2>1. e \in Stacked /\ e \in Nows
    BY DEF Stacked, Nows
  <2>2. /\ status = "read" /\ status' = status /\ tags' = Append(tags, e)
        /\ AfterTag(Current.opened + 1, tags', e)
    BY <1>3 DEF OpenTag, ReadLine, Keep
  <2> HIDE DEF e
  <2>3. Current.opened + 1 \in Nat /\ Current.opened = files[Len(files)].opened
        /\ Current.opened \in Nat
    BY <1>0, <2>2, CurrentIs
  <2>4. tags' \in Seq(Stacked) /\ Len(tags') - Len(tags) = 1
    BY <1>0, <2>1, <2>2
  <2>5. /\ files' \in Seq(FileRecs) /\ Len(files') = Len(files)
        /\ \A i \in 1 .. Len(files) - 1 : files'[i] = files[i]
        /\ files'[Len(files)].opened = Current.opened + 1
    BY <1>0, <2>1, <2>2, <2>3, AfterTagIs
  <2>6. Len(tags') - Len(tags) <= files'[Len(files)].opened - files[Len(files)].opened
    BY <2>3, <2>4, <2>5
  <2> QED BY <1>0, <2>2, <2>4, <2>5, <2>6, CountsTag DEF Counted
<1>4. CASE OpenBareTag
  <2>1. BareEntry \in Nows
    BY DEF Nows
  <2>2. /\ status = "read" /\ status' = status /\ tags' = tags
        /\ AfterTag(Current.opened + 1, tags, BareEntry)
    BY <1>4 DEF OpenBareTag, ReadLine, Keep
  <2>3. Current.opened + 1 \in Nat /\ Current.opened = files[Len(files)].opened
        /\ Current.opened \in Nat
    BY <1>0, <2>2, CurrentIs
  <2>4. tags' \in Seq(Stacked) /\ Len(tags') - Len(tags) = 0
    BY <1>0, <2>2
  <2>5. /\ files' \in Seq(FileRecs) /\ Len(files') = Len(files)
        /\ \A i \in 1 .. Len(files) - 1 : files'[i] = files[i]
        /\ files'[Len(files)].opened = Current.opened + 1
    BY <1>0, <2>1, <2>2, <2>3, AfterTagIs
  <2>6. Len(tags') - Len(tags) <= files'[Len(files)].opened - files[Len(files)].opened
    BY <2>3, <2>4, <2>5
  <2> QED BY <1>0, <2>2, <2>4, <2>5, <2>6, CountsTag DEF Counted
<1>5. CASE CloseTag
  <2>1. CASE Current.opened = 0
    BY <1>5, <2>1, <1>e DEF CloseTag
  <2>2. CASE Current.opened # 0
    <3>1. /\ status = "read" /\ status' = status /\ tags' = TagParseClose(tags)
          /\ AfterTag(Current.opened - 1, TagParseClose(tags), NoTag)
      BY <1>5, <2>2 DEF CloseTag, ReadLine, Keep
    <3>2. Current.opened - 1 \in Nat /\ Current.opened = files[Len(files)].opened
          /\ Current.opened \in Nat
      BY <1>0, <2>2, <3>1, CurrentIs
    <3>3. tags' \in Seq(Stacked) /\ Len(tags') = IF tags = <<>> THEN 0 ELSE Len(tags) - 1
      BY <1>0, <3>1, ClosedIs
    <3>4. NoTag \in Nows
      BY DEF Nows
    <3>5. /\ files' \in Seq(FileRecs) /\ Len(files') = Len(files)
          /\ \A i \in 1 .. Len(files) - 1 : files'[i] = files[i]
          /\ files'[Len(files)].opened = Current.opened - 1
      BY <1>0, <3>1, <3>2, <3>4, AfterTagIs
    <3>6. Len(tags) \in Nat
      BY <1>0, <3>1
    <3>7. Len(tags') = 0 \/
          Len(tags') - Len(tags) <= files'[Len(files)].opened - files[Len(files)].opened
      BY <3>2, <3>3, <3>5, <3>6
    <3> QED BY <1>0, <3>1, <3>3, <3>5, <3>7, CountsTag DEF Counted
  <2> QED BY <2>1, <2>2
<1>6. CASE BadTag
  BY <1>6, <1>e DEF BadTag
<1>7. CASE SkipWords
  BY <1>7 DEF SkipWords, ReadLine, Keep, Counted
<1>8. ASSUME NEW w \in Words, SpecWords(w) \/ ParamWords(w)  PROVE Counted'
  BY <1>8 DEF SpecWords, ParamWords, Active, ReadLine, Keep, Counted
<1>9. CASE Include
  <2>1. /\ status = "read" /\ status' = status /\ tags' = tags
        /\ files' = Append(files, NewFile) \/ files' = files
    BY <1>9 DEF Include, Active, ReadLine, Keep
  <2> QED BY <1>0, <2>1, CountsInclude DEF Counted
<1>10. CASE EndOfFile
  <2>1. CASE Current.opened # 0
    BY <1>10, <2>1, <1>e DEF EndOfFile
  <2>2. CASE Current.opened = 0
    <3>1. /\ status = "read" /\ tags' = tags /\ files' = Front(files)
          /\ status' = IF Len(files) = 1 THEN "loaded" ELSE status
      BY <1>10, <2>2 DEF EndOfFile
    <3>2. /\ files' \in Seq(FileRecs) /\ Len(files') = Len(files) - 1
          /\ \A i \in 1 .. Len(files') : files'[i] = files[i]
      BY <1>0, <3>1, FrontIs
    <3>3. Len(files) # 0 /\ files[Len(files)].opened = 0
      BY <1>0, <2>2, <3>1, CurrentIs
    <3>4. Counts(files', tags) /\ (Len(files') = 0 => tags = <<>>)
      BY <1>0, <3>1, <3>2, <3>3, CountsBack DEF Counted
    <3>5. Len(files) \in Nat
      BY <1>0, <3>1
    <3> QED BY <3>1, <3>2, <3>4, <3>5 DEF Counted
  <2> QED BY <2>1, <2>2
<1>11. CASE Settle
  BY <1>11 DEF Settle, Counted
<1>12. CASE UNCHANGED vars
  BY <1>12 DEF vars, Counted
<1> QED BY <1>1, <1>2, <1>3, <1>4, <1>5, <1>6, <1>7, <1>8, <1>9, <1>10, <1>11, <1>12 DEF Next

\* The stack is empty when the configuration is loaded, although a closing
\* tag takes whatever is there (TagParseClose, load_config_file).
THEOREM StackEmpty == Spec => []NothingLeftOpen
<1>1. Init => Counted
  BY CountedInit
<1>2. IInv /\ Counted /\ [Next]_vars => Counted'
  BY CountedNext
<1>3. Counted => NothingLeftOpen
  BY DEF Counted, NothingLeftOpen
<1> QED BY <1>1, <1>2, <1>3, Invariant, PTL DEF Spec
-----------------------------------------------------------------------------
(* Ranges of addresses.                                                    *)

LEMMA SignedOrder ==
  /\ \A a, b \in Byte : SignedChar(a) <= SignedChar(b) /\ SignedChar(b) <= SignedChar(a) => a = b
  /\ \A a, b \in Byte : (a < 128 <=> b < 128) => (SignedChar(a) <= SignedChar(b) <=> a <= b)
  /\ \A a, b, c \in Byte : (a < 128 <=> c < 128)
        /\ SignedChar(a) <= SignedChar(b) /\ SignedChar(b) <= SignedChar(c) => (a < 128 <=> b < 128)
  /\ \A a \in Byte : a % 256 = a
  /\ \A a \in Byte : SignedChar(a) <= SignedChar(a)
<1>1. \A a, b \in Byte : SignedChar(a) <= SignedChar(b) /\ SignedChar(b) <= SignedChar(a) => a = b
  BY DEF SignedChar, Byte
<1>2. \A a, b \in Byte : (a < 128 <=> b < 128) => (SignedChar(a) <= SignedChar(b) <=> a <= b)
  BY DEF SignedChar, Byte
<1>3. \A a, b, c \in Byte : (a < 128 <=> c < 128)
        /\ SignedChar(a) <= SignedChar(b) /\ SignedChar(b) <= SignedChar(c) => (a < 128 <=> b < 128)
  BY DEF SignedChar, Byte
<1>4. \A a \in Byte : a % 256 = a
  BY DEF Byte
<1>5. \A a \in Byte : SignedChar(a) <= SignedChar(a)
  BY DEF SignedChar, Byte
<1> QED BY <1>1, <1>2, <1>3, <1>4, <1>5

LEMMA BytesAre ==
  ASSUME NEW nums \in Seq(Byte)
  PROVE  /\ Len(nums) >= 4 =>
              nums[1] \in Byte /\ nums[2] \in Byte /\ nums[3] \in Byte /\ nums[4] \in Byte
         /\ Len(nums) >= 5 => nums[5] \in Byte
         /\ Len(nums) >= 8 => nums[6] \in Byte /\ nums[7] \in Byte /\ nums[8] \in Byte
<1>1. \A i \in 1 .. Len(nums) : nums[i] \in Byte
  OBVIOUS
<1>2. Len(nums) \in Nat
  OBVIOUS
<1>3. \A n \in Nat : n >= 4 => 1 \in 1 .. n /\ 2 \in 1 .. n /\ 3 \in 1 .. n /\ 4 \in 1 .. n
  OBVIOUS
<1>4. \A n \in Nat : n >= 5 => 5 \in 1 .. n
  OBVIOUS
<1>5. \A n \in Nat : n >= 8 => 6 \in 1 .. n /\ 7 \in 1 .. n /\ 8 \in 1 .. n
  OBVIOUS
<1> QED BY <1>1, <1>2, <1>3, <1>4, <1>5

\* Four numbers are stored as they are.
LEMMA AddressIs ==
  ASSUME NEW nums \in Seq(Byte), Len(nums) = 4
  PROVE  LET m == TagParseRangeIP(nums)
         IN /\ m[0] = nums[1] /\ m[1] = nums[2] /\ m[2] = nums[3] /\ m[3] = nums[4]
            /\ m[4] = nums[1] /\ m[5] = nums[2] /\ m[6] = nums[3] /\ m[7] = nums[4]
            /\ m[8] = 32
<1>1. nums[1] \in Byte /\ nums[2] \in Byte /\ nums[3] \in Byte /\ nums[4] \in Byte
  BY BytesAre
<1>2. LastPosition(nums) = 3
  BY DEF LastPosition
<1>3. /\ Stored(nums, 0) = nums[1] /\ Stored(nums, 1) = nums[2]
      /\ Stored(nums, 2) = nums[3] /\ Stored(nums, 3) = nums[4]
  BY DEF Stored
<1>4. /\ MaskByte(nums, 0) = nums[1] /\ MaskByte(nums, 1) = nums[2]
      /\ MaskByte(nums, 2) = nums[3] /\ MaskByte(nums, 3) = nums[4]
  BY <1>1, <1>2, <1>3, SignedOrder DEF MaskByte
<1>5. /\ MaskByte(nums, 4) = nums[1] /\ MaskByte(nums, 5) = nums[2]
      /\ MaskByte(nums, 6) = nums[3] /\ MaskByte(nums, 7) = nums[4]
  BY <1>1, <1>2, <1>3, SignedOrder DEF MaskByte
<1>6. MaskByte(nums, 8) = 32
  BY <1>2 DEF MaskByte
<1> QED BY <1>4, <1>5, <1>6 DEF TagParseRangeIP, Positions

\* A documented form has its ends where ReadAs looks for them.
LEMMA RangeIs ==
  ASSUME NEW nums \in Seq(Byte), Documented(nums)
  PROVE  LET m == TagParseRangeIP(nums)
             e == End(nums)
         IN /\ m[0] = nums[1] /\ m[1] = nums[2] /\ m[2] = nums[3] /\ m[3] = nums[4]
            /\ m[4] = e[1] /\ m[5] = e[2] /\ m[6] = e[3] /\ m[7] = e[4]
            /\ e[1] \in Byte /\ e[2] \in Byte /\ e[3] \in Byte /\ e[4] \in Byte
            /\ m[8] = 32
<1> DEFINE m == TagParseRangeIP(nums)
<1>1. \A i \in 0 .. 7 : m[i] = MaskByte(nums, i)
  BY DEF TagParseRangeIP, Positions
<1>2. Len(nums) \in {5, 8, 10}
  BY DEF Documented
<1>3. nums[1] \in Byte /\ nums[2] \in Byte /\ nums[3] \in Byte /\ nums[4] \in Byte
      /\ nums[5] \in Byte
  BY <1>2, BytesAre
<1>4. \A i \in 0 .. 7 : Stored(nums, i) = nums[i + 1]
  BY DEF Stored
<1>5. LastPosition(nums) \in {4, 7, 8} /\ (Len(nums) = 5 <=> LastPosition(nums) = 4)
  <2>1. CASE Len(nums) = 5  BY <2>1 DEF LastPosition
  <2>2. CASE Len(nums) = 8  BY <2>2 DEF LastPosition
  <2>3. CASE Len(nums) = 10 BY <2>3 DEF LastPosition
  <2> QED BY <1>2, <2>1, <2>2, <2>3
<1>6. \A i \in 0 .. 4 : MaskByte(nums, i) = nums[i + 1] % 256
  BY <1>4, <1>5 DEF MaskByte
<1>7. m[0] = nums[1] /\ m[1] = nums[2] /\ m[2] = nums[3] /\ m[3] = nums[4] /\ m[4] = nums[5]
  <2> HIDE DEF m
  <2>1. /\ m[0] = nums[1] % 256 /\ m[1] = nums[2] % 256 /\ m[2] = nums[3] % 256
        /\ m[3] = nums[4] % 256 /\ m[4] = nums[5] % 256
    BY <1>1, <1>6
  <2> QED BY <1>3, <2>1, SignedOrder
<1>8. CASE Len(nums) = 5
  <2>1. End(nums) = <<nums[5], nums[2], nums[3], nums[4]>>
    BY <1>8 DEF End
  <2>2. /\ MaskByte(nums, 5) = nums[2] % 256 /\ MaskByte(nums, 6) = nums[3] % 256
        /\ MaskByte(nums, 7) = nums[4] % 256
    <3>1. LastPosition(nums) = 4
      BY <1>5, <1>8
    <3> QED BY <1>4, <3>1 DEF MaskByte
  <2>3. MaskByte(nums, 8) = 32
    BY <1>5, <1>8 DEF MaskByte
  <2>4. m[8] = 32
    BY <2>3 DEF TagParseRangeIP, Positions, SignedChar
  <2> HIDE DEF m
  <2>5. m[5] = nums[2] /\ m[6] = nums[3] /\ m[7] = nums[4]
    BY <1>1, <1>3, <2>2, SignedOrder
  <2> QED BY <1>3, <1>7, <2>1, <2>4, <2>5 DEF m
<1>9. CASE Len(nums) # 5
  <2>1. nums[6] \in Byte /\ nums[7] \in Byte /\ nums[8] \in Byte
    BY <1>2, <1>9, BytesAre
  <2>2. /\ End(nums)[1] = nums[5] /\ End(nums)[2] = nums[6]
        /\ End(nums)[3] = nums[7] /\ End(nums)[4] = nums[8]
    <3>1. \A i \in 1 .. 4 : SubSeq(nums, 5, 8)[i] = nums[5 + i - 1]
      BY <1>2, <1>9
    <3> QED BY <1>9, <3>1 DEF End
  <2>3. /\ MaskByte(nums, 5) = nums[6] % 256 /\ MaskByte(nums, 6) = nums[7] % 256
        /\ MaskByte(nums, 7) = nums[8] % 256
    BY <1>4, <1>5, <1>9 DEF MaskByte
  <2>4. m[8] = 32
    <3>1. CASE Len(nums) = 10
      BY <3>1 DEF Documented
    <3>2. CASE Len(nums) = 8
      <4>1. LastPosition(nums) = 7
        BY <3>2 DEF LastPosition
      <4>2. MaskByte(nums, 8) = 32
        BY <4>1 DEF MaskByte
      <4> QED BY <4>2 DEF TagParseRangeIP, Positions, SignedChar
    <3> QED BY <1>2, <1>9, <3>1, <3>2
  <2> HIDE DEF m
  <2>5. m[5] = nums[6] /\ m[6] = nums[7] /\ m[7] = nums[8]
    BY <1>1, <2>1, <2>3, SignedOrder
  <2> QED BY <1>3, <1>7, <2>1, <2>2, <2>4, <2>5 DEF m
<1> QED BY <1>8, <1>9

\* The comparison of signed characters.
LEMMA CoversIs ==
  \A x, y, z \in Byte :
    SignedChar(x) <= SignedChar(y) /\ SignedChar(y) <= SignedChar(z) <=> Covers(x, z, y)
<1> SUFFICES ASSUME NEW x \in Byte, NEW y \in Byte, NEW z \in Byte
             PROVE  SignedChar(x) <= SignedChar(y) /\ SignedChar(y) <= SignedChar(z)
                      <=> Covers(x, z, y)
  OBVIOUS
<1>0. /\ x \in Nat /\ y \in Nat /\ z \in Nat
      /\ x < 256 /\ y < 256 /\ z < 256
      /\ SignedChar(x) = IF x > 127 THEN x - 256 ELSE x
      /\ SignedChar(y) = IF y > 127 THEN y - 256 ELSE y
      /\ SignedChar(z) = IF z > 127 THEN z - 256 ELSE z
  BY DEF SignedChar, Byte
<1>1. CASE x < 128 /\ z >= 128
  <2>1. SignedChar(x) = x /\ SignedChar(z) = z - 256
    BY <1>0, <1>1
  <2>2. ~(SignedChar(x) <= SignedChar(y) /\ SignedChar(y) <= SignedChar(z))
    <3>1. SignedChar(y) \in Int
      BY <1>0
    <3>2. ~(x <= SignedChar(y) /\ SignedChar(y) <= z - 256)
      BY <1>0, <3>1
    <3> QED BY <2>1, <3>2
  <2>3. ~Covers(x, z, y)
    BY <1>0, <1>1 DEF Covers
  <2> QED BY <2>2, <2>3
<1>2. CASE x >= 128 /\ z < 128
  <2>1. Covers(x, z, y) <=> x <= y \/ y <= z
    BY <1>0, <1>2 DEF Covers
  <2>2. SignedChar(x) = x - 256 /\ SignedChar(z) = z
    BY <1>0, <1>2
  <2> QED BY <1>0, <1>2, <2>1, <2>2
<1>3. CASE ~(x < 128 /\ z >= 128) /\ ~(x >= 128 /\ z < 128)
  <2>1. Covers(x, z, y) <=> x <= y /\ y <= z
    BY <1>0, <1>3 DEF Covers
  <2> QED BY <1>0, <1>3, <2>1
<1> QED BY <1>1, <1>2, <1>3

\* For all bytes, a range is for the addresses between its ends.
LEMMA RangeIsRead ==
  ASSUME NEW nums \in Seq(Byte), Documented(nums), NEW ip \in Seq(Byte), Len(ip) = 4
  PROVE  IsForRangeIP(TagParseRangeIP(nums), ip) <=> ReadAs(nums, ip)
<1> DEFINE m == TagParseRangeIP(nums)
           b == TagParseRangeIP(ip)
           e == End(nums)
<1>1. b[0] = ip[1] /\ b[1] = ip[2] /\ b[2] = ip[3] /\ b[3] = ip[4]
  BY AddressIs
<1>2. ip[1] \in Byte /\ ip[2] \in Byte /\ ip[3] \in Byte /\ ip[4] \in Byte
  <2>1. Len(ip) >= 4
    OBVIOUS
  <2> QED BY <2>1, BytesAre
<1>3. 32 \div 8 = 4 /\ 32 % 8 = 0
  OBVIOUS
<1>4. /\ m[0] = nums[1] /\ m[1] = nums[2] /\ m[2] = nums[3] /\ m[3] = nums[4]
      /\ m[4] = e[1] /\ m[5] = e[2] /\ m[6] = e[3] /\ m[7] = e[4]
      /\ e[1] \in Byte /\ e[2] \in Byte /\ e[3] \in Byte /\ e[4] \in Byte
      /\ m[8] = 32
  BY RangeIs
<1>5. nums[1] \in Byte /\ nums[2] \in Byte /\ nums[3] \in Byte /\ nums[4] \in Byte
  BY BytesAre DEF Documented
<1>6. IsForRangeIP(m, ip) <=> \A i \in 0 .. 3 : Between(m, i, b[i])
  BY <1>3, <1>4 DEF IsForRangeIP
<1>7. ReadAs(nums, ip) <=> \A i \in 1 .. 4 : Covers(nums[i], e[i], ip[i])
  BY DEF ReadAs
<1> HIDE DEF m, b, e
<1>8. (\A i \in 0 .. 3 : Between(m, i, b[i])) <=>
        Between(m, 0, b[0]) /\ Between(m, 1, b[1]) /\ Between(m, 2, b[2]) /\ Between(m, 3, b[3])
  OBVIOUS
<1>9. (\A i \in 1 .. 4 : Covers(nums[i], e[i], ip[i])) <=>
        /\ Covers(nums[1], e[1], ip[1]) /\ Covers(nums[2], e[2], ip[2])
        /\ Covers(nums[3], e[3], ip[3]) /\ Covers(nums[4], e[4], ip[4])
  OBVIOUS
<1>10. /\ Between(m, 0, b[0]) <=> Covers(nums[1], e[1], ip[1])
       /\ Between(m, 1, b[1]) <=> Covers(nums[2], e[2], ip[2])
       /\ Between(m, 2, b[2]) <=> Covers(nums[3], e[3], ip[3])
       /\ Between(m, 3, b[3]) <=> Covers(nums[4], e[4], ip[4])
  BY <1>1, <1>2, <1>4, <1>5, CoversIs DEF Between
<1> QED BY <1>6, <1>7, <1>8, <1>9, <1>10 DEF m

\* A documented range on the stack is for the addresses between the ends that
\* ReadAs gives it, whatever its bytes (TagParseRangeIP, is_for_rangeip).
THEOREM RangesAreRead == Spec => []RangesMatch
<1>1. RangesMatch
  <2>1. ASSUME NEW t \in Tags, t.type = "RANGEIP", Documented(t.nums), NEW ip \in Addresses
        PROVE  IsForRangeIP(Entry(t).mask, ip) <=> ReadAs(t.nums, ip)
    <3>1. Entry(t).mask = TagParseRangeIP(t.nums)
      BY <2>1 DEF Entry
    <3> QED BY <2>1, <3>1, TagsAssumption, AddressesAssumption, RangeIsRead
  <2> QED BY <2>1 DEF RangesMatch
<1> QED BY <1>1, PTL

-----------------------------------------------------------------------------
(* Folds. FoldLeft and FoldRight choose a function on the sets of positions *)
(* that takes one position away at each step: there is one, and what every  *)
(* step keeps is true of its values. The induction on Nat is the one of its *)
(* well-founded order, for a set.                                           *)

\* Induction.
LEMMA SetInduction ==
  ASSUME NEW S, 0 \in S, \A n \in Nat : n \in S => n + 1 \in S
  PROVE  \A n \in Nat : n \in S
<1> DEFINE R == {ss \in Nat \X Nat : ss[1] < ss[2]}
           T == Nat \ S
<1> SUFFICES ASSUME T # {} PROVE FALSE
  OBVIOUS
<1>1. IsWellFoundedOn(R, Nat)
  BY NatLessThanWellFounded DEF OpToRel
<1>2. T \subseteq Nat
  OBVIOUS
<1> HIDE DEF R
<1>3. PICK x \in T : \A y \in T : <<y, x>> \notin R
  BY <1>1, <1>2, WFMin
<1>4. x \in Nat /\ x # 0
  OBVIOUS
<1>5. x - 1 \in Nat /\ x = (x - 1) + 1 /\ x - 1 < x
  BY <1>4
<1>6. x - 1 \notin T
  BY <1>3, <1>5 DEF R
<1> QED BY <1>5, <1>6

\* c takes a member of each part of T.
Takes(c, T) == \A s \in SUBSET T : s # {} => c[s] \in s

\* What is left has one member less.
LEMMA OneLess ==
  ASSUME NEW T, IsFiniteSet(T), NEW c, Takes(c, T), NEW s \in SUBSET T, s # {}
  PROVE  /\ s \ {c[s]} \in SUBSET T
         /\ Cardinality(s) \in Nat \ {0}
         /\ Cardinality(s \ {c[s]}) = Cardinality(s) - 1
<1>1. IsFiniteSet(s) /\ c[s] \in s
  BY FS_Subset DEF Takes
<1>2. Cardinality(s) \in Nat
  BY <1>1, FS_CardinalityType
<1>3. Cardinality(s \ {c[s]}) = Cardinality(s) - 1
  BY <1>1, FS_RemoveElement
<1>4. Cardinality(s) # 0
  BY <1>1, FS_EmptySet
<1> QED BY <1>2, <1>3, <1>4

\* Induction on the parts of a finite set.
LEMMA PartsInduction ==
  ASSUME NEW T, IsFiniteSet(T), NEW c, Takes(c, T),
         NEW G, {} \in G, \A s \in SUBSET T : s # {} /\ s \ {c[s]} \in G => s \in G
  PROVE  \A s \in SUBSET T : s \in G
<1> DEFINE D == {m \in Nat : \A s \in SUBSET T : Cardinality(s) = m => s \in G}
<1>1. 0 \in D
  <2>1. ASSUME NEW s \in SUBSET T, Cardinality(s) = 0  PROVE s \in G
    <3>1. s = {}
      BY <2>1, FS_Subset, FS_EmptySet
    <3> QED BY <3>1
  <2> QED BY <2>1
<1>2. ASSUME NEW m \in Nat, m \in D  PROVE m + 1 \in D
  <2>1. ASSUME NEW s \in SUBSET T, Cardinality(s) = m + 1  PROVE s \in G
    <3>1. s # {}
      BY <2>1, FS_EmptySet
    <3>2. s \ {c[s]} \in SUBSET T /\ Cardinality(s \ {c[s]}) = Cardinality(s) - 1
      BY <3>1, OneLess
    <3>3. Cardinality(s \ {c[s]}) = m
      BY <2>1, <3>2
    <3>4. s \ {c[s]} \in G
      BY <1>2, <3>2, <3>3
    <3> QED BY <3>1, <3>4
  <2> QED BY <2>1
<1> HIDE DEF D
<1>3. \A m \in Nat : m \in D
  BY <1>1, <1>2, SetInduction
<1>4. ASSUME NEW s \in SUBSET T  PROVE s \in G
  <2>1. Cardinality(s) \in Nat
    BY FS_Subset, FS_CardinalityType
  <2> QED BY <1>3, <2>1 DEF D
<1> QED BY <1>4

\* g folds op over the parts of T in P, from base.
Folds(g, P, c, op, base) ==
  g = [s \in P |-> IF s = {} THEN base ELSE op[<<c[s], g[s \ {c[s]}]>>]]

\* There is such a g.
LEMMA FoldsExist ==
  ASSUME NEW T, IsFiniteSet(T), NEW c, Takes(c, T), NEW op, NEW base
  PROVE  \E g : Folds(g, SUBSET T, c, op, base)
<1> DEFINE P(m) == {s \in SUBSET T : Cardinality(s) <= m}
           D == {m \in Nat : \E g : Folds(g, P(m), c, op, base)}
<1>1. 0 \in D
  <2> DEFINE g == [s \in P(0) |-> base]
  <2>1. \A s \in P(0) : s = {}
    <3>1. ASSUME NEW s \in SUBSET T, Cardinality(s) <= 0, s # {}  PROVE FALSE
      <4>1. Cardinality(s) \in Nat \ {0}
        BY <3>1, OneLess
      <4> QED BY <3>1, <4>1
    <3> QED BY <3>1
  <2>2. g = [s \in P(0) |-> IF s = {} THEN base ELSE op[<<c[s], g[s \ {c[s]}]>>]]
    BY <2>1
  <2>3. Folds(g, P(0), c, op, base)
    BY <2>2 DEF Folds
  <2> QED BY <2>3
<1>2. ASSUME NEW m \in Nat, m \in D  PROVE m + 1 \in D
  <2>1. PICK g : Folds(g, P(m), c, op, base)
    BY <1>2
  <2> DEFINE h == [s \in P(m + 1) |-> IF s = {} THEN base ELSE op[<<c[s], g[s \ {c[s]}]>>]]
  <2>2. ASSUME NEW s \in P(m + 1), s # {}  PROVE h[s \ {c[s]}] = g[s \ {c[s]}]
    <3> DEFINE r == s \ {c[s]}
    <3>1. r \in SUBSET T /\ Cardinality(s) \in Nat /\ Cardinality(r) = Cardinality(s) - 1
      BY <2>2, OneLess
    <3>2. Cardinality(s) <= m + 1
      OBVIOUS
    <3>3. Cardinality(r) <= m /\ Cardinality(r) <= m + 1
      BY <3>1, <3>2
    <3>4. r \in P(m) /\ r \in P(m + 1)
      BY <3>1, <3>3
    <3> HIDE DEF r
    <3>5. h[r] = IF r = {} THEN base ELSE op[<<c[r], g[r \ {c[r]}]>>]
      BY <3>4
    <3>6. g[r] = IF r = {} THEN base ELSE op[<<c[r], g[r \ {c[r]}]>>]
      BY <2>1, <3>4 DEF Folds
    <3> QED BY <3>5, <3>6 DEF r
  <2>3. h = [s \in P(m + 1) |-> IF s = {} THEN base ELSE op[<<c[s], h[s \ {c[s]}]>>]]
    BY <2>2
  <2>4. Folds(h, P(m + 1), c, op, base)
    BY <2>3 DEF Folds
  <2> HIDE DEF h
  <2>5. m + 1 \in Nat /\ \E f : Folds(f, P(m + 1), c, op, base)
    BY <2>4
  <2> QED BY <2>5
<1> HIDE DEF D
<1>3. \A m \in Nat : m \in D
  BY <1>1, <1>2, SetInduction
<1>4. Cardinality(T) \in Nat /\ SUBSET T = P(Cardinality(T))
  BY FS_CardinalityType, FS_Subset
<1> QED BY <1>3, <1>4 DEF D

\* The least of some positions.
LEMMA LeastIs ==
  ASSUME NEW n \in Nat, NEW s \in SUBSET (1 .. n), s # {}
  PROVE  Min(s) \in s /\ \A y \in s : Min(s) <= y
<1> DEFINE E == {m \in Nat : (\E z \in s : z <= m) => \E x \in s : \A y \in s : x <= y}
<1>1. 0 \in E
  OBVIOUS
<1>2. ASSUME NEW m \in Nat, m \in E  PROVE m + 1 \in E
  <2>1. ASSUME NEW z \in s, z <= m + 1
        PROVE  \E x \in s : \A y \in s : x <= y
    <3>1. CASE \E v \in s : v <= m
      BY <1>2, <3>1
    <3>2. CASE ~\E v \in s : v <= m
      <4>1. \A y \in s : y \in Nat /\ ~(y <= m)
        BY <3>2
      <4>2. \A y \in s : z <= y
        BY <2>1, <4>1
      <4> QED BY <4>2
    <3> QED BY <3>1, <3>2
  <2> QED BY <2>1
<1> HIDE DEF E
<1>3. PICK z \in s : z \in Nat
  <2>1. \A z \in s : z \in Nat
    OBVIOUS
  <2> QED BY <2>1
<1>4. z \in E /\ z <= z
  BY <1>1, <1>2, <1>3, SetInduction
<1>5. \E x \in s : \A y \in s : x <= y
  BY <1>3, <1>4 DEF E
<1> QED BY <1>5 DEF Min

\* The least and the greatest of the positions.
LEMMA ExtremesTaken ==
  ASSUME NEW n \in Nat
  PROVE  /\ IsFiniteSet(1 .. n)
         /\ Takes([s \in SUBSET (1 .. n) |-> Min(s)], 1 .. n)
         /\ Takes([s \in SUBSET (1 .. n) |-> Max(s)], 1 .. n)
<1>1. IsFiniteSet(1 .. n)
  BY FS_Interval
<1> DEFINE D == {m \in Nat : \A s \in SUBSET (1 .. m) : s # {} =>
                   \E x \in s : \A y \in s : y <= x}
<1>2. \A m \in Nat : m \in D
  <2>1. 0 \in D
    <3>1. \A s \in SUBSET (1 .. 0) : s = {}
      OBVIOUS
    <3> QED BY <3>1
  <2>2. ASSUME NEW m \in Nat, m \in D  PROVE m + 1 \in D
    <3>1. ASSUME NEW s \in SUBSET (1 .. m + 1), s # {}
          PROVE  \E x \in s : \A y \in s : y <= x
      <4>1. CASE m + 1 \in s
        BY <4>1
      <4>2. CASE m + 1 \notin s
        <5>1. s \in SUBSET (1 .. m)
          BY <4>2
        <5> QED BY <2>2, <3>1, <5>1
      <4> QED BY <4>1, <4>2
    <3> QED BY <3>1
  <2> HIDE DEF D
  <2> QED BY <2>1, <2>2, SetInduction
<1>4. ASSUME NEW s \in SUBSET (1 .. n), s # {}  PROVE Max(s) \in s
  <2>1. \E x \in s : \A y \in s : x >= y
    BY <1>2, <1>4
  <2> QED BY <2>1 DEF Max
<1>5. ASSUME NEW s \in SUBSET (1 .. n), s # {}  PROVE Min(s) \in s
  BY <1>5, LeastIs
<1> QED BY <1>1, <1>4, <1>5 DEF Takes
\* What every step keeps, at the end.
LEMMA FoldStays ==
  ASSUME NEW T, IsFiniteSet(T), NEW c, Takes(c, T), NEW B, NEW g, g[{}] \in B,
         \A s \in SUBSET T : s # {} /\ g[s \ {c[s]}] \in B => g[s] \in B
  PROVE  \A s \in SUBSET T : g[s] \in B
<1> DEFINE G == {s \in SUBSET T : g[s] \in B}
<1>1. {} \in G
  OBVIOUS
<1>2. \A s \in SUBSET T : s # {} /\ s \ {c[s]} \in G => s \in G
  OBVIOUS
<1> HIDE DEF G
<1>3. \A s \in SUBSET T : s \in G
  BY <1>1, <1>2, PartsInduction
<1> QED BY <1>3 DEF G

\* Sequences of numbers are folded into numbers: the digits of a word, and
\* what is written beyond the eighth separator of a range.
LEMMA DecimalOf ==
  ASSUME NEW d \in Seq(Nat)
  PROVE  FoldLeft(Decimal, 0, d) \in Nat
<1> DEFINE n == Len(d)
           c == [s \in SUBSET (1 .. n) |-> Max(s)]
           op == [z \in (1 .. n) \X Nat |-> Decimal(z[2], d[z[1]])]
           Is(f) == f = [s \in SUBSET DOMAIN d |->
                           IF s = {} THEN 0 ELSE Decimal(f[s \ {Max(s)}], d[Max(s)])]
           g == CHOOSE f : Is(f)
<1>1. n \in Nat /\ DOMAIN d = 1 .. n /\ \A i \in 1 .. n : d[i] \in Nat
  OBVIOUS
<1>2. IsFiniteSet(1 .. n) /\ Takes(c, 1 .. n)
  BY <1>1, ExtremesTaken
<1>3. \A a, b \in Nat : Decimal(a, b) \in Nat
  BY DEF Decimal
<1>4. \A s \in SUBSET (1 .. n) : s # {} => c[s] = Max(s) /\ c[s] \in 1 .. n
  BY <1>2 DEF Takes
<1>5. ASSUME NEW i \in 1 .. n, NEW a \in Nat
      PROVE  op[<<i, a>>] = Decimal(a, d[i]) /\ op[<<i, a>>] \in Nat
  BY <1>1, <1>3
<1>6. FoldLeft(Decimal, 0, d) = g[DOMAIN d]
  BY DEF FoldLeft, MapThenFoldSet
<1> HIDE DEF c, op, n
<1>7. PICK f : Folds(f, SUBSET (1 .. n), c, op, 0)
  BY <1>2, FoldsExist
<1>8. /\ f = [s \in SUBSET (1 .. n) |-> IF s = {} THEN 0 ELSE op[<<c[s], f[s \ {c[s]}]>>]]
      /\ f[{}] = 0
      /\ \A s \in SUBSET (1 .. n) : s # {} => f[s] = op[<<c[s], f[s \ {c[s]}]>>]
  BY <1>7 DEF Folds
<1>9. \A s \in SUBSET (1 .. n) : f[s] \in Nat
  <2>1. ASSUME NEW s \in SUBSET (1 .. n), s # {}, f[s \ {c[s]}] \in Nat  PROVE f[s] \in Nat
    <3>1. c[s] \in 1 .. n /\ f[s] = op[<<c[s], f[s \ {c[s]}]>>]
      BY <1>4, <1>8, <2>1
    <3> QED BY <1>5, <2>1, <3>1
  <2>2. f[{}] \in Nat
    BY <1>8
  <2> QED BY <1>2, <2>1, <2>2, FoldStays
<1>10. Is(f)
  <2>1. \A s \in SUBSET (1 .. n) : s # {} =>
          op[<<c[s], f[s \ {c[s]}]>>] = Decimal(f[s \ {Max(s)}], d[Max(s)])
    BY <1>4, <1>5, <1>9
  <2>2. f = [s \in SUBSET (1 .. n) |->
               IF s = {} THEN 0 ELSE Decimal(f[s \ {Max(s)}], d[Max(s)])]
    BY <1>8, <2>1
  <2> QED BY <1>1, <2>2
<1>11. Is(g)
  BY <1>10
<1> HIDE DEF g
<1>12. /\ g[{}] = 0
       /\ \A s \in SUBSET (1 .. n) : s # {} => g[s] = Decimal(g[s \ {c[s]}], d[c[s]])
  BY <1>1, <1>4, <1>11
<1>13. ASSUME NEW s \in SUBSET (1 .. n), s # {}, g[s \ {c[s]}] \in Nat  PROVE g[s] \in Nat
  <2>1. d[c[s]] \in Nat /\ g[s] = Decimal(g[s \ {c[s]}], d[c[s]])
    BY <1>1, <1>4, <1>12, <1>13
  <2> QED BY <1>3, <1>13, <2>1
<1>14. g[{}] \in Nat
  BY <1>12
<1>15. \A s \in SUBSET (1 .. n) : g[s] \in Nat
  BY <1>2, <1>13, <1>14, FoldStays
<1> QED BY <1>1, <1>6, <1>15

LEMMA OctalOf ==
  ASSUME NEW d \in Seq(Nat)
  PROVE  FoldLeft(Octal, 0, d) \in Nat
<1> DEFINE n == Len(d)
           c == [s \in SUBSET (1 .. n) |-> Max(s)]
           op == [z \in (1 .. n) \X Nat |-> Octal(z[2], d[z[1]])]
           Is(f) == f = [s \in SUBSET DOMAIN d |->
                           IF s = {} THEN 0 ELSE Octal(f[s \ {Max(s)}], d[Max(s)])]
           g == CHOOSE f : Is(f)
<1>1. n \in Nat /\ DOMAIN d = 1 .. n /\ \A i \in 1 .. n : d[i] \in Nat
  OBVIOUS
<1>2. IsFiniteSet(1 .. n) /\ Takes(c, 1 .. n)
  BY <1>1, ExtremesTaken
<1>3. \A a, b \in Nat : Octal(a, b) \in Nat
  BY DEF Octal
<1>4. \A s \in SUBSET (1 .. n) : s # {} => c[s] = Max(s) /\ c[s] \in 1 .. n
  BY <1>2 DEF Takes
<1>5. ASSUME NEW i \in 1 .. n, NEW a \in Nat
      PROVE  op[<<i, a>>] = Octal(a, d[i]) /\ op[<<i, a>>] \in Nat
  BY <1>1, <1>3
<1>6. FoldLeft(Octal, 0, d) = g[DOMAIN d]
  BY DEF FoldLeft, MapThenFoldSet
<1> HIDE DEF c, op, n
<1>7. PICK f : Folds(f, SUBSET (1 .. n), c, op, 0)
  BY <1>2, FoldsExist
<1>8. /\ f = [s \in SUBSET (1 .. n) |-> IF s = {} THEN 0 ELSE op[<<c[s], f[s \ {c[s]}]>>]]
      /\ f[{}] = 0
      /\ \A s \in SUBSET (1 .. n) : s # {} => f[s] = op[<<c[s], f[s \ {c[s]}]>>]
  BY <1>7 DEF Folds
<1>9. \A s \in SUBSET (1 .. n) : f[s] \in Nat
  <2>1. ASSUME NEW s \in SUBSET (1 .. n), s # {}, f[s \ {c[s]}] \in Nat  PROVE f[s] \in Nat
    <3>1. c[s] \in 1 .. n /\ f[s] = op[<<c[s], f[s \ {c[s]}]>>]
      BY <1>4, <1>8, <2>1
    <3> QED BY <1>5, <2>1, <3>1
  <2>2. f[{}] \in Nat
    BY <1>8
  <2> QED BY <1>2, <2>1, <2>2, FoldStays
<1>10. Is(f)
  <2>1. \A s \in SUBSET (1 .. n) : s # {} =>
          op[<<c[s], f[s \ {c[s]}]>>] = Octal(f[s \ {Max(s)}], d[Max(s)])
    BY <1>4, <1>5, <1>9
  <2>2. f = [s \in SUBSET (1 .. n) |->
               IF s = {} THEN 0 ELSE Octal(f[s \ {Max(s)}], d[Max(s)])]
    BY <1>8, <2>1
  <2> QED BY <1>1, <2>2
<1>11. Is(g)
  BY <1>10
<1> HIDE DEF g
<1>12. /\ g[{}] = 0
       /\ \A s \in SUBSET (1 .. n) : s # {} => g[s] = Octal(g[s \ {c[s]}], d[c[s]])
  BY <1>1, <1>4, <1>11
<1>13. ASSUME NEW s \in SUBSET (1 .. n), s # {}, g[s \ {c[s]}] \in Nat  PROVE g[s] \in Nat
  <2>1. d[c[s]] \in Nat /\ g[s] = Octal(g[s \ {c[s]}], d[c[s]])
    BY <1>1, <1>4, <1>12, <1>13
  <2> QED BY <1>3, <1>13, <2>1
<1>14. g[{}] \in Nat
  BY <1>12
<1>15. \A s \in SUBSET (1 .. n) : g[s] \in Nat
  BY <1>2, <1>13, <1>14, FoldStays
<1> QED BY <1>1, <1>6, <1>15

LEMMA JoinedOf ==
  ASSUME NEW d \in Seq(Nat)
  PROVE  FoldLeft(Joined, 0, d) \in Nat
<1> DEFINE n == Len(d)
           c == [s \in SUBSET (1 .. n) |-> Max(s)]
           op == [z \in (1 .. n) \X Nat |-> Joined(z[2], d[z[1]])]
           Is(f) == f = [s \in SUBSET DOMAIN d |->
                           IF s = {} THEN 0 ELSE Joined(f[s \ {Max(s)}], d[Max(s)])]
           g == CHOOSE f : Is(f)
<1>1. n \in Nat /\ DOMAIN d = 1 .. n /\ \A i \in 1 .. n : d[i] \in Nat
  OBVIOUS
<1>2. IsFiniteSet(1 .. n) /\ Takes(c, 1 .. n)
  BY <1>1, ExtremesTaken
<1>3. \A a, b \in Nat : Joined(a, b) \in Nat
  BY DEF Joined, Shift
<1>4. \A s \in SUBSET (1 .. n) : s # {} => c[s] = Max(s) /\ c[s] \in 1 .. n
  BY <1>2 DEF Takes
<1>5. ASSUME NEW i \in 1 .. n, NEW a \in Nat
      PROVE  op[<<i, a>>] = Joined(a, d[i]) /\ op[<<i, a>>] \in Nat
  BY <1>1, <1>3
<1>6. FoldLeft(Joined, 0, d) = g[DOMAIN d]
  BY DEF FoldLeft, MapThenFoldSet
<1> HIDE DEF c, op, n
<1>7. PICK f : Folds(f, SUBSET (1 .. n), c, op, 0)
  BY <1>2, FoldsExist
<1>8. /\ f = [s \in SUBSET (1 .. n) |-> IF s = {} THEN 0 ELSE op[<<c[s], f[s \ {c[s]}]>>]]
      /\ f[{}] = 0
      /\ \A s \in SUBSET (1 .. n) : s # {} => f[s] = op[<<c[s], f[s \ {c[s]}]>>]
  BY <1>7 DEF Folds
<1>9. \A s \in SUBSET (1 .. n) : f[s] \in Nat
  <2>1. ASSUME NEW s \in SUBSET (1 .. n), s # {}, f[s \ {c[s]}] \in Nat  PROVE f[s] \in Nat
    <3>1. c[s] \in 1 .. n /\ f[s] = op[<<c[s], f[s \ {c[s]}]>>]
      BY <1>4, <1>8, <2>1
    <3> QED BY <1>5, <2>1, <3>1
  <2>2. f[{}] \in Nat
    BY <1>8
  <2> QED BY <1>2, <2>1, <2>2, FoldStays
<1>10. Is(f)
  <2>1. \A s \in SUBSET (1 .. n) : s # {} =>
          op[<<c[s], f[s \ {c[s]}]>>] = Joined(f[s \ {Max(s)}], d[Max(s)])
    BY <1>4, <1>5, <1>9
  <2>2. f = [s \in SUBSET (1 .. n) |->
               IF s = {} THEN 0 ELSE Joined(f[s \ {Max(s)}], d[Max(s)])]
    BY <1>8, <2>1
  <2> QED BY <1>1, <2>2
<1>11. Is(g)
  BY <1>10
<1> HIDE DEF g
<1>12. /\ g[{}] = 0
       /\ \A s \in SUBSET (1 .. n) : s # {} => g[s] = Joined(g[s \ {c[s]}], d[c[s]])
  BY <1>1, <1>4, <1>11
<1>13. ASSUME NEW s \in SUBSET (1 .. n), s # {}, g[s \ {c[s]}] \in Nat  PROVE g[s] \in Nat
  <2>1. d[c[s]] \in Nat /\ g[s] = Joined(g[s \ {c[s]}], d[c[s]])
    BY <1>1, <1>4, <1>12, <1>13
  <2> QED BY <1>3, <1>13, <2>1
<1>14. g[{}] \in Nat
  BY <1>12
<1>15. \A s \in SUBSET (1 .. n) : g[s] \in Nat
  BY <1>2, <1>13, <1>14, FoldStays
<1> QED BY <1>1, <1>6, <1>15
-----------------------------------------------------------------------------
(* Types.                                                                  *)

\* What a number of the configuration is converted into.
LEMMA ConvertedNat ==
  ASSUME NEW kind \in {"INT", "BOOLEAN", "SPEED", "TIME", "MODE"}, NEW w,
         kind # "BOOLEAN" => Digits[w].digits \in Seq(0 .. 9)
  PROVE  Converted(kind, w) \in Nat
<1> DEFINE n == FoldLeft(Decimal, 0, Digits[w].digits)
           m == FoldLeft(Octal, 0, Digits[w].digits)
           letter == Digits[w].letter
<1>1. CASE kind = "BOOLEAN"
  BY <1>1 DEF Converted
<1>2. CASE kind # "BOOLEAN"
  <2>1. Digits[w].digits \in Seq(Nat)
    BY <1>2
  <2>2. n \in Nat /\ m \in Nat
    BY <2>1, DecimalOf, OctalOf
  <2>3. CASE kind = "INT"
    <3>1. Converted(kind, w) = n
      BY <2>3 DEF Converted
    <3> QED BY <2>2, <3>1
  <2>4. CASE kind = "MODE"
    <3>1. Converted(kind, w) = m
      BY <2>4 DEF Converted
    <3> QED BY <2>2, <3>1
  <2>5. CASE kind = "SPEED"
    <3>1. Converted(kind, w) =
            CASE letter = "k" -> n * 1024 [] letter = "m" -> n * 1024 * 1024 [] OTHER -> n
      BY <2>5 DEF Converted
    <3> HIDE DEF n, letter
    <3>2. n * 1024 \in Nat /\ n * 1024 * 1024 \in Nat
      BY <2>2
    <3> QED BY <2>2, <3>1, <3>2
  <2>6. CASE kind = "TIME"
    <3>1. Converted(kind, w) =
            CASE letter = "d" -> n * 86400 [] letter = "h" -> n * 3600
              [] letter = "m" -> n * 60 [] OTHER -> n
      BY <2>6 DEF Converted
    <3> HIDE DEF n, letter
    <3>2. n * 86400 \in Nat /\ n * 3600 \in Nat /\ n * 60 \in Nat
      BY <2>2
    <3> QED BY <2>2, <3>1, <3>2
  <2> QED BY <1>2, <2>3, <2>4, <2>5, <2>6
<1> QED BY <1>1, <1>2

\* A line keeps the table a table of elements.
LEMMA LineTyped ==
  ASSUME NEW w \in Words, NEW h \in [Keys -> Elements]
  PROVE  processLine(h, w) \in [Keys -> Elements]
<1> DEFINE p == w[1]
           kind == KindOf[p]
           key == <<p, "Name">>
<1>0. /\ Len(w) \in Nat \ {0}
      /\ \A i \in 1 .. Len(w) : w[i] \in STRING
  BY WordsAssumption
<1>n. \A n \in Nat \ {0} : (n # 1 => 2 \in 2 .. n) /\ (n # 1 /\ n # 2 => 3 \in 2 .. n)
  OBVIOUS
<1>1. ASSUME NEW g \in [Keys -> Elements], NEW k \in Keys, NEW v \in STRING \cup {None}
      PROVE  hash_set(g, k, v) \in [Keys -> Elements]
  <2>1. g[k] \in Elements /\ g[k].num \in Nat
    BY DEF Elements
  <2>2. [set |-> TRUE, str |-> v, num |-> g[k].num] \in Elements
    BY <2>1 DEF Elements
  <2> QED BY <2>2 DEF hash_set
<1>2. ASSUME NEW g \in [Keys -> Elements], NEW k \in Keys, NEW v \in Nat
      PROVE  hash_set_int(g, k, v) \in [Keys -> Elements]
  <2>1. g[k] \in Elements /\ g[k].str \in STRING \cup {None}
    BY DEF Elements
  <2>2. [set |-> TRUE, str |-> g[k].str, num |-> v] \in Elements
    BY <2>1 DEF Elements
  <2> QED BY <2>2 DEF hash_set_int
<1>3. CASE p \notin Params \/ (Len(w) = 1 /\ kind # "STRING_MAYBE_EMPTY")
  BY <1>3 DEF processLine
<1>4. CASE p \in Params /\ ~(Len(w) = 1 /\ kind # "STRING_MAYBE_EMPTY")
  <2>0. /\ kind \in Kinds
        /\ key \in Keys /\ <<p, "File">> \in Keys /\ <<p, "Directory">> \in Keys
    BY <1>4, KindsAssumption DEF Keys
  <2>1. CASE kind \in {"STRING", "STRING_MAYBE_EMPTY"}
    <3> DEFINE v == IF Len(w) = 1 THEN None ELSE w[2]
    <3>1. processLine(h, w) = hash_set(h, key, v)
      BY <1>4, <2>1, Zenon DEF processLine
    <3>2. v \in STRING \cup {None}
      <4>1. Len(w) # 1 => 2 \in 1 .. Len(w)
        BY <1>0
      <4> QED BY <1>0, <4>1
    <3> HIDE DEF v, key
    <3> QED BY <1>1, <2>0, <3>1, <3>2
  <2>2. CASE kind = "DEPRECATED"
    BY <1>4, <2>2 DEF processLine
  <2>3. CASE kind = "FILE_AND_DIR"
    <3> DEFINE f1 == hash_set_int(h, key, 42)
               f2 == hash_set_int(f1, <<p, "File">>, Converted("MODE", w[2]))
               f3 == hash_set_int(f2, <<p, "Directory">>, Converted("MODE", w[3]))
    <3>1. processLine(h, w) = IF Len(w) = 2 THEN f2 ELSE f3
      <4>1. kind \notin {"STRING", "STRING_MAYBE_EMPTY"} /\ kind # "DEPRECATED"
        BY <2>3
      <4> QED BY <1>4, <2>3, <4>1, Zenon DEF processLine
    <3>2. 2 \in 2 .. Len(w) /\ (Len(w) # 2 => 3 \in 2 .. Len(w))
      <4>1. Len(w) # 1
        BY <1>4, <2>3
      <4> QED BY <1>n, <1>0, <4>1
    <3>3. \A i \in 2 .. Len(w) : Digits[w[i]].digits \in Seq(0 .. 9)
      BY <1>4, <2>3, DigitsAssumption
    <3>4. /\ Converted("MODE", w[2]) \in Nat
          /\ Len(w) # 2 => Converted("MODE", w[3]) \in Nat
      BY <3>2, <3>3, ConvertedNat
    <3>5. f1 \in [Keys -> Elements]
      BY <1>2, <2>0
    <3> HIDE DEF f1
    <3>6. f2 \in [Keys -> Elements]
      BY <1>2, <2>0, <3>4, <3>5
    <3> HIDE DEF f2
    <3>7. Len(w) # 2 => f3 \in [Keys -> Elements]
      BY <1>2, <2>0, <3>4, <3>6
    <3> HIDE DEF f3
    <3> QED BY <3>1, <3>6, <3>7
  <2>4. CASE kind \in {"INT", "BOOLEAN", "SPEED", "TIME", "MODE"}
    <3>1. processLine(h, w) = hash_set_int(h, key, Converted(kind, w[2]))
      <4>1. /\ kind \notin {"STRING", "STRING_MAYBE_EMPTY"} /\ kind # "DEPRECATED"
            /\ kind # "FILE_AND_DIR"
        BY <2>4
      <4> QED BY <1>4, <4>1, Zenon DEF processLine
    <3>2. 2 \in 2 .. Len(w)
      <4>1. Len(w) # 1
        BY <1>4, <2>4
      <4> QED BY <1>n, <1>0, <4>1
    <3>3. kind # "BOOLEAN" => Digits[w[2]].digits \in Seq(0 .. 9)
      BY <1>4, <2>4, <3>2, DigitsAssumption
    <3>4. Converted(kind, w[2]) \in Nat
      BY <2>4, <3>3, ConvertedNat
    <3> DEFINE v == Converted(kind, w[2])
    <3> HIDE DEF v, key, kind
    <3> QED BY <1>2, <2>0, <3>1, <3>4 DEF v
  <2> QED BY <2>0, <2>1, <2>2, <2>3, <2>4 DEF Kinds
<1> QED BY <1>3, <1>4

\* A range of addresses is a mask, whatever its numbers.
LEMMA MaskTyped ==
  ASSUME NEW nums \in Seq(Byte)
  PROVE  TagParseRangeIP(nums) \in Masks
<1>0. \A i \in 1 .. Len(nums) : nums[i] \in Byte
  OBVIOUS
<1>1. Len(nums) \in Nat /\ (\A i \in 1 .. Len(nums) : nums[i] \in Nat)
  <2>1. \A b \in Byte : b \in Nat
    BY DEF Byte
  <2>2. Len(nums) \in Nat
    OBVIOUS
  <2> QED BY <1>0, <2>1, <2>2
<1>2. ASSUME NEW i \in Positions, i <= LastPosition(nums)  PROVE Stored(nums, i) % 256 \in Byte
  <2>1. Stored(nums, i) \in Nat
    <3>1. CASE i < 8 \/ Len(nums) = 9
      <4>1. i + 1 \in 1 .. Len(nums)
        BY <1>1, <1>2, <3>1 DEF LastPosition, Positions
      <4> QED BY <1>1, <3>1, <4>1 DEF Stored
    <3>2. CASE ~(i < 8 \/ Len(nums) = 9)
      <4> DEFINE n == Len(nums)
                 d == SubSeq(nums, 9, n)
      <4>1. n > 8
        BY <1>1, <1>2, <3>2 DEF LastPosition, Positions
      <4>2. d \in Seq(Nat)
        <5>1. nums \in Seq(Nat)
          BY <1>1
        <5>2. \A j \in 9 .. n : nums[j] \in Nat
          BY <1>1, <4>1
        <5> QED BY <1>1, <5>1, <5>2, SubSeqProperties
      <4> HIDE DEF d
      <4>3. FoldLeft(Joined, 0, d) \in Nat
        BY <4>2, JoinedOf
      <4> QED BY <3>2, <4>3 DEF Stored, d
    <3> QED BY <3>1, <3>2
  <2>2. \A n \in Nat : n % 256 \in 0 .. 255
    OBVIOUS
  <2> QED BY <2>1, <2>2 DEF Byte
<1>3. ASSUME NEW i \in Positions  PROVE MaskByte(nums, i) \in Byte
  <2>1. CASE i <= LastPosition(nums)
    BY <1>2, <2>1 DEF MaskByte
  <2>2. CASE ~(i <= LastPosition(nums)) /\ i \in 4 .. 7 /\ i - 4 <= LastPosition(nums)
    <3>1. i - 4 \in Positions
      BY <2>2 DEF Positions
    <3> QED BY <1>2, <2>2, <3>1 DEF MaskByte
  <2>3. CASE ~(i <= LastPosition(nums)) /\ ~(i \in 4 .. 7 /\ i - 4 <= LastPosition(nums))
    BY <2>3 DEF MaskByte, Byte
  <2> QED BY <2>1, <2>2, <2>3
<1>4. 32 \in Byte
  BY DEF Byte
<1> QED BY <1>3, <1>4 DEF TagParseRangeIP, Masks

\* The entries of the stack.
LEMMA EntriesTyped == Stacked \cup {BareEntry} \subseteq Entries
<1>1. ASSUME NEW t \in Tags  PROVE Entry(t) \in Entries
  <2> DEFINE name == IF t.type = "VIRTUALHOST" /\ t.name # "*" /\ t.name \in DOMAIN Resolve
                     THEN Resolve[t.name] ELSE t.name
             mask == IF t.type = "RANGEIP" THEN TagParseRangeIP(t.nums) ELSE <<>>
             port == IF t.type = "VIRTUALHOST" /\ t.nums # <<>> THEN t.nums[1] ELSE 0
  <2>1. t.type \in TagTypes
    BY TagsAssumption
  <2>2. name \in Arguments
    BY DEF Arguments
  <2>3. mask \in Masks \cup {<<>>}
    BY TagsAssumption, MaskTyped
  <2>4. port \in Nat
    <3>1. ASSUME NEW s \in Seq(Nat), s # <<>>  PROVE s[1] \in Nat
      BY <3>1
    <3> QED BY <3>1, TagsAssumption
  <2>5. Entry(t) = [type |-> t.type, data1 |-> name, mask |-> mask, data2 |-> port]
    BY DEF Entry
  <2> HIDE DEF name, mask, port
  <2> QED BY <2>1, <2>2, <2>3, <2>4, <2>5 DEF Entries
<1>2. BareEntry \in Entries
  <2>1. "DEFAULT" \in TagTypes
    BY DEF TagTypes
  <2>2. "all" \in Arguments
    BY DEF Arguments
  <2>3. <<>> \in Masks \cup {<<>>}
    OBVIOUS
  <2> QED BY <2>1, <2>2, <2>3 DEF BareEntry, Entries
<1> QED BY <1>1, <1>2 DEF Stacked

\* The other types.
Typed ==
  /\ who \in Whos
  /\ tried \in 1 .. 3
  /\ Len(files) <= MaxInclusions
  /\ \A i \in 1 .. Len(files) : files[i].opened <= MaxTags
  /\ hash \in [Keys -> Elements]

LEMMA EmptyTyped == EmptyHash \in [Keys -> Elements]
<1>1. Absent \in Elements
  BY DEF Absent, Elements
<1> QED BY <1>1 DEF EmptyHash

LEMMA ExitTyped == ASSUME Typed, who' = who, Exit  PROVE Typed'
<1>1. files' = <<>> /\ tried' = 1 /\ hash' = EmptyHash
  BY DEF Exit
<1>2. Len(files') = 0
  BY <1>1
<1> QED BY <1>1, <1>2, EmptyTyped, InclusionsAssumption DEF Typed

\* A tag is counted, within the bound.
LEMMA TagTyped ==
  ASSUME Typed, files \in Seq(FileRecs), files # <<>>, NEW n \in Nat, NEW s, NEW now \in Nows,
         AfterTag(n, s, now), n <= MaxTags, UNCHANGED <<who, tried, hash>>
  PROVE  Typed'
<1>1. /\ Len(files') = Len(files) /\ Len(files) \in Nat
      /\ \A i \in 1 .. Len(files) - 1 : files'[i] = files[i]
      /\ files'[Len(files)].opened = n
  BY AfterTagIs
<1>2. ASSUME NEW i \in 1 .. Len(files')  PROVE files'[i].opened <= MaxTags
  <2>1. i = Len(files) \/ i \in 1 .. Len(files) - 1
    BY <1>1
  <2>2. i \in 1 .. Len(files)
    BY <1>1
  <2> QED BY <1>1, <2>1, <2>2 DEF Typed
<1> QED BY <1>1, <1>2 DEF Typed

LEMMA TypedInit == Init => Typed
<1> SUFFICES ASSUME Init PROVE Typed
  OBVIOUS
<1>1. files = <<>> /\ tried = 1 /\ hash = EmptyHash /\ who \in Whos
  BY DEF Init
<1>2. Len(files) = 0
  BY <1>1
<1> QED BY <1>1, <1>2, EmptyTyped, InclusionsAssumption DEF Typed

LEMMA TypedNext == ASSUME IInv, Typed, [Next]_vars  PROVE Typed'
<1>0. /\ files \in Seq(FileRecs)
      /\ status = "read" => files # <<>>
  BY DEF IInv, Reading
<1>1. CASE LoadConfig
  BY <1>1, ExitTyped DEF LoadConfig, Typed
<1>2. CASE OpenConfig
  <2>0. status = "open" /\ UNCHANGED who
    BY <1>2 DEF OpenConfig
  <2>1. CASE files' = <<NewFile>> /\ status' = "read" /\ tried' = 1 /\ UNCHANGED hash
    <3>1. Len(files') = 1 /\ files'[1].opened = 0
      BY <2>1 DEF NewFile
    <3> QED BY <2>0, <2>1, <3>1, InclusionsAssumption, BoundAssumption DEF Typed
  <2>2. CASE tried < 3 /\ tried' = tried + 1 /\ UNCHANGED <<hash, files>>
    BY <2>0, <2>2 DEF Typed
  <2>3. CASE Exit
    BY <2>0, <2>3, ExitTyped
  <2> QED BY <1>2, <2>1, <2>2, <2>3 DEF OpenConfig
<1>3. ASSUME NEW t \in Tags, OpenTag(t)  PROVE Typed'
  <2>1. /\ status = "read" /\ UNCHANGED <<who, tried, hash>> /\ Current.opened < MaxTags
        /\ AfterTag(Current.opened + 1, tags', Entry(t))
    BY <1>3 DEF OpenTag, ReadLine, Keep
  <2>2. Current.opened + 1 \in Nat /\ Current.opened + 1 <= MaxTags
    BY <1>0, <2>1, CurrentIs, BoundAssumption
  <2>3. Entry(t) \in Nows
    BY DEF Nows, Stacked
  <2> QED BY <1>0, <2>1, <2>2, <2>3, TagTyped
<1>4. CASE OpenBareTag
  <2>1. /\ status = "read" /\ UNCHANGED <<who, tried, hash>> /\ Current.opened < MaxTags
        /\ AfterTag(Current.opened + 1, tags, BareEntry)
    BY <1>4 DEF OpenBareTag, ReadLine, Keep
  <2>2. Current.opened + 1 \in Nat /\ Current.opened + 1 <= MaxTags
    BY <1>0, <2>1, CurrentIs, BoundAssumption
  <2>3. BareEntry \in Nows
    BY DEF Nows
  <2> QED BY <1>0, <2>1, <2>2, <2>3, TagTyped
<1>5. CASE CloseTag
  <2>0. status = "read" /\ UNCHANGED who
    BY <1>5 DEF CloseTag, ReadLine
  <2>1. CASE Current.opened = 0
    BY <1>5, <2>0, <2>1, ExitTyped DEF CloseTag
  <2>2. CASE Current.opened # 0
    <3>1. UNCHANGED <<tried, hash>> /\ AfterTag(Current.opened - 1, tags', NoTag)
      BY <1>5, <2>2 DEF CloseTag, Keep
    <3>2. /\ Current.opened \in Nat /\ Current = files[Len(files)]
          /\ Len(files) \in 1 .. Len(files)
      BY <1>0, <2>0, CurrentIs
    <3>3. Current.opened <= MaxTags
      BY <3>2 DEF Typed
    <3>4. Current.opened - 1 \in Nat /\ Current.opened - 1 <= MaxTags
      BY <2>2, <3>2, <3>3, BoundAssumption
    <3>5. NoTag \in Nows
      BY DEF Nows
    <3> QED BY <1>0, <2>0, <3>1, <3>4, <3>5, TagTyped
  <2> QED BY <2>1, <2>2
<1>6. CASE BadTag
  BY <1>6, ExitTyped DEF BadTag, ReadLine
<1>7. CASE SkipWords
  BY <1>7 DEF SkipWords, ReadLine, Keep, Typed
<1>8. ASSUME NEW w \in Words, SpecWords(w)  PROVE Typed'
  BY <1>8 DEF SpecWords, Active, ReadLine, Keep, Typed
<1>9. ASSUME NEW w \in Words, ParamWords(w)  PROVE Typed'
  <2>1. UNCHANGED <<who, tried, files>> /\ hash' = processLine(hash, w)
    BY <1>9 DEF ParamWords, Active, ReadLine, Keep
  <2>2. hash' \in [Keys -> Elements]
    BY <2>1, LineTyped DEF Typed
  <2> QED BY <2>1, <2>2 DEF Typed
<1>10. CASE Include
  <2>1. UNCHANGED <<who, tried, hash>>
    BY <1>10 DEF Include, Active, ReadLine, Keep
  <2>2. CASE Len(files) < MaxInclusions /\ files' = Append(files, NewFile)
    <3>1. /\ Len(files) \in Nat /\ Len(files') = Len(files) + 1
          /\ files'[Len(files) + 1] = NewFile
          /\ \A i \in 1 .. Len(files) : files'[i] = files[i]
      BY <1>0, <2>2
    <3>2. NewFile.opened = 0
      BY DEF NewFile
    <3>3. ASSUME NEW i \in 1 .. Len(files')  PROVE files'[i].opened <= MaxTags
      <4>1. i = Len(files) + 1 \/ i \in 1 .. Len(files)
        BY <3>1
      <4> QED BY <3>1, <3>2, <4>1, BoundAssumption DEF Typed
    <3> QED BY <2>1, <2>2, <3>1, <3>3, InclusionsAssumption DEF Typed
  <2>3. CASE UNCHANGED files
    BY <2>1, <2>3 DEF Typed
  <2> QED BY <1>10, <2>2, <2>3 DEF Include
<1>11. CASE EndOfFile
  <2>0. status = "read" /\ UNCHANGED who
    BY <1>11 DEF EndOfFile
  <2>1. CASE Current.opened # 0
    BY <1>11, <2>0, <2>1, ExitTyped DEF EndOfFile
  <2>2. CASE Current.opened = 0
    <3>1. UNCHANGED <<tried, hash>> /\ files' = Front(files)
      BY <1>11, <2>2 DEF EndOfFile
    <3>2. /\ Len(files') = Len(files) - 1 /\ Len(files) \in Nat
          /\ \A i \in 1 .. Len(files) - 1 : files'[i] = files[i]
      BY <1>0, <2>0, <3>1, FrontIs
    <3>3. \A i \in 1 .. Len(files') : i \in 1 .. Len(files) /\ files'[i] = files[i]
      BY <3>2
    <3>4. Len(files') <= MaxInclusions
      BY <3>2, InclusionsAssumption DEF Typed
    <3> QED BY <2>0, <3>1, <3>3, <3>4 DEF Typed
  <2> QED BY <2>1, <2>2
<1>12. CASE Settle
  BY <1>12, EmptyTyped DEF Settle, Typed
<1>13. CASE UNCHANGED vars
  BY <1>13 DEF vars, Typed
<1> QED BY <1>1, <1>2, <1>3, <1>4, <1>5, <1>6, <1>7, <1>8, <1>9, <1>10, <1>11, <1>12, <1>13
       DEF Next

\* The variables of Config have their types: no more than MaxInclusions files
\* are open at once (load_config_file), and the bytes of every range of
\* addresses fit (TagParseRangeIP), as the numbers of the table do
\* (processLine).
THEOREM ConfigTypes == Spec => []TypeOK
<1>1. Init => Typed
  BY TypedInit
<1>2. IInv /\ Typed /\ [Next]_vars => Typed'
  BY TypedNext
<1>3. IInv /\ Typed => TypeOK
  <2> SUFFICES ASSUME IInv, Typed PROVE TypeOK
    OBVIOUS
  <2>1. files \in Seq(FileRecs) /\ tags \in Seq(Stacked)
    BY DEF IInv
  <2>2. DOMAIN files = 1 .. Len(files) /\ DOMAIN tags = 1 .. Len(tags)
    BY <2>1
  <2>3. ASSUME NEW i \in DOMAIN files
        PROVE  /\ files[i].opened \in 0 .. MaxTags /\ files[i].active \in BOOLEAN
               /\ files[i].now # NoTag => files[i].now \in Entries
    <3>1. files[i] \in FileRecs
      BY <2>1
    <3>2. files[i].opened \in Nat /\ files[i].active \in BOOLEAN /\ files[i].now \in Nows
      BY <3>1 DEF FileRecs
    <3>3. files[i].opened <= MaxTags
      BY <2>2 DEF Typed
    <3> QED BY <3>2, <3>3, EntriesTyped, BoundAssumption DEF Nows
  <2>4. ASSUME NEW i \in DOMAIN tags  PROVE tags[i] \in Entries
    BY <2>1, EntriesTyped
  <2> QED BY <2>3, <2>4 DEF IInv, Reading, Typed, TypeOK
<1> QED BY <1>1, <1>2, <1>3, Invariant, PTL DEF Spec
-----------------------------------------------------------------------------
(* Filters. The lists of filters are the ones the lines define, each with  *)
(* the lines that are between its tags: a filter whose Order and           *)
(* UseFullPath come first has read them all.                               *)

SpecRecs == [name : {t.name : t \in Tags}, type : {"ALLOW_DENY", "DENY_ALLOW"},
             useFullPath : BOOLEAN, expressions : Seq(Regexes)]
SpecLines == {w \in Words : w[1] \in SpecNames /\ Len(w) # 1}
TextRecs == [name : {t.name : t \in Tags}, lines : Seq(SpecLines)]

\* Order and UseFullPath once at most, before the rules.
Ordered(d) ==
  \A i, j \in DOMAIN d.lines :
    d.lines[i][1] \in {"Order", "UseFullPath"} /\ j < i =>
      d.lines[j][1] \in {"Order", "UseFullPath"} \ {d.lines[i][1]}

Reads(s, d) ==
  /\ s.name = d.name
  /\ Ordered(d) =>
       /\ s.type = IF TextOrder(d) = "Allow" THEN "ALLOW_DENY" ELSE "DENY_ALLOW"
       /\ s.useFullPath <=> TextFull(d)
       /\ \A r \in Regexes :
            r \in TextRules(d) <=> \E i \in 1 .. Len(s.expressions) : s.expressions[i] = r

\* The first filter of a name.
IsFirst(all, name, k) ==
  all[k].name = name /\ \A j \in 1 .. k - 1 : all[j].name # name
Allows(all, name, t) ==
  \A k \in 1 .. Len(all) : IsFirst(all, name, k) => ~Refuses(all[k], t)

\* The filter of one name more.
LEMMA ProfilOf ==
  ASSUME NEW all \in Seq(SpecRecs), NEW name, NEW more \in Seq(SpecRecs)
  PROVE  /\ FileSpecActiveProfil(all, name, more) \in Seq(SpecRecs)
         /\ \A t : FileSpecCheckRights(FileSpecActiveProfil(all, name, more), t) <=>
                     Allows(all, name, t) /\ FileSpecCheckRights(more, t)
<1> DEFINE n == Len(all)
           found == {i \in DOMAIN all : all[i].name = name}
           k == Min(found)
           longer == <<all[k]>> \o more
<1>0. n \in Nat /\ DOMAIN all = 1 .. n /\ DOMAIN more = 1 .. Len(more) /\ Len(more) \in Nat
  OBVIOUS
<1>1. CASE found = {}
  <2>1. FileSpecActiveProfil(all, name, more) = more
    BY <1>1 DEF FileSpecActiveProfil
  <2>2. \A t : Allows(all, name, t)
    BY <1>0, <1>1 DEF Allows, IsFirst
  <2> QED BY <2>1, <2>2
<1>2. CASE found # {}
  <2>1. FileSpecActiveProfil(all, name, more) = longer
    BY <1>2 DEF FileSpecActiveProfil, Min
  <2>2. k \in found /\ \A j \in found : k <= j
    <3>1. found \in SUBSET (1 .. n)
      BY <1>0
    <3> HIDE DEF found, n
    <3> QED BY <1>0, <1>2, <3>1, LeastIs
  <2>3. k \in 1 .. n /\ IsFirst(all, name, k)
    <3>1. k \in 1 .. n /\ all[k].name = name
      BY <1>0, <2>2
    <3>2. ASSUME NEW j \in 1 .. k - 1, all[j].name = name  PROVE FALSE
      <4>1. j \in 1 .. n
        BY <1>0, <3>1
      <4>2. j \in found
        BY <1>0, <3>2, <4>1
      <4> HIDE DEF k, found
      <4> QED BY <1>0, <2>2, <3>1, <4>2
    <3> HIDE DEF k
    <3> QED BY <3>1, <3>2 DEF IsFirst
  <2>4. \A i \in 1 .. n : IsFirst(all, name, i) => i = k
    <3> SUFFICES ASSUME NEW i \in 1 .. n, IsFirst(all, name, i), i # k PROVE FALSE
      OBVIOUS
    <3>1. k < i \/ i < k
      BY <1>0, <2>3
    <3> HIDE DEF k
    <3>2. CASE k < i
      <4>1. k \in 1 .. i - 1
        BY <1>0, <2>3, <3>2
      <4> QED BY <2>3, <4>1 DEF IsFirst
    <3>3. CASE i < k
      <4>1. i \in 1 .. k - 1
        BY <1>0, <2>3, <3>3
      <4> QED BY <2>3, <4>1 DEF IsFirst
    <3> QED BY <3>1, <3>2, <3>3
  <2>5. \A t : Allows(all, name, t) <=> ~Refuses(all[k], t)
    <3> HIDE DEF k
    <3> QED BY <2>3, <2>4 DEF Allows
  <2>6. all[k] \in SpecRecs
    <3> HIDE DEF k
    <3> QED BY <2>3
  <2> DEFINE a == all[k]
  <2>7. /\ longer \in Seq(SpecRecs) /\ Len(longer) = Len(more) + 1 /\ longer[1] = a
        /\ \A i \in 1 .. Len(more) : longer[i + 1] = more[i]
    <3>1. a \in SpecRecs
      BY <2>6
    <3> HIDE DEF a
    <3>2. <<a>> \in Seq(SpecRecs) /\ Len(<<a>>) = 1 /\ <<a>>[1] = a
      BY <3>1
    <3>3. longer = <<a>> \o more
      BY DEF a
    <3> HIDE DEF longer
    <3> QED BY <1>0, <3>2, <3>3
  <2> HIDE DEF longer, a
  <2>8. DOMAIN longer = 1 .. Len(more) + 1
    BY <2>7
  <2>9. \A i \in 1 .. Len(more) + 1 : i = 1 \/ (i - 1 \in 1 .. Len(more) /\ longer[i] = more[i - 1])
    <3> SUFFICES ASSUME NEW i \in 1 .. Len(more) + 1, i # 1
                 PROVE  i - 1 \in 1 .. Len(more) /\ longer[i] = more[i - 1]
      OBVIOUS
    <3> DEFINE h == i - 1
    <3>1. h \in 1 .. Len(more) /\ i = h + 1
      BY <1>0
    <3> HIDE DEF h
    <3>2. longer[h + 1] = more[h]
      BY <2>7, <3>1
    <3> QED BY <3>1, <3>2 DEF h
  <2>10. ASSUME NEW t
         PROVE  FileSpecCheckRights(longer, t) <=> ~Refuses(a, t) /\ FileSpecCheckRights(more, t)
    <3>1. ASSUME FileSpecCheckRights(longer, t)
          PROVE  ~Refuses(a, t) /\ FileSpecCheckRights(more, t)
      <4>1. 1 \in DOMAIN longer /\ \A i \in 1 .. Len(more) : i + 1 \in DOMAIN longer
        BY <1>0, <2>8
      <4> QED BY <1>0, <2>7, <3>1, <4>1 DEF FileSpecCheckRights
    <3>2. ASSUME ~Refuses(a, t), FileSpecCheckRights(more, t)
          PROVE  FileSpecCheckRights(longer, t)
      BY <1>0, <2>7, <2>8, <2>9, <3>2 DEF FileSpecCheckRights
    <3> QED BY <3>1, <3>2
  <2> QED BY <2>1, <2>5, <2>7, <2>10 DEF a
<1> QED BY <1>1, <1>2
\* The filters of a list of names.
LEMMA ProfilsOf ==
  ASSUME NEW all \in Seq(SpecRecs), NEW names \in Seq(STRING)
  PROVE  /\ FileSpecActiveProfils(all, names) \in Seq(SpecRecs)
         /\ \A t \in Targets :
              FileSpecCheckRights(FileSpecActiveProfils(all, names), t) <=>
                \A i \in 1 .. Len(names) : Allows(all, names[i], t)
<1> DEFINE n == Len(names)
           L == Seq(SpecRecs)
           c == [s \in SUBSET (1 .. n) |-> Min(s)]
           op == [z \in (1 .. n) \X L |-> FileSpecActiveProfil(all, names[z[1]], z[2])]
           Is(f) == f = [s \in SUBSET DOMAIN names |->
                           IF s = {} THEN <<>>
                           ELSE FileSpecActiveProfil(all, names[Min(s)], f[s \ {Min(s)}])]
           g == CHOOSE f : Is(f)
<1>1. n \in Nat /\ DOMAIN names = 1 .. n
  OBVIOUS
<1>2. IsFiniteSet(1 .. n) /\ Takes(c, 1 .. n)
  BY <1>1, ExtremesTaken
<1>3. \A s \in SUBSET (1 .. n) : s # {} => c[s] = Min(s) /\ c[s] \in s /\ c[s] \in 1 .. n
  BY <1>2 DEF Takes
<1>4. ASSUME NEW i \in 1 .. n, NEW a \in L
      PROVE  op[<<i, a>>] = FileSpecActiveProfil(all, names[i], a) /\ op[<<i, a>>] \in L
  BY ProfilOf
<1>5. FileSpecActiveProfils(all, names) = g[DOMAIN names]
  BY DEF FileSpecActiveProfils, FoldRight, MapThenFoldSet
<1>e. <<>> \in L
  OBVIOUS
<1> HIDE DEF c, op, n, L
<1>6. PICK f : Folds(f, SUBSET (1 .. n), c, op, <<>>)
  BY <1>2, FoldsExist
<1>7. /\ f = [s \in SUBSET (1 .. n) |-> IF s = {} THEN <<>> ELSE op[<<c[s], f[s \ {c[s]}]>>]]
      /\ f[{}] = <<>>
      /\ \A s \in SUBSET (1 .. n) : s # {} => f[s] = op[<<c[s], f[s \ {c[s]}]>>]
  BY <1>6 DEF Folds
<1>8. \A s \in SUBSET (1 .. n) : f[s] \in L
  <2>1. ASSUME NEW s \in SUBSET (1 .. n), s # {}, f[s \ {c[s]}] \in L  PROVE f[s] \in L
    <3>1. c[s] \in 1 .. n /\ f[s] = op[<<c[s], f[s \ {c[s]}]>>]
      BY <1>3, <1>7, <2>1
    <3> QED BY <1>4, <2>1, <3>1
  <2>2. f[{}] \in L
    BY <1>7, <1>e
  <2> QED BY <1>2, <2>1, <2>2, FoldStays
<1>9. Is(f)
  <2>1. \A s \in SUBSET (1 .. n) : s # {} =>
          op[<<c[s], f[s \ {c[s]}]>>] = FileSpecActiveProfil(all, names[Min(s)], f[s \ {Min(s)}])
    BY <1>3, <1>4, <1>8
  <2>2. f = [s \in SUBSET (1 .. n) |->
               IF s = {} THEN <<>>
               ELSE FileSpecActiveProfil(all, names[Min(s)], f[s \ {Min(s)}])]
    BY <1>7, <2>1
  <2> QED BY <1>1, <2>2
<1>10. Is(g)
  BY <1>9
<1> HIDE DEF g
<1>11. /\ g[{}] = <<>>
       /\ \A s \in SUBSET (1 .. n) : s # {} =>
            g[s] = FileSpecActiveProfil(all, names[c[s]], g[s \ {c[s]}])
  BY <1>1, <1>3, <1>10
<1> DEFINE Right(s) == \A t \in Targets : FileSpecCheckRights(g[s], t) <=>
                                            \A i \in s : Allows(all, names[i], t)
           G == {s \in SUBSET (1 .. n) : g[s] \in L /\ Right(s)}
<1>12. {} \in G
  <2>1. Right({})
    BY <1>11 DEF FileSpecCheckRights
  <2> QED BY <1>11, <1>e, <2>1
<1>13. ASSUME NEW s \in SUBSET (1 .. n), s # {}, s \ {c[s]} \in G  PROVE s \in G
  <2> DEFINE r == s \ {c[s]}
             i == c[s]
             more == g[r]
  <2>1. i \in s /\ i \in 1 .. n /\ g[s] = FileSpecActiveProfil(all, names[i], more)
    BY <1>3, <1>11, <1>13
  <2>2. more \in L /\ Right(r)
    BY <1>13
  <2>3. \A j : j \in s <=> j = i \/ j \in r
    BY <2>1
  <2> HIDE DEF i, r, more
  <2>4. /\ g[s] \in L
        /\ \A t : FileSpecCheckRights(g[s], t) <=>
                    Allows(all, names[i], t) /\ FileSpecCheckRights(more, t)
    BY <2>1, <2>2, ProfilOf DEF L
  <2>5. Right(s)
    <3> SUFFICES ASSUME NEW t \in Targets
                 PROVE  FileSpecCheckRights(g[s], t) <=> \A j \in s : Allows(all, names[j], t)
      OBVIOUS
    <3>1. FileSpecCheckRights(more, t) <=> \A j \in r : Allows(all, names[j], t)
      BY <2>2 DEF more
    <3> QED BY <2>3, <2>4, <3>1
  <2> QED BY <2>4, <2>5
<1> HIDE DEF G
<1>14. \A s \in SUBSET (1 .. n) : s \in G
  <2>1. \A s \in SUBSET (1 .. n) : s # {} /\ s \ {c[s]} \in G => s \in G
    BY <1>13
  <2> DEFINE T == 1 .. n
  <2>2. IsFiniteSet(T) /\ Takes(c, T) /\ \A s \in SUBSET T : s # {} /\ s \ {c[s]} \in G => s \in G
    BY <1>2, <2>1
  <2> HIDE DEF T
  <2>3. \A s \in SUBSET T : s \in G
    BY <1>12, <2>2, PartsInduction
  <2> QED BY <2>3 DEF T
<1>15. g[1 .. n] \in L /\ Right(1 .. n)
  BY <1>14 DEF G
<1> QED BY <1>1, <1>5, <1>15 DEF L, n

\* What the rules of a text are.
LEMMA RulesAre ==
  \A d, r : r \in TextRules(d) <=>
              /\ r \in Regexes
              /\ \E j \in DOMAIN d.lines : d.lines[j][1] = TextOrder(d) /\ d.lines[j][2] = r
BY DEF TextRules

\* A new filter has read nothing.
LEMMA NewSpec ==
  ASSUME NEW t \in Tags
  PROVE  /\ Spec0(t.name) \in SpecRecs /\ Text0(t.name) \in TextRecs
         /\ Reads(Spec0(t.name), Text0(t.name))
<1> DEFINE s == Spec0(t.name)
           d == Text0(t.name)
<1>1. s \in SpecRecs /\ d \in TextRecs
  BY DEF Spec0, Text0, SpecRecs, TextRecs
<1>2. DOMAIN d.lines = {} /\ Len(s.expressions) = 0 /\ s.name = d.name
      /\ s.type = "DENY_ALLOW" /\ s.useFullPath = FALSE
  BY DEF Spec0, Text0
<1> HIDE DEF s, d
<1>3. TextOrder(d) = "Deny" /\ ~TextFull(d) /\ \A r : r \notin TextRules(d)
  BY <1>2, RulesAre DEF TextOrder, TextFull
<1>4. Reads(s, d)
  BY <1>2, <1>3 DEF Reads
<1> QED BY <1>1, <1>4 DEF s, d
\* e is d with the line w.
Longer(d, w, e) == e = TextWith(d, w)

\* What a line more is to a text.
LEMMA TextMore ==
  ASSUME NEW d \in TextRecs, NEW w \in SpecLines, NEW e, Longer(d, w, e)
  PROVE  /\ e \in TextRecs /\ e.name = d.name
         /\ (Ordered(e) => Ordered(d))
         /\ (Ordered(e) /\ w[1] \in {"Order", "UseFullPath"} =>
               \A j \in DOMAIN d.lines : d.lines[j][1] \in {"Order", "UseFullPath"} \ {w[1]})
         /\ (TextOrder(e) = "Allow" <=>
               TextOrder(d) = "Allow" \/ (w[1] = "Order" /\ w[2] = "AllowDeny"))
         /\ (TextFull(e) <=> TextFull(d) \/ (w[1] = "UseFullPath" /\ w[2] = "true"))
         /\ (TextOrder(e) = TextOrder(d) =>
               \A r : r \in TextRules(e) <=>
                        r \in TextRules(d) \/ (r \in Regexes /\ w[1] = TextOrder(d) /\ r = w[2]))
         /\ w[1] \in SpecNames
<1> DEFINE l == d.lines
           m == Append(l, w)
           n == Len(l)
<1>1. /\ l \in Seq(SpecLines) /\ d.name \in {t.name : t \in Tags}
      /\ d = [name |-> d.name, lines |-> l]
  BY DEF TextRecs
<1>2. /\ n \in Nat /\ DOMAIN l = 1 .. n /\ m \in Seq(SpecLines) /\ Len(m) = n + 1
      /\ DOMAIN m = 1 .. n + 1 /\ m[n + 1] = w /\ \A i \in 1 .. n : m[i] = l[i]
  BY <1>1
<1> HIDE DEF l, m, n
<1>3. e = [name |-> d.name, lines |-> m]
  BY <1>1 DEF l, m, Longer, TextWith
<1>4. e \in TextRecs /\ e.name = d.name /\ e.lines = m /\ d.lines = l
  <2>1. e.name = d.name /\ e.lines = m
    BY <1>3
  <2>2. e \in TextRecs
    <3>1. [name |-> d.name, lines |-> m] \in TextRecs
      BY <1>1, <1>2 DEF TextRecs
    <3> QED BY <1>3, <3>1, Zenon
  <2>3. d.lines = l
    BY DEF l
  <2> QED BY <2>1, <2>2, <2>3
<1>5. \A i : i \in 1 .. n + 1 <=> i \in 1 .. n \/ i = n + 1
  BY <1>2
<1>6. \A j \in 1 .. n : j < n + 1
  BY <1>2
<1>7. Ordered(e) => Ordered(d)
  BY <1>2, <1>4, <1>5 DEF Ordered
<1>8. ASSUME Ordered(e), w[1] \in {"Order", "UseFullPath"}, NEW j \in DOMAIN d.lines
      PROVE  d.lines[j][1] \in {"Order", "UseFullPath"} \ {w[1]}
  <2>1. j \in 1 .. n + 1 /\ j < n + 1 /\ n + 1 \in 1 .. n + 1 /\ m[j] = d.lines[j]
    BY <1>2, <1>4, <1>5, <1>6, <1>8
  <2> QED BY <1>2, <1>4, <1>8, <2>1 DEF Ordered
<1>9. TextOrder(e) = "Allow" <=>
        TextOrder(d) = "Allow" \/ (w[1] = "Order" /\ w[2] = "AllowDeny")
  BY <1>2, <1>4, <1>5 DEF TextOrder
<1>10. TextFull(e) <=> TextFull(d) \/ (w[1] = "UseFullPath" /\ w[2] = "true")
  BY <1>2, <1>4, <1>5 DEF TextFull
<1>11. ASSUME TextOrder(e) = TextOrder(d), NEW r
       PROVE  r \in TextRules(e) <=>
                r \in TextRules(d) \/ (r \in Regexes /\ w[1] = TextOrder(d) /\ r = w[2])
  <2>1. r \in TextRules(e) <=>
          r \in Regexes /\ \E j \in 1 .. n + 1 : m[j][1] = TextOrder(d) /\ m[j][2] = r
    <3>1. r \in TextRules(e) <=>
            r \in Regexes /\ \E j \in DOMAIN e.lines : e.lines[j][1] = TextOrder(e) /\ e.lines[j][2] = r
      BY RulesAre
    <3> QED BY <1>2, <1>4, <1>11, <3>1
  <2>2. r \in TextRules(d) <=>
          r \in Regexes /\ \E j \in 1 .. n : l[j][1] = TextOrder(d) /\ l[j][2] = r
    BY <1>2, <1>4, RulesAre
  <2> QED BY <1>2, <1>5, <2>1, <2>2
<1>12. w[1] \in SpecNames
  BY DEF SpecLines
<1> QED BY <1>4, <1>7, <1>8, <1>9, <1>10, <1>11, <1>12

\* A filter reads a line as the text has it.
LEMMA LineRead ==
  ASSUME NEW s \in SpecRecs, NEW d \in TextRecs, Reads(s, d), NEW w \in SpecLines,
         NEW e, Longer(d, w, e)
  PROVE  Ruled(s, w) \in SpecRecs /\ Reads(Ruled(s, w), e)
<1> DEFINE x == s.expressions
           q == Ruled(s, w)
<1>1. /\ s = [name |-> s.name, type |-> s.type, useFullPath |-> s.useFullPath, expressions |-> x]
      /\ s.name \in {t.name : t \in Tags} /\ s.type \in {"ALLOW_DENY", "DENY_ALLOW"}
      /\ s.useFullPath \in BOOLEAN /\ x \in Seq(Regexes)
  BY DEF SpecRecs
<1>2. /\ Len(x) \in Nat
      /\ \A r \in Regexes :
           /\ Append(x, r) \in Seq(Regexes) /\ Len(Append(x, r)) = Len(x) + 1
           /\ Append(x, r)[Len(x) + 1] = r
           /\ \A i \in 1 .. Len(x) : Append(x, r)[i] = x[i]
  BY <1>1
<1> HIDE DEF x
<1>3. \A f : TextOrder(f) \in {"Allow", "Deny"}
  BY DEF TextOrder
<1>4. /\ w[1] \in SpecNames /\ (Ordered(e) => Ordered(d)) /\ e.name = s.name
      /\ TextOrder(e) = "Allow" <=>
           TextOrder(d) = "Allow" \/ (w[1] = "Order" /\ w[2] = "AllowDeny")
      /\ TextFull(e) <=> TextFull(d) \/ (w[1] = "UseFullPath" /\ w[2] = "true")
  BY TextMore DEF Reads
<1>5. Ordered(d) =>
        /\ s.type = IF TextOrder(d) = "Allow" THEN "ALLOW_DENY" ELSE "DENY_ALLOW"
        /\ s.useFullPath <=> TextFull(d)
        /\ \A r \in Regexes : r \in TextRules(d) <=> \E i \in 1 .. Len(x) : x[i] = r
  BY DEF Reads, x
<1>6. ASSUME Ordered(e), w[1] \in {"Order", "UseFullPath"}, NEW r
      PROVE  r \notin TextRules(d) /\ r \notin TextRules(e)
  <2>1. \A j \in DOMAIN d.lines : d.lines[j][1] \in {"Order", "UseFullPath"}
    BY <1>6, TextMore
  <2>2. r \notin TextRules(d)
    BY <1>3, <2>1, RulesAre
  <2>3. r \notin TextRules(e)
    <3> DEFINE l == d.lines
               m == Append(l, w)
    <3>1. l \in Seq(SpecLines) /\ e.lines = m
      BY DEF TextRecs, Longer, TextWith
    <3>2. \A j \in DOMAIN m : m[j] = w \/ \E i \in DOMAIN l : m[j] = l[i]
      BY <3>1
    <3> HIDE DEF m
    <3>3. \A j \in DOMAIN e.lines : e.lines[j][1] \in {"Order", "UseFullPath"}
      BY <1>6, <2>1, <3>1, <3>2
    <3>4. r \in TextRules(e) =>
            \E j \in DOMAIN e.lines : e.lines[j][1] = TextOrder(e) /\ e.lines[j][2] = r
      BY RulesAre
    <3> QED BY <1>3, <3>3, <3>4
  <2> QED BY <2>2, <2>3
<1>7. CASE w[1] = "Order"
  <2> DEFINE type == IF w[2] = "AllowDeny" THEN "ALLOW_DENY" ELSE s.type
  <2>1. q = [name |-> s.name, type |-> type, useFullPath |-> s.useFullPath, expressions |-> x]
    BY <1>1, <1>7 DEF Ruled
  <2>2. q \in SpecRecs
    BY <1>1, <2>1 DEF SpecRecs
  <2>3. q.name = s.name /\ q.type = type /\ q.useFullPath = s.useFullPath /\ q.expressions = x
    BY <2>1
  <2> HIDE DEF q
  <2>4. ASSUME Ordered(e)
        PROVE  /\ type = IF TextOrder(e) = "Allow" THEN "ALLOW_DENY" ELSE "DENY_ALLOW"
               /\ s.useFullPath <=> TextFull(e)
               /\ \A r \in Regexes : r \in TextRules(e) <=> \E i \in 1 .. Len(x) : x[i] = r
    <3>1. s.useFullPath <=> TextFull(e)
      BY <1>4, <1>5, <1>7, <2>4
    <3>2. \A r \in Regexes : r \in TextRules(e) <=> \E i \in 1 .. Len(x) : x[i] = r
      BY <1>4, <1>5, <1>6, <1>7, <2>4
    <3>3. type = IF TextOrder(e) = "Allow" THEN "ALLOW_DENY" ELSE "DENY_ALLOW"
      BY <1>4, <1>5, <1>7, <2>4
    <3> QED BY <3>1, <3>2, <3>3
  <2>5. Reads(q, e)
    BY <1>4, <2>3, <2>4 DEF Reads
  <2> QED BY <2>2, <2>5 DEF q
<1>8. CASE w[1] = "UseFullPath"
  <2> DEFINE full == s.useFullPath \/ w[2] = "true"
  <2>1. q = [name |-> s.name, type |-> s.type, useFullPath |-> full, expressions |-> x]
    BY <1>1, <1>8 DEF Ruled
  <2>2. q \in SpecRecs
    BY <1>1, <2>1 DEF SpecRecs
  <2>3. q.name = s.name /\ q.type = s.type /\ q.useFullPath = full /\ q.expressions = x
    BY <2>1
  <2> HIDE DEF q
  <2>4. ASSUME Ordered(e)
        PROVE  /\ s.type = IF TextOrder(e) = "Allow" THEN "ALLOW_DENY" ELSE "DENY_ALLOW"
               /\ full <=> TextFull(e)
               /\ \A r \in Regexes : r \in TextRules(e) <=> \E i \in 1 .. Len(x) : x[i] = r
    <3>1. full <=> TextFull(e)
      BY <1>4, <1>5, <1>8, <2>4
    <3>2. \A r \in Regexes : r \in TextRules(e) <=> \E i \in 1 .. Len(x) : x[i] = r
      BY <1>4, <1>5, <1>6, <1>8, <2>4
    <3>3. s.type = IF TextOrder(e) = "Allow" THEN "ALLOW_DENY" ELSE "DENY_ALLOW"
      BY <1>4, <1>5, <1>8, <2>4
    <3> QED BY <3>1, <3>2, <3>3
  <2>5. Reads(q, e)
    BY <1>4, <2>3, <2>4 DEF Reads
  <2> QED BY <2>2, <2>5 DEF q
<1>9. CASE w[1] \in {"Allow", "Deny"}
  <2> DEFINE kept == IsRule(s, w) /\ w[2] \in Regexes
  <2>1. TextOrder(e) = TextOrder(d)
    BY <1>3, <1>4, <1>9
  <2>2. \A r : r \in TextRules(e) <=>
                 r \in TextRules(d) \/ (r \in Regexes /\ w[1] = TextOrder(d) /\ r = w[2])
    BY <2>1, TextMore
  <2>3. Ordered(e) => (kept <=> w[2] \in Regexes /\ w[1] = TextOrder(d))
    BY <1>3, <1>4, <1>5, <1>9, AllAssumption DEF IsRule
  <2>4. CASE kept
    <3> DEFINE y == Append(x, w[2])
    <3>1. q = [name |-> s.name, type |-> s.type, useFullPath |-> s.useFullPath, expressions |-> y]
      BY <1>1, <1>9, <2>4 DEF Ruled, x
    <3>2. /\ y \in Seq(Regexes) /\ Len(y) = Len(x) + 1 /\ y[Len(x) + 1] = w[2]
          /\ \A i \in 1 .. Len(x) : y[i] = x[i]
      BY <1>2, <2>4
    <3> HIDE DEF y
    <3>3. q \in SpecRecs
      BY <1>1, <3>1, <3>2 DEF SpecRecs
    <3>4. /\ q.name = s.name /\ q.type = s.type /\ q.useFullPath = s.useFullPath
          /\ q.expressions = y
      BY <3>1
    <3> HIDE DEF q
    <3>5. ASSUME Ordered(e), NEW r \in Regexes
          PROVE  r \in TextRules(e) <=> \E i \in 1 .. Len(y) : y[i] = r
      <4>1. (\E i \in 1 .. Len(y) : y[i] = r) <=> (\E i \in 1 .. Len(x) : x[i] = r) \/ r = w[2]
        <5>1. \A i : i \in 1 .. Len(x) + 1 <=> i \in 1 .. Len(x) \/ i = Len(x) + 1
          BY <1>2
        <5> QED BY <3>2, <5>1
      <4>2. r \in TextRules(d) <=> \E i \in 1 .. Len(x) : x[i] = r
        BY <1>4, <1>5, <3>5
      <4> QED BY <2>2, <2>3, <2>4, <3>5, <4>1, <4>2
    <3>6. ASSUME Ordered(e)
          PROVE  /\ s.type = IF TextOrder(e) = "Allow" THEN "ALLOW_DENY" ELSE "DENY_ALLOW"
                 /\ s.useFullPath <=> TextFull(e)
      BY <1>4, <1>5, <1>9, <2>1, <3>6
    <3>7. Reads(q, e)
      BY <1>4, <3>4, <3>5, <3>6 DEF Reads
    <3> QED BY <3>3, <3>7 DEF q
  <2>5. CASE ~kept
    <3>1. q = s
      BY <1>9, <2>5 DEF Ruled
    <3>2. ASSUME Ordered(e)
          PROVE  /\ s.type = IF TextOrder(e) = "Allow" THEN "ALLOW_DENY" ELSE "DENY_ALLOW"
                 /\ s.useFullPath <=> TextFull(e)
                 /\ \A r \in Regexes : r \in TextRules(e) <=> \E i \in 1 .. Len(x) : x[i] = r
      <4>1. /\ s.type = IF TextOrder(e) = "Allow" THEN "ALLOW_DENY" ELSE "DENY_ALLOW"
            /\ s.useFullPath <=> TextFull(e)
        BY <1>4, <1>5, <1>9, <2>1, <3>2
      <4>2. \A r \in Regexes : r \in TextRules(e) <=> r \in TextRules(d)
        BY <2>2, <2>3, <2>5, <3>2
      <4> QED BY <1>4, <1>5, <3>2, <4>1, <4>2
    <3>3. Reads(s, e)
      BY <1>4, <3>2 DEF Reads, x
    <3> QED BY <3>1, <3>3
  <2> QED BY <2>4, <2>5
<1> QED BY <1>4, <1>7, <1>8, <1>9 DEF SpecNames

\* A filter that has read a tidy text refuses what the text does.
LEMMA RefusesAsWritten ==
  ASSUME NEW s \in SpecRecs, NEW d, Reads(s, d), Tidy(d), NEW t
  PROVE  Refuses(s, t) <=> TextRefuses(d, t)
<1> DEFINE x == s.expressions
           p == IF s.useFullPath THEN t.full ELSE t.path
<1>1. x \in Seq(Regexes)
  BY DEF SpecRecs
<1>2. Len(x) \in Nat /\ DOMAIN x = 1 .. Len(x) /\ \A i \in 1 .. Len(x) : x[i] \in Regexes
  BY <1>1
<1>3. Ordered(d) /\ TextRules(d) # {}
  BY DEF Tidy, Ordered
<1>4. /\ s.type = IF TextOrder(d) = "Allow" THEN "ALLOW_DENY" ELSE "DENY_ALLOW"
      /\ s.useFullPath <=> TextFull(d)
      /\ \A r \in Regexes : r \in TextRules(d) <=> \E i \in 1 .. Len(x) : x[i] = r
  BY <1>3 DEF Reads
<1>5. \A r \in TextRules(d) : r \in Regexes
  BY RulesAre
<1> HIDE DEF x, p
<1>6. x # <<>>
  BY <1>2, <1>3, <1>4, <1>5
<1>7. Matched(s, t) <=> \E i \in 1 .. Len(x) : p \in CompiledAs[x[i]]
  BY <1>2 DEF Matched, x, p
<1>8. (\E i \in 1 .. Len(x) : p \in CompiledAs[x[i]]) <=> \E r \in TextRules(d) : p \in CompiledAs[r]
  BY <1>2, <1>4, <1>5
<1>9. p = IF TextFull(d) THEN t.full ELSE t.path
  BY <1>4 DEF p
<1>10. TextRefuses(d, t) <=>
         IF TextOrder(d) = "Allow" THEN ~\E r \in TextRules(d) : p \in CompiledAs[r]
         ELSE \E r \in TextRules(d) : p \in CompiledAs[r]
  BY <1>9 DEF TextRefuses
<1>11. Refuses(s, t) <=> IF TextOrder(d) = "Allow" THEN ~Matched(s, t) ELSE Matched(s, t)
  BY <1>4, <1>6 DEF Refuses, x
<1> QED BY <1>7, <1>8, <1>10, <1>11
-----------------------------------------------------------------------------
(* The filters of a configuration.                                         *)

ApplyKey == <<"ApplyFileSpec", "Name">>
ApplyWords == {w[2] : w \in {v \in Words : v[1] = "ApplyFileSpec" /\ Len(v) # 1}}

Defines(all, defined) ==
  /\ defined \in Seq(TextRecs) /\ Len(defined) = Len(all)
  /\ \A i \in 1 .. Len(all) : Reads(all[i], defined[i])

Chosen(values) ==
  IF values[ApplyKey] = None THEN <<>>
  ELSE FileSpecActiveProfils(allSpecs, ProfilesIn[values[ApplyKey]])

Filtered ==
  /\ allSpecs \in Seq(SpecRecs)
  /\ ~written.nested =>
       /\ Defines(allSpecs, written.defined)
       /\ status = "read" /\ files[Len(files)].now.type = "FILESPEC" => allSpecs # <<>>
       /\ written.values[ApplyKey] \in ApplyWords \cup {None}
       /\ status = "ready" => selected = Chosen(written.values)

LEMMA ApplyKeyIs == ApplyKey \in Keys /\ KindOf[ApplyKey[1]] = "STRING" /\ ApplyKey[2] = "Name"
BY KindsAssumption DEF ApplyKey, Keys

\* Before any line.
LEMMA NothingFiltered ==
  /\ <<>> \in Seq(SpecRecs)
  /\ Defines(<<>>, NothingSaid.defined)
  /\ NothingSaid.values[ApplyKey] = None
<1>1. NothingSaid.defined = <<>> /\ NothingSaid.values[ApplyKey] = None
  BY ApplyKeyIs DEF NothingSaid
<1>2. <<>> \in Seq(TextRecs) /\ Len(<<>>) = 0
  OBVIOUS
<1> QED BY <1>1, <1>2 DEF Defines

LEMMA ExitFiltered == ASSUME Exit  PROVE Filtered'
<1>1. allSpecs' = <<>> /\ written' = NothingSaid /\ status' = "exited"
  BY DEF Exit
<1> QED BY <1>1, NothingFiltered DEF Filtered

LEMMA InitFiltered == Init => Filtered
<1>1. Init => allSpecs = <<>> /\ written = NothingSaid /\ status = "start"
  BY DEF Init
<1> QED BY <1>1, NothingFiltered DEF Filtered

\* A sequence with one element before it.
LEMMA Pushed ==
  ASSUME NEW S, NEW x \in Seq(S), Len(x) = 1, NEW y \in Seq(S)
  PROVE  /\ x \o y \in Seq(S) /\ Len(x \o y) = 1 + Len(y)
         /\ \A i \in 1 .. 1 + Len(y) : (x \o y)[i] = IF i <= 1 THEN x[i] ELSE y[i - 1]
<1>1. x \o y \in Seq(S)
  BY ConcatProperties
<1>2. Len(x \o y) = Len(x) + Len(y)
  BY ConcatProperties
<1>3. \A i \in 1 .. Len(x) + Len(y) :
        (x \o y)[i] = IF i <= Len(x) THEN x[i] ELSE y[i - Len(x)]
  BY ConcatProperties
<1> QED BY <1>1, <1>2, <1>3

\* One filter more, before the others.
LEMMA DefinesMore ==
  ASSUME NEW all \in Seq(SpecRecs), NEW defined, Defines(all, defined), NEW t \in Tags
  PROVE  /\ FileSpecEnter(all, t.name) \in Seq(SpecRecs) /\ FileSpecEnter(all, t.name) # <<>>
         /\ Defines(FileSpecEnter(all, t.name), <<Text0(t.name)>> \o defined)
<1> DEFINE s == Spec0(t.name)
           d == Text0(t.name)
           a == <<s>> \o all
           b == <<d>> \o defined
           n == Len(all)
<1>1. s \in SpecRecs /\ d \in TextRecs /\ Reads(s, d)
  BY NewSpec
<1>2. n \in Nat /\ defined \in Seq(TextRecs) /\ Len(defined) = n
      /\ \A i \in 1 .. n : Reads(all[i], defined[i])
  BY DEF Defines
<1> HIDE DEF s, d
<1>3. <<s>> \in Seq(SpecRecs) /\ Len(<<s>>) = 1 /\ <<s>>[1] = s
      /\ <<d>> \in Seq(TextRecs) /\ Len(<<d>>) = 1 /\ <<d>>[1] = d
  BY <1>1
<1> DEFINE s1 == <<s>>
           d1 == <<d>>
<1>4. s1 \in Seq(SpecRecs) /\ Len(s1) = 1 /\ s1[1] = s
      /\ d1 \in Seq(TextRecs) /\ Len(d1) = 1 /\ d1[1] = d
      /\ a = s1 \o all /\ b = d1 \o defined
  BY <1>3
<1> HIDE DEF s1, d1, a, b, n
<1>5. /\ a \in Seq(SpecRecs) /\ Len(a) = 1 + n
      /\ \A i \in 1 .. 1 + n : a[i] = IF i <= 1 THEN s1[i] ELSE all[i - 1]
  BY <1>4, Pushed DEF n
<1>6. /\ b \in Seq(TextRecs) /\ Len(b) = 1 + n
      /\ \A i \in 1 .. 1 + n : b[i] = IF i <= 1 THEN d1[i] ELSE defined[i - 1]
  BY <1>2, <1>4, Pushed
<1>7. ASSUME NEW i \in 1 .. 1 + n  PROVE Reads(a[i], b[i])
  <2>1. CASE i = 1
    <3>1. a[i] = s /\ b[i] = d
      BY <1>2, <1>4, <1>5, <1>6, <2>1
    <3> QED BY <1>1, <3>1
  <2>2. CASE i # 1
    <3> DEFINE j == i - 1
    <3>1. j \in 1 .. n /\ ~(i <= 1)
      BY <1>2, <2>2
    <3>2. a[i] = all[j] /\ b[i] = defined[j]
      BY <1>5, <1>6, <3>1
    <3> HIDE DEF j
    <3> QED BY <1>2, <3>1, <3>2
  <2> QED BY <2>1, <2>2
<1>8. FileSpecEnter(all, t.name) = a /\ <<Text0(t.name)>> \o defined = b
  BY <1>4 DEF FileSpecEnter, s, d, s1, d1
<1>9. a # <<>> /\ Defines(a, b)
  BY <1>2, <1>5, <1>6, <1>7 DEF Defines
<1> QED BY <1>5, <1>8, <1>9

\* A line more, for the filter that was defined last.
LEMMA DefinesLine ==
  ASSUME NEW all \in Seq(SpecRecs), all # <<>>, NEW defined, Defines(all, defined),
         NEW w \in SpecLines
  PROVE  /\ FileSpecParse(all, w) \in Seq(SpecRecs)
         /\ Defines(FileSpecParse(all, w), WithLine(defined, w))
<1> DEFINE n == Len(all)
           s == all[1]
           d == defined[1]
           q == Ruled(s, w)
           e == TextWith(d, w)
           a == [all EXCEPT ![1] = q]
           b == [defined EXCEPT ![1] = e]
<1>1. n \in Nat \ {0} /\ DOMAIN all = 1 .. n /\ defined \in Seq(TextRecs) /\ Len(defined) = n
      /\ DOMAIN defined = 1 .. n /\ \A i \in 1 .. n : Reads(all[i], defined[i])
  BY DEF Defines
<1>2. 1 \in 1 .. n /\ s \in SpecRecs /\ d \in TextRecs /\ Reads(s, d)
  BY <1>1
<1>3. Longer(d, w, e)
  BY DEF Longer
<1>4. ~(Len(w) < 2)
  <2>1. w \in Words /\ Len(w) # 1
    BY DEF SpecLines
  <2>2. Len(w) \in Nat \ {0}
    BY <2>1, WordsAssumption
  <2>3. \A k \in Nat \ {0} : k # 1 => ~(k < 2)
    OBVIOUS
  <2> QED BY <2>1, <2>2, <2>3, Zenon
<1>5. FileSpecParse(all, w) = a /\ WithLine(defined, w) = b
  <2>1. WithLine(defined, w) = b
    BY Zenon DEF WithLine
  <2>2. FileSpecParse(all, w) = a
    BY <1>4, Zenon DEF FileSpecParse
  <2> QED BY <2>1, <2>2
<1> HIDE DEF s, d, e
<1>6. q \in SpecRecs /\ Reads(q, e) /\ e \in TextRecs
  BY <1>2, <1>3, LineRead, TextMore
<1> HIDE DEF n, q
<1>7. /\ a \in Seq(SpecRecs) /\ Len(a) = n /\ a[1] = q
      /\ \A i \in 1 .. n : i # 1 => a[i] = all[i]
  BY <1>1, <1>2, <1>6 DEF n
<1>8. /\ b \in Seq(TextRecs) /\ Len(b) = n /\ b[1] = e
      /\ \A i \in 1 .. n : i # 1 => b[i] = defined[i]
  BY <1>1, <1>2, <1>6
<1> HIDE DEF a, b
<1>9. \A i \in 1 .. n : Reads(a[i], b[i])
  BY <1>1, <1>6, <1>7, <1>8
<1>10. Defines(a, b)
  BY <1>7, <1>8, <1>9 DEF Defines
<1> QED BY <1>5, <1>7, <1>10

\* A line that the filter has no use for.
LEMMA NotRead ==
  ASSUME NEW all \in Seq(SpecRecs), all # <<>>, NEW w \in Words, w \notin SpecLines
  PROVE  FileSpecParse(all, w) = all
<1>1. CASE Len(w) = 1
  BY <1>1 DEF FileSpecParse
<1>2. CASE Len(w) # 1
  <2>1. w[1] \notin SpecNames
    BY <1>2 DEF SpecLines
  <2>2. 1 \in DOMAIN all /\ all[1] \in SpecRecs /\ all[1].type \in {"ALLOW_DENY", "DENY_ALLOW"}
    <3>1. Len(all) \in Nat \ {0} /\ DOMAIN all = 1 .. Len(all)
      OBVIOUS
    <3>2. all[1] \in SpecRecs
      BY <3>1
    <3> QED BY <3>1, <3>2 DEF SpecRecs
  <2>3. Ruled(all[1], w) = all[1]
    BY <2>1, <2>2 DEF Ruled, IsRule, SpecNames
  <2>4. [all EXCEPT ![1] = all[1]] = all
    BY <2>2
  <2>5. [all EXCEPT ![1] = Ruled(all[1], w)] = all
    BY <2>3, <2>4
  <2> QED BY <2>5 DEF FileSpecParse
<1> QED BY <1>1, <1>2

\* The names to apply are the words of a line.
LEMMA NamesGiven ==
  ASSUME NEW w \in Words, GivenTo(w, ApplyKey) # None
  PROVE  GivenTo(w, ApplyKey) \in ApplyWords
<1>1. /\ w[1] = "ApplyFileSpec" /\ Len(w) # 1
      /\ GivenTo(w, ApplyKey) = w[2]
  BY ApplyKeyIs DEF GivenTo, ApplyKey
<1> QED BY <1>1 DEF ApplyWords

\* A filter that has read a line is one more filter of the same kind.
LEMMA RuledTyped ==
  ASSUME NEW s \in SpecRecs, NEW w  PROVE Ruled(s, w) \in SpecRecs
<1> DEFINE x == s.expressions
<1>1. /\ s = [name |-> s.name, type |-> s.type, useFullPath |-> s.useFullPath, expressions |-> x]
      /\ s.name \in {t.name : t \in Tags} /\ s.type \in {"ALLOW_DENY", "DENY_ALLOW"}
      /\ s.useFullPath \in BOOLEAN /\ x \in Seq(Regexes)
  BY DEF SpecRecs
<1>2. \A r \in Regexes : Append(x, r) \in Seq(Regexes)
  BY <1>1
<1> HIDE DEF x
<1>3. CASE w[1] = "Order"
  BY <1>1, <1>3 DEF Ruled, SpecRecs
<1>4. CASE w[1] = "UseFullPath"
  BY <1>1, <1>4 DEF Ruled, SpecRecs
<1>5. CASE w[1] # "Order" /\ w[1] # "UseFullPath" /\ IsRule(s, w) /\ w[2] \in Regexes
  BY <1>1, <1>2, <1>5 DEF Ruled, SpecRecs, x
<1>6. CASE w[1] # "Order" /\ w[1] # "UseFullPath" /\ ~(IsRule(s, w) /\ w[2] \in Regexes)
  BY <1>6 DEF Ruled
<1> QED BY <1>3, <1>4, <1>5, <1>6

LEMMA ParseTyped ==
  ASSUME NEW all \in Seq(SpecRecs), NEW w
  PROVE  /\ FileSpecParse(all, w) \in Seq(SpecRecs)
         /\ (all # <<>> => FileSpecParse(all, w) # <<>>)
<1>1. CASE all = <<>> \/ Len(w) < 2
  BY <1>1 DEF FileSpecParse
<1>2. CASE ~(all = <<>> \/ Len(w) < 2)
  <2> DEFINE q == Ruled(all[1], w)
  <2>1. Len(all) \in Nat \ {0} /\ DOMAIN all = 1 .. Len(all) /\ 1 \in 1 .. Len(all)
    BY <1>2
  <2>2. all[1] \in SpecRecs
    BY <2>1
  <2>3. q \in SpecRecs
    BY <2>2, RuledTyped
  <2>4. FileSpecParse(all, w) = [all EXCEPT ![1] = q]
    BY <1>2, Zenon DEF FileSpecParse
  <2> HIDE DEF q
  <2> QED BY <1>2, <2>1, <2>3, <2>4
<1> QED BY <1>1, <1>2

\* What the record of the lines is.
LEMMA WrittenIs ==
  ASSUME IInv, ~written.nested
  PROVE  \E v, d : written = [nested |-> FALSE, values |-> v, defined |-> d]
BY DEF IInv, Nested

LEMMA OpenTagFiltered == ASSUME IInv, Filtered, NEW t \in Tags, OpenTag(t)  PROVE Filtered'
<1> DEFINE e == Entry(t)
<1>1. e \in Nows /\ e.type = t.type /\ (t.type = "FILESPEC" => e.data1 = t.name)
  BY DEF Stacked, Nows, Entry
<1>2. /\ status = "read" /\ status' = status
      /\ allSpecs' = IF t.type = "FILESPEC" THEN FileSpecEnter(allSpecs, t.name) ELSE allSpecs
      /\ AfterTag(Current.opened + 1, tags', e)
      /\ written' = SaysTag(Current.now, e)
  BY DEF OpenTag, ReadLine, Keep
<1>3. files # <<>> /\ files \in Seq(FileRecs)
  BY <1>2 DEF IInv, Reading
<1>4. Current.opened + 1 \in Nat
  BY <1>3, CurrentIs
<1> HIDE DEF e
<1>5. Len(files') = Len(files) /\ files'[Len(files)].now = e
  BY <1>1, <1>2, <1>3, <1>4, AfterTagIs
<1>6. allSpecs \in Seq(SpecRecs)
  BY DEF Filtered
<1>7. CASE written.nested \/ Current.now # NoTag
  <2>1. written'.nested
    BY <1>2, <1>7 DEF SaysTag, Nested
  <2>2. \A d : FileSpecEnter(allSpecs, t.name) \in Seq(SpecRecs)
    <3>1. Spec0(t.name) \in SpecRecs
      BY NewSpec
    <3>2. <<Spec0(t.name)>> \in Seq(SpecRecs)
      BY <3>1
    <3> QED BY <1>6, <3>2, ConcatProperties DEF FileSpecEnter
  <2>3. allSpecs' \in Seq(SpecRecs)
    BY <1>2, <1>6, <2>2
  <2> QED BY <2>1, <2>3 DEF Filtered
<1>8. CASE ~written.nested /\ Current.now = NoTag
  <2>1. PICK v, d : written = [nested |-> FALSE, values |-> v, defined |-> d]
    BY <1>8, WrittenIs
  <2>2. Defines(allSpecs, d) /\ v[ApplyKey] \in ApplyWords \cup {None}
    BY <1>8, <2>1 DEF Filtered
  <2>3. CASE t.type = "FILESPEC"
    <3>1. written' = [nested |-> FALSE, values |-> v, defined |-> <<Text0(t.name)>> \o d]
      BY <1>1, <1>2, <1>8, <2>1, <2>3 DEF SaysTag
    <3>2. /\ allSpecs' \in Seq(SpecRecs) /\ allSpecs' # <<>>
          /\ Defines(allSpecs', <<Text0(t.name)>> \o d)
      BY <1>2, <1>6, <2>2, <2>3, DefinesMore
    <3>3. Defines(allSpecs', written'.defined) /\ written'.values = v
      BY <3>1, <3>2
    <3> QED BY <1>2, <2>2, <3>2, <3>3 DEF Filtered
  <2>4. CASE t.type # "FILESPEC"
    <3>1. written' = written /\ allSpecs' = allSpecs
      BY <1>1, <1>2, <1>8, <2>4 DEF SaysTag
    <3>2. files'[Len(files')].now.type # "FILESPEC"
      BY <1>1, <1>5, <2>4
    <3> QED BY <1>2, <1>6, <2>1, <2>2, <3>1, <3>2 DEF Filtered
  <2> QED BY <2>3, <2>4
<1> QED BY <1>7, <1>8

\* Tags that are no filter's leave the filters alone.
LEMMA OtherTagFiltered ==
  ASSUME Filtered, status' # "ready", allSpecs' = allSpecs,
         written' = written \/ written' = Nested,
         status' = "read" => files'[Len(files')].now.type # "FILESPEC"
  PROVE  Filtered'
<1>1. CASE written' = Nested
  <2>1. written'.nested
    BY <1>1 DEF Nested
  <2> QED BY <2>1 DEF Filtered
<1>2. CASE written' = written
  BY <1>2 DEF Filtered
<1> QED BY <1>1, <1>2

LEMMA OpenBareTagFiltered == ASSUME IInv, Filtered, OpenBareTag  PROVE Filtered'
<1>1. BareEntry \in Nows /\ BareEntry.type # "FILESPEC"
  BY DEF Nows, BareEntry
<1>2. /\ status = "read" /\ status' = status /\ allSpecs' = allSpecs
      /\ AfterTag(Current.opened + 1, tags, BareEntry)
      /\ written' = SaysTag(Current.now, BareEntry)
  BY DEF OpenBareTag, ReadLine, Keep
<1>3. files # <<>> /\ files \in Seq(FileRecs)
  BY <1>2 DEF IInv, Reading
<1>4. Current.opened + 1 \in Nat
  BY <1>3, CurrentIs
<1>5. Len(files') = Len(files) /\ files'[Len(files)].now = BareEntry
  BY <1>1, <1>2, <1>3, <1>4, AfterTagIs
<1>6. written' = written \/ written' = Nested
  BY <1>1, <1>2 DEF SaysTag
<1>7. files'[Len(files')].now.type # "FILESPEC" /\ status' # "ready"
  BY <1>1, <1>2, <1>5
<1> QED BY <1>2, <1>6, <1>7, OtherTagFiltered

LEMMA CloseTagFiltered == ASSUME IInv, Filtered, CloseTag  PROVE Filtered'
<1>1. CASE Current.opened = 0
  BY <1>1, ExitFiltered DEF CloseTag
<1>2. CASE Current.opened # 0
  <2>1. /\ status = "read" /\ status' = status /\ allSpecs' = allSpecs /\ written' = written
        /\ AfterTag(Current.opened - 1, tags', NoTag)
    BY <1>2 DEF CloseTag, ReadLine, Keep
  <2>2. files # <<>> /\ files \in Seq(FileRecs)
    BY <2>1 DEF IInv, Reading
  <2>3. Current.opened - 1 \in Nat
    BY <1>2, <2>2, CurrentIs
  <2>4. NoTag \in Nows /\ NoTag.type # "FILESPEC"
    BY DEF Nows, NoTag
  <2>5. Len(files') = Len(files) /\ files'[Len(files)].now = NoTag
    BY <2>1, <2>2, <2>3, <2>4, AfterTagIs
  <2>6. files'[Len(files')].now.type # "FILESPEC" /\ status' # "ready"
    BY <2>1, <2>4, <2>5
  <2> QED BY <2>1, <2>6, OtherTagFiltered
<1> QED BY <1>1, <1>2

\* The lines of a tag that is not for the session.
LEMMA SkipWordsFiltered == ASSUME IInv, Filtered, SkipWords  PROVE Filtered'
<1>1. PICK w \in Words : written' = SaysWord(w, Current.now)
  BY DEF SkipWords
<1>2. /\ status = "read" /\ status' = status /\ allSpecs' = allSpecs
      /\ files' = files /\ ~Current.active
  BY DEF SkipWords, ReadLine, Keep
<1>3. files # <<>> /\ files \in Seq(FileRecs)
  BY <1>2 DEF IInv, Reading
<1>4. written' = written
  <2>1. CASE written.nested
    BY <1>1, <2>1 DEF SaysWord
  <2>2. CASE ~written.nested
    <3>1. ~Applies(who, Current.now)
      BY <1>2, <1>3, <2>2, CurrentIs DEF IInv, Reading, Plain
    <3>2. Current.now # NoTag /\ ~IsFor(who, Current.now) /\ Current.now.type # "FILESPEC"
      BY <3>1, EntryTypes DEF Applies
    <3> QED BY <1>1, <2>2, <3>2 DEF SaysWord
  <2> QED BY <2>1, <2>2
<1> QED BY <1>2, <1>4 DEF Filtered

\* The lines of a filter.
LEMMA SpecWordsFiltered ==
  ASSUME IInv, Filtered, NEW w \in Words, SpecWords(w)  PROVE Filtered'
<1>1. /\ status = "read" /\ status' = status /\ files' = files
      /\ allSpecs' = FileSpecParse(allSpecs, w) /\ written' = SaysWord(w, Current.now)
      /\ tags # <<>> /\ tags[Len(tags)].type = "FILESPEC"
  BY DEF SpecWords, Active, ReadLine, Keep, TagIsOpen, Last
<1>2. files # <<>> /\ files \in Seq(FileRecs) /\ tags \in Seq(Stacked)
  BY <1>1 DEF IInv, Reading
<1>3. allSpecs \in Seq(SpecRecs)
  BY DEF Filtered
<1>4. CASE written.nested
  <2>1. written' = written
    BY <1>1, <1>4 DEF SaysWord
  <2>2. allSpecs' \in Seq(SpecRecs)
    BY <1>1, <1>3, ParseTyped
  <2> QED BY <1>4, <2>1, <2>2 DEF Filtered
<1>5. CASE ~written.nested
  <2>1. PICK v, d : written = [nested |-> FALSE, values |-> v, defined |-> d]
    BY <1>5, WrittenIs
  <2>2. Len(tags) \in 1 .. Len(tags)
    BY <1>1, <1>2
  <2>3. Current.now.type = "FILESPEC" /\ Current.now = files[Len(files)].now
    BY <1>1, <1>2, <1>5, <2>2, CurrentIs DEF IInv, Reading, Plain
  <2>4. allSpecs # <<>> /\ Defines(allSpecs, d) /\ v[ApplyKey] \in ApplyWords \cup {None}
    BY <1>1, <1>5, <2>1, <2>3 DEF Filtered
  <2>5. CASE w \in SpecLines
    <3>1. allSpecs' \in Seq(SpecRecs) /\ Defines(allSpecs', WithLine(d, w))
      BY <1>1, <1>3, <2>4, <2>5, DefinesLine
    <3>2. written' = [nested |-> FALSE, values |-> v, defined |-> WithLine(d, w)]
      BY <1>1, <1>5, <2>1, <2>3, <2>5 DEF SaysWord, SpecLines
    <3>3. allSpecs' # <<>>
      BY <1>1, <1>3, <2>4, ParseTyped
    <3>4. Defines(allSpecs', written'.defined) /\ written'.values = v
      BY <3>1, <3>2
    <3> QED BY <1>1, <2>4, <3>1, <3>3, <3>4 DEF Filtered
  <2>6. CASE w \notin SpecLines
    <3>1. allSpecs' = allSpecs
      BY <1>1, <1>3, <2>4, <2>6, NotRead
    <3>2. written' = written
      BY <1>1, <1>5, <2>3, <2>6 DEF SaysWord, SpecLines
    <3> QED BY <1>1, <3>1, <3>2 DEF Filtered
  <2> QED BY <2>5, <2>6
<1> QED BY <1>4, <1>5

LEMMA ParamWordsFiltered ==
  ASSUME IInv, Filtered, NEW w \in Words, ParamWords(w)  PROVE Filtered'
<1>1. /\ status = "read" /\ status' = status /\ files' = files /\ allSpecs' = allSpecs
      /\ written' = SaysWord(w, Current.now) /\ Current.active
      /\ ~(tags # <<>> /\ tags[Len(tags)].type = "FILESPEC")
  BY DEF ParamWords, Active, ReadLine, Keep, TagIsOpen, Last
<1>2. files # <<>> /\ files \in Seq(FileRecs) /\ tags \in Seq(Stacked)
  BY <1>1 DEF IInv, Reading
<1>3. CASE written.nested
  <2>1. written' = written
    BY <1>1, <1>3 DEF SaysWord
  <2> QED BY <1>1, <2>1 DEF Filtered
<1>4. CASE ~written.nested
  <2>1. PICK v, d : written = [nested |-> FALSE, values |-> v, defined |-> d]
    BY <1>4, WrittenIs
  <2>2. Applies(who, Current.now) /\ Current.now.type # "FILESPEC"
        /\ Current.now = files[Len(files)].now
    BY <1>1, <1>2, <1>4, CurrentIs DEF IInv, Reading, Plain
  <2>3. written' = [nested |-> FALSE, values |-> Gives(w, v), defined |-> d]
    <3>1. written' = [written EXCEPT !.values = Gives(w, v)]
      <4>1. written' = [written EXCEPT !.values =
              [k \in Keys |-> IF GivenTo(w, k) = None THEN written.values[k] ELSE GivenTo(w, k)]]
        BY <1>1, <1>4, <2>2 DEF SaysWord, Applies
      <4> QED BY <4>1, <2>1 DEF Gives
    <3> QED BY <2>1, <3>1
  <2>4. Defines(allSpecs, d) /\ v[ApplyKey] \in ApplyWords \cup {None}
    BY <1>4, <2>1 DEF Filtered
  <2>5. Gives(w, v)[ApplyKey] \in ApplyWords \cup {None}
    BY <2>4, ApplyKeyIs, NamesGiven DEF Gives
  <2>6. written'.defined = d /\ written'.values[ApplyKey] \in ApplyWords \cup {None}
    BY <2>3, <2>5
  <2> QED BY <1>1, <2>2, <2>4, <2>6 DEF Filtered
<1> QED BY <1>3, <1>4

LEMMA IncludeFiltered == ASSUME IInv, Filtered, Include  PROVE Filtered'
<1>1. /\ status = "read" /\ status' = status /\ allSpecs' = allSpecs /\ written' = written
      /\ files' = Append(files, NewFile) \/ files' = files
  BY DEF Include, Active, ReadLine, Keep
<1>2. files # <<>> /\ files \in Seq(FileRecs)
  BY <1>1 DEF IInv, Reading
<1>3. CASE files' = files
  BY <1>1, <1>3 DEF Filtered
<1>4. CASE files' = Append(files, NewFile)
  <2>1. files'[Len(files')] = NewFile
    BY <1>2, <1>4
  <2>2. NewFile.now.type # "FILESPEC"
    BY DEF NewFile, NoTag
  <2>3. files'[Len(files')].now.type # "FILESPEC" /\ status' # "ready"
    BY <1>1, <2>1, <2>2
  <2> QED BY <1>1, <2>3, OtherTagFiltered
<1> QED BY <1>1, <1>3, <1>4

LEMMA EndOfFileFiltered == ASSUME IInv, Filtered, EndOfFile  PROVE Filtered'
<1>1. CASE Current.opened # 0
  BY <1>1, ExitFiltered DEF EndOfFile
<1>2. CASE Current.opened = 0
  <2>1. /\ status = "read" /\ allSpecs' = allSpecs /\ written' = written
        /\ files' = Front(files)
        /\ status' = IF Len(files) = 1 THEN "loaded" ELSE status
    BY <1>2 DEF EndOfFile
  <2>2. files # <<>> /\ files \in Seq(FileRecs)
    BY <2>1 DEF IInv, Reading
  <2>3. Len(files) \in Nat \ {0}
    BY <2>2, CurrentIs
  <2>4. CASE Len(files) = 1
    BY <2>1, <2>4, OtherTagFiltered
  <2>5. CASE written.nested
    BY <2>1, <2>5 DEF Filtered
  <2>6. CASE ~written.nested /\ Len(files) # 1
    <3>1. Len(files') = Len(files) - 1 /\ \A i \in 1 .. Len(files') : files'[i] = files[i]
      BY <2>1, <2>2, FrontIs
    <3>2. Len(files) - 1 \in 1 .. Len(files) - 1
      <4>1. \A n \in Nat \ {0} : n # 1 => n - 1 \in 1 .. n - 1
        OBVIOUS
      <4> QED BY <2>3, <2>6, <4>1
    <3>3. \A i \in 1 .. Len(files) - 1 : files[i].now.type # "FILESPEC"
      BY <2>1, <2>6 DEF IInv, Reading, Plain
    <3>4. files'[Len(files')].now.type # "FILESPEC"
      BY <3>1, <3>2, <3>3
    <3> QED BY <2>1, <2>6, <3>4, OtherTagFiltered
  <2> QED BY <2>4, <2>5, <2>6
<1> QED BY <1>1, <1>2

\* The filters that are selected are the ones of the last line for this.
LEMMA SettleFiltered == ASSUME IInv, Filtered, Settle  PROVE Filtered'
<1>1. /\ status = "loaded" /\ status' = "ready" /\ allSpecs' = allSpecs /\ written' = written
      /\ selected' = IF hash[ApplyKey].str = None THEN <<>>
                     ELSE FileSpecActiveProfils(allSpecs, ProfilesIn[hash[ApplyKey].str])
  BY DEF Settle, hash_get, ApplyKey
<1>2. CASE written.nested
  BY <1>1, <1>2 DEF Filtered
<1>3. CASE ~written.nested
  <2>1. hash[ApplyKey] = SaidElement(ApplyKey, written.values[ApplyKey])
    BY <1>1, <1>3, ApplyKeyIs DEF IInv, Agrees
  <2>2. hash[ApplyKey].str = written.values[ApplyKey]
    BY <2>1, ApplyKeyIs DEF SaidElement, Absent
  <2>3. selected' = Chosen(written.values)'
    BY <1>1, <2>2 DEF Chosen
  <2> QED BY <1>1, <1>3, <2>3 DEF Filtered
<1> QED BY <1>2, <1>3

LEMMA OpenConfigFiltered == ASSUME IInv, Filtered, OpenConfig  PROVE Filtered'
<1>1. CASE Exit
  BY <1>1, ExitFiltered
<1>2. CASE files' = <<NewFile>> /\ status' = "read" /\ UNCHANGED <<allSpecs, written>>
  <2>1. files'[Len(files')].now.type # "FILESPEC" /\ status' # "ready"
    BY <1>2 DEF NewFile, NoTag
  <2> QED BY <1>2, <2>1, OtherTagFiltered
<1>3. CASE UNCHANGED <<status, files, allSpecs, written>>
  <2>1. status' = "open"
    BY <1>3 DEF OpenConfig
  <2> QED BY <1>3, <2>1 DEF Filtered
<1> QED BY <1>1, <1>2, <1>3 DEF OpenConfig

LEMMA FilteredNext == ASSUME IInv, Filtered, [Next]_vars  PROVE Filtered'
<1>1. CASE LoadConfig
  <2>1. CASE Exit
    BY <2>1, ExitFiltered
  <2>2. CASE status' = "open" /\ UNCHANGED <<allSpecs, written>>
    BY <2>2 DEF Filtered
  <2> QED BY <1>1, <2>1, <2>2 DEF LoadConfig
<1>2. CASE OpenConfig
  BY <1>2, OpenConfigFiltered
<1>3. ASSUME NEW t \in Tags, OpenTag(t)  PROVE Filtered'
  BY <1>3, OpenTagFiltered
<1>4. CASE OpenBareTag
  BY <1>4, OpenBareTagFiltered
<1>5. CASE CloseTag
  BY <1>5, CloseTagFiltered
<1>6. CASE BadTag
  BY <1>6, ExitFiltered DEF BadTag
<1>7. CASE SkipWords
  BY <1>7, SkipWordsFiltered
<1>8. ASSUME NEW w \in Words, SpecWords(w)  PROVE Filtered'
  BY <1>8, SpecWordsFiltered
<1>9. ASSUME NEW w \in Words, ParamWords(w)  PROVE Filtered'
  BY <1>9, ParamWordsFiltered
<1>10. CASE Include
  BY <1>10, IncludeFiltered
<1>11. CASE EndOfFile
  BY <1>11, EndOfFileFiltered
<1>12. CASE Settle
  BY <1>12, SettleFiltered
<1>13. CASE UNCHANGED vars
  BY <1>13 DEF vars, Filtered, Chosen
<1> QED BY <1>1, <1>2, <1>3, <1>4, <1>5, <1>6, <1>7, <1>8, <1>9, <1>10, <1>11, <1>12, <1>13
       DEF Next

\* The filters of a name, in the list and in the lines.
LEMMA NameAllows ==
  ASSUME NEW all \in Seq(SpecRecs), Defines(all, written.defined), NEW name,
         \A d \in LastDefined(name) : Tidy(d), NEW t
  PROVE  Allows(all, name, t) <=> \A d \in LastDefined(name) : ~TextRefuses(d, t)
<1> DEFINE n == Len(all)
           defined == written.defined
<1>1. n \in Nat /\ defined \in Seq(TextRecs) /\ Len(defined) = n /\ DOMAIN defined = 1 .. n
      /\ \A i \in 1 .. n : Reads(all[i], defined[i]) /\ all[i] \in SpecRecs
  BY DEF Defines
<1>2. \A i \in 1 .. n : all[i].name = defined[i].name
  BY <1>1 DEF Reads
<1>3. \A d : d \in LastDefined(name) <=>
               \E i \in 1 .. n : /\ defined[i] = d /\ d.name = name
                                 /\ \A j \in 1 .. i - 1 : defined[j].name # name
  BY <1>1 DEF LastDefined
<1>4. ASSUME NEW i \in 1 .. n
      PROVE  (\A j \in 1 .. i - 1 : defined[j].name # name) <=>
             (\A j \in 1 .. i - 1 : all[j].name # name)
  <2>1. \A j \in 1 .. i - 1 : j \in 1 .. n
    BY <1>1
  <2> QED BY <1>2, <2>1
<1> HIDE DEF n, defined
<1>5. \A d : d \in LastDefined(name) <=> \E i \in 1 .. n : IsFirst(all, name, i) /\ d = defined[i]
  BY <1>2, <1>3, <1>4 DEF IsFirst
<1>6. ASSUME NEW i \in 1 .. n, IsFirst(all, name, i)
      PROVE  Refuses(all[i], t) <=> TextRefuses(defined[i], t)
  <2>1. defined[i] \in LastDefined(name)
    BY <1>5, <1>6
  <2>2. Tidy(defined[i])
    BY <2>1
  <2> QED BY <1>1, <2>2, RefusesAsWritten
<1>7. Allows(all, name, t) <=> \A i \in 1 .. n : IsFirst(all, name, i) => ~Refuses(all[i], t)
  BY DEF Allows, n
<1> QED BY <1>5, <1>6, <1>7

\* The filters that are selected refuse what their lines say.
LEMMA SelectedAsWritten ==
  ASSUME IInv, Filtered  PROVE FilterAsWritten
<1> SUFFICES ASSUME status = "ready", ~written.nested, \A d \in Applied : Tidy(d),
                    NEW t \in Targets
             PROVE  FileSpecCheckRights(selected, t) <=> \A d \in Applied : ~TextRefuses(d, t)
  BY DEF FilterAsWritten
<1> DEFINE v == written.values[ApplyKey]
<1>1. /\ allSpecs \in Seq(SpecRecs) /\ Defines(allSpecs, written.defined)
      /\ v \in ApplyWords \cup {None}
      /\ selected = IF v = None THEN <<>> ELSE FileSpecActiveProfils(allSpecs, ProfilesIn[v])
  BY DEF Filtered, Chosen
<1>2. CASE v = None
  <2>1. Applied = {}
    BY <1>2 DEF Applied, ApplyKey
  <2>2. FileSpecCheckRights(selected, t)
    BY <1>1, <1>2 DEF FileSpecCheckRights
  <2> QED BY <2>1, <2>2
<1>3. CASE v # None
  <2> DEFINE names == ProfilesIn[v]
  <2>1. names \in Seq(STRING)
    <3>1. PICK w \in Words : w[1] = "ApplyFileSpec" /\ Len(w) # 1 /\ v = w[2]
      BY <1>1, <1>3 DEF ApplyWords
    <3>2. Len(w) \in Nat \ {0}
      BY WordsAssumption
    <3>3. Len(w) > 1
      <4>1. \A n \in Nat \ {0} : n # 1 => n > 1
        OBVIOUS
      <4> QED BY <3>1, <3>2, <4>1, Zenon
    <3> QED BY <3>1, <3>3, ProfilesAssumption
  <2>2. selected = FileSpecActiveProfils(allSpecs, names)
    BY <1>1, <1>3
  <2>3. Applied = UNION {LastDefined(names[i]) : i \in DOMAIN names}
    BY <1>3 DEF Applied, ApplyKey
  <2> HIDE DEF names
  <2>4. DOMAIN names = 1 .. Len(names)
    BY <2>1
  <2>5. \A d : d \in Applied <=> \E i \in 1 .. Len(names) : d \in LastDefined(names[i])
    BY <2>3, <2>4
  <2>6. FileSpecCheckRights(selected, t) <=> \A i \in 1 .. Len(names) : Allows(allSpecs, names[i], t)
    BY <1>1, <2>1, <2>2, ProfilsOf
  <2>7. ASSUME NEW i \in 1 .. Len(names)
        PROVE  Allows(allSpecs, names[i], t) <=>
                 \A d \in LastDefined(names[i]) : ~TextRefuses(d, t)
    <3>1. \A d \in LastDefined(names[i]) : Tidy(d)
      BY <2>5
    <3> QED BY <1>1, <3>1, NameAllows
  <2> QED BY <2>5, <2>6, <2>7
<1> QED BY <1>2, <1>3

\* The session may access the files that every filter it applies allows, as
\* the lines of the last filter of this name say, if they are tidy
\* (FileSpecParse, FileSpecActiveProfils, FileSpecCheckRights).
THEOREM FiltersAsWritten == Spec => []FilterAsWritten
<1>1. Init => IInv /\ Filtered
  BY InitIInv, InitFiltered
<1>2. IInv /\ Filtered /\ [Next]_vars => (IInv /\ Filtered)'
  BY NextKeeps, FilteredNext
<1>3. IInv /\ Filtered => FilterAsWritten
  BY SelectedAsWritten
<1> QED BY <1>1, <1>2, <1>3, PTL DEF Spec

=============================================================================
