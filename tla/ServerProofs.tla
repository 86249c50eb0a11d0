---------------------------- MODULE ServerProofs ----------------------------
(***************************************************************************)
(* What holds of Server for every number of connections, administrators,   *)
(* segments, keys, slots and orders.                                       *)
(***************************************************************************)
EXTENDS Server, TLAPS

ReplaceSteps == {"backed", "created", "failed"}

\* While sftp-state stops the server and nobody wakes it, the file is there.
DownMeanwhile == tool # "idle" /\ ~woken => shut

\* Where a replacement that nothing disturbs has got to.
Underway(p) ==
  /\ bak # NoNode /\ text[bak] = [by |-> acked, part |-> "whole"]
  /\ pc[p] = "backed" => conf = NoNode
  /\ pc[p] # "backed" => conf # NoNode /\ conf = fd[p] /\ conf # bak

ConfigInv ==
  harm \subseteq {"missing"} =>
    /\ \A p, q \in Setting : p = q
    /\ \A p \in Setting : Underway(p)

\* Who has got past joining has a segment.
Placed == Live \ {"join", "create"}
Attached == \A p \in Procs : pc[p] \in Placed => seg[p] # NoSeg

IInv == /\ TypeOK /\ Attached /\ DownMeanwhile /\ StopReaches
        /\ ConfigInv /\ AckedInForce /\ ServedWhole

-----------------------------------------------------------------------------
(* Types                                                                   *)

LEMMA EndsTypes ==
  ASSUME TypeOK, NEW p \in Procs, Ends(p)
  PROVE  /\ pc' \in [Procs -> {"out", "gone"} \cup Live]
         /\ seg' \in [Procs -> Segs \cup {NoSeg}]
         /\ key' \in [Procs -> Keys]
         /\ hup' \subseteq Procs
         /\ cfg' \in [Procs -> Readings]
         /\ admin' \in [Procs -> BOOLEAN]
BY KeysAssumption DEF TypeOK, FilesTypeOK, Readings, Ends, Goto, Keys, NoSeg

LEMMA SignalTypes ==
  ASSUME TypeOK, NEW S \in SUBSET Procs, Signalled(S)
  PROVE  /\ pc' \in [Procs -> {"out", "gone"} \cup Live]
         /\ seg' \in [Procs -> Segs \cup {NoSeg}]
         /\ hup' \subseteq Procs
         /\ cfg' \in [Procs -> Readings]
         /\ admin' \in [Procs -> BOOLEAN]
<1>1. pc' \in [Procs -> {"out", "gone"} \cup Live]
  BY DEF TypeOK, Signalled
<1>2. seg' \in [Procs -> Segs \cup {NoSeg}]
  BY DEF TypeOK, Signalled
<1>3. hup' \subseteq Procs
  BY DEF TypeOK, Signalled
<1>4. cfg' \in [Procs -> Readings]
  BY DEF TypeOK, FilesTypeOK, Readings, Signalled
<1>5. admin' \in [Procs -> BOOLEAN]
  BY DEF TypeOK, FilesTypeOK, Signalled
<1> QED BY <1>1, <1>2, <1>3, <1>4, <1>5

LEMMA CleanedTypes ==
  ASSUME TypeOK, NEW s \in Segs, NEW old
  PROVE  Cleaned(s, old) \in [Segs -> [Procs -> {"empty", "fresh", "filled"}]]
BY DEF TypeOK, Cleaned

LEMMA EmptiedTypes ==
  ASSUME TypeOK, NEW p \in Procs
  PROVE  Emptied(p) \in [Segs -> [Procs -> {"empty", "fresh", "filled"}]]
BY DEF TypeOK, Emptied

LEMMA OrderedType ==
  ASSUME TypeOK, Ordered
  PROVE  orders' \in 0 .. MaxOrders
<1>1. orders \in 0 .. MaxOrders /\ orders < MaxOrders /\ orders' = orders + 1
  BY DEF TypeOK, FilesTypeOK, Ordered
<1> QED BY <1>1, OrdersAssumption

LEMMA DefaultType ==
  ASSUME TypeOK
  PROVE  DefaultSeg \in Segs \cup {NoSeg}
BY DEF TypeOK, DefaultSeg, Reached

LEMMA NextKeyTypes ==
  ASSUME TypeOK, NEW p \in Procs, NextKey(p)
  PROVE  /\ pc' \in [Procs -> {"out", "gone"} \cup Live]
         /\ seg' \in [Procs -> Segs \cup {NoSeg}]
         /\ key' \in [Procs -> Keys]
         /\ hup' \subseteq Procs
         /\ cfg' \in [Procs -> Readings]
         /\ admin' \in [Procs -> BOOLEAN]
<1>1. CASE key[p] < NKeys
  <2>1. key[p] + 1 \in Keys
    BY <1>1, KeysAssumption DEF TypeOK, Keys
  <2>2. pc' = [pc EXCEPT ![p] = "join"] /\ key' = [key EXCEPT ![p] = key[p] + 1]
    BY <1>1 DEF NextKey, Goto
  <2>3. UNCHANGED <<seg, hup, cfg, admin>>
    BY <1>1 DEF NextKey, readVars
  <2>4. pc' \in [Procs -> {"out", "gone"} \cup Live]
    BY <2>2 DEF TypeOK, Live, Joining
  <2> QED BY <2>1, <2>2, <2>3, <2>4 DEF TypeOK, FilesTypeOK
<1>2. CASE ~(key[p] < NKeys)
  BY <1>2, EndsTypes DEF NextKey
<1> QED BY <1>1, <1>2

LEMMA JoinTypes ==
  ASSUME TypeOK, NEW p \in Procs, Join(p)
  PROVE  TypeOK'
<1>1. CASE FindSegment(p)
  <2>1. UNCHANGED <<fileVars, toolVars, stateVars, split, at>>
    BY <1>1 DEF FindSegment, AttachSegment, segVars
  <2>2. CASE at[key[p]] = NoSeg
    <3>1. Goto(p, "create") /\ UNCHANGED <<segVars, readVars, hup>>
      BY <1>1, <2>2, KeysAssumption, SegsAssumption DEF FindSegment, NoSeg, Foreign
    <3> QED BY <2>1, <3>1 DEF TypeOK, FilesTypeOK, Goto, Live, Joining, segVars, readVars,
           fileVars, nodeVars, toolVars, stateVars
  <2>3. CASE at[key[p]] = Foreign
    <3>1. NextKey(p) /\ UNCHANGED slots
      BY <1>1, <2>3, SegsAssumption DEF FindSegment, NoSeg, Foreign
    <3> QED BY <2>1, <3>1, NextKeyTypes DEF TypeOK, FilesTypeOK, fileVars, nodeVars, toolVars, stateVars
  <2>4. CASE at[key[p]] \in Segs
    <3>1. AttachSegment(p, at[key[p]])
      BY <1>1, <2>4, SegsAssumption DEF FindSegment, NoSeg, Foreign
    <3>2. /\ Goto(p, "claim") \/ Goto(p, "erase")
          /\ seg' = [seg EXCEPT ![p] = at[key[p]]]
          /\ key' = [key EXCEPT ![p] = 0] /\ UNCHANGED <<readVars, hup>>
      BY <3>1 DEF AttachSegment
    <3>3. slots' \in [Segs -> [Procs -> {"empty", "fresh", "filled"}]]
      BY <3>1, <2>4, CleanedTypes DEF AttachSegment, TypeOK
    <3>4. pc' \in [Procs -> {"out", "gone"} \cup Live]
      BY <3>2 DEF TypeOK, Goto, Live, Joining
    <3>5. seg' \in [Procs -> Segs \cup {NoSeg}] /\ key' \in [Procs -> Keys]
      BY <2>4, <3>2, KeysAssumption DEF TypeOK, Keys
    <3>6. UNCHANGED <<cfg, admin, hup>>
      BY <3>2 DEF readVars
    <3> QED BY <2>1, <3>3, <3>4, <3>5, <3>6 DEF TypeOK, FilesTypeOK,
           fileVars, nodeVars, toolVars, stateVars
  <2> QED BY <2>2, <2>3, <2>4 DEF TypeOK
<1>2. CASE CreateSegment(p)
  <2>1. UNCHANGED <<fileVars, toolVars, stateVars>>
    BY <1>2 DEF CreateSegment
  <2>2. CASE at[key[p]] = NoSeg
    <3>1. PICK s \in Segs :
            /\ at' = [at EXCEPT ![key[p]] = s]
            /\ slots' = [slots EXCEPT ![s] = [q \in Procs |-> "empty"]]
            /\ seg' = [seg EXCEPT ![p] = s]
            /\ key' = [key EXCEPT ![p] = 0]
            /\ Goto(p, "erase")
            /\ UNCHANGED <<split, readVars, hup>>
      BY <1>2, <2>2 DEF CreateSegment
    <3> QED BY <2>1, <3>1, KeysAssumption DEF TypeOK, FilesTypeOK, Goto, Live, Joining,
           readVars, fileVars, nodeVars, toolVars, stateVars, Keys
  <2>3. CASE at[key[p]] # NoSeg
    <3>1. NextKey(p) /\ split' = split \cup {"raced"} /\ UNCHANGED <<at, slots>>
      BY <1>2, <2>3 DEF CreateSegment
    <3> QED BY <2>1, <3>1, NextKeyTypes DEF TypeOK, FilesTypeOK, fileVars, nodeVars, toolVars, stateVars
  <2> QED BY <2>2, <2>3
<1>3. CASE EraseSegment(p)
  BY <1>3 DEF EraseSegment, TypeOK, FilesTypeOK, Goto, Live, Joining, readVars, fileVars,
     nodeVars, toolVars, stateVars
<1>4. CASE ClaimSlot(p)
  <2>1. CASE Cardinality(Occupied(seg[p])) < NSlots
    <3>1. slots' \in [Segs -> [Procs -> {"empty", "fresh", "filled"}]]
      BY <1>4, <2>1 DEF ClaimSlot, TypeOK
    <3>2. pc' \in [Procs -> {"out", "gone"} \cup Live]
      BY <1>4, <2>1 DEF ClaimSlot, TypeOK, Goto, Live, Joining
    <3> QED BY <1>4, <2>1, <3>1, <3>2 DEF ClaimSlot, TypeOK, FilesTypeOK, readVars, fileVars,
           nodeVars, toolVars, stateVars
  <2>2. CASE ~(Cardinality(Occupied(seg[p])) < NSlots)
    BY <1>4, <2>2, EndsTypes DEF ClaimSlot, TypeOK, FilesTypeOK, fileVars, nodeVars, toolVars, stateVars
  <2> QED BY <2>1, <2>2
<1>5. CASE FillSlot(p)
  <2>1. slots' \in [Segs -> [Procs -> {"empty", "fresh", "filled"}]]
    BY <1>5 DEF FillSlot, TypeOK
  <2>2. pc' \in [Procs -> {"out", "gone"} \cup Live]
    BY <1>5 DEF FillSlot, TypeOK, Goto, Then, Live, Joining
  <2> QED BY <1>5, <2>1, <2>2 DEF FillSlot, TypeOK, FilesTypeOK, readVars, fileVars, nodeVars,
         toolVars, stateVars
<1> QED BY <1>1, <1>2, <1>3, <1>4, <1>5 DEF Join

LEMMA SessionTypes ==
  ASSUME TypeOK, NEW p \in Procs, TestShutdown(p) \/ Enter(p) \/ InitAdmin(p) \/ Leave(p)
  PROVE  TypeOK'
<1> USE EndsTypes, EmptiedTypes DEF TypeOK, FilesTypeOK, fileVars, nodeVars, toolVars, stateVars
<1>1. CASE TestShutdown(p)
  <2>1. CASE shut /\ ~admin[p]
    BY <1>1, <2>1 DEF TestShutdown
  <2>2. CASE ~(shut /\ ~admin[p])
    BY <1>1, <2>2 DEF TestShutdown, Goto, Then, Live, Joining, readVars
  <2> QED BY <2>1, <2>2
<1>2. CASE Enter(p)
  <2>1. CASE Ends(p) /\ slots' = Emptied(p)
    BY <1>2, <2>1 DEF Enter
  <2>2. CASE Goto(p, "serve") /\ UNCHANGED <<slots, seg, key, hup, readVars>>
    BY <1>2, <2>2 DEF Enter, Goto, Live, Serving, readVars
  <2> QED BY <1>2, <2>1, <2>2 DEF Enter
<1>3. CASE InitAdmin(p)
  BY <1>3 DEF InitAdmin, Goto, Live, Serving, readVars
<1>4. CASE Leave(p)
  BY <1>4 DEF Leave
<1> QED BY <1>1, <1>2, <1>3, <1>4

LEMMA ToolTypes ==
  ASSUME TypeOK, Tools
  PROVE  TypeOK'
<1> USE DEF TypeOK, FilesTypeOK, readVars, fileVars, nodeVars, segVars, stateVars, toolVars
<1>1. CASE Watch
  <2>1. DefaultSeg \in Segs
    BY <1>1, DefaultType DEF Watch
  <2>2. slots' \in [Segs -> [Procs -> {"empty", "fresh", "filled"}]]
    BY <1>1, <2>1, CleanedTypes DEF Watch
  <2> QED BY <1>1, <2>2 DEF Watch
<1>2. CASE StateStop
  <2>1. orders' \in 0 .. MaxOrders
    BY <1>2, OrderedType DEF StateStop
  <2> QED BY <1>2, <2>1 DEF StateStop
<1>3. CASE StateStart
  <2>1. orders' \in 0 .. MaxOrders
    BY <1>3, OrderedType DEF StateStart
  <2> QED BY <1>3, <2>1 DEF StateStart
<1>4. CASE KillAttach
  <2>1. DefaultSeg \in Segs \cup {NoSeg}
    BY DefaultType
  <2>2. slots' \in [Segs -> [Procs -> {"empty", "fresh", "filled"}]]
    BY <1>4, <2>1, CleanedTypes DEF KillAttach
  <2> QED BY <1>4, <2>1, <2>2 DEF KillAttach
<1>5. CASE KillListed
  <2>1. CASE target = NoSeg
    BY <1>5, <2>1 DEF KillListed
  <2>2. CASE target # NoSeg /\ \E S \in SUBSET Filled(target) : Signalled(S)
    <3>1. PICK S \in SUBSET Filled(target) : Signalled(S)
      BY <2>2
    <3>2. S \in SUBSET Procs
      BY DEF Filled
    <3>3. tool' \in {"idle", "who", "kill", "blind", "delete"} /\ target' \in Segs \cup {NoSeg} /\ woken' \in BOOLEAN
      BY <1>5, <2>2 DEF KillListed
    <3>4. UNCHANGED <<fileVars, at, slots, key, shut, split>>
      BY <1>5 DEF KillListed
    <3> QED BY <3>1, <3>2, <3>3, <3>4, SignalTypes
  <2> QED BY <1>5, <2>1, <2>2 DEF KillListed
<1>6. CASE DeleteStructs
  BY <1>6, KeysAssumption DEF DeleteStructs, Keys
<1> QED BY <1>1, <1>2, <1>3, <1>4, <1>5, <1>6 DEF Tools

LEMMA ConfigSetTypes ==
  ASSUME TypeOK, NEW p \in Procs, ConfigSet(p)
  PROVE  TypeOK'
<1>0. UNCHANGED <<segVars, hup, toolVars, stateVars, split>>
  BY DEF ConfigSet
<1>1. pc' \in [Procs -> {"out", "gone"} \cup Live] /\ FilesTypeOK' => TypeOK'
  BY <1>0 DEF TypeOK, segVars, toolVars, stateVars
<1>2. CASE BackupConfig(p)
  <2>1. orders' \in 0 .. MaxOrders
    BY <1>2, OrderedType DEF BackupConfig
  <2> QED BY <1>1, <1>2, <2>1 DEF BackupConfig, TypeOK, Harms, FilesTypeOK, Goto, Live, Serving, readVars
<1>3. CASE CreateConfig(p)
  <2>1. CASE Goto(p, "admin") /\ UNCHANGED <<conf, text, fd>>
    BY <1>1, <1>3, <2>1 DEF CreateConfig, TypeOK, Harms, FilesTypeOK, Goto, Live, Serving, readVars
  <2>2. CASE \E n \in Nodes :
          /\ conf' = n
          /\ text' = [text EXCEPT ![n] = Blank(p)]
          /\ fd' = [fd EXCEPT ![p] = n]
          /\ Goto(p, "created")
          /\ UNCHANGED harm
    BY <1>1, <1>3, <2>2 DEF CreateConfig, TypeOK, Harms, FilesTypeOK, Goto, Live, Serving, readVars, Blank, Texts
  <2> QED BY <1>3, <2>1, <2>2 DEF CreateConfig
<1>4. CASE WriteConfig(p)
  <2>1. CASE \E part \in {"cut", "whole"} : Written(p, part)
    <3>1. PICK part \in {"cut", "whole"} : Written(p, part)
      BY <2>1
    <3>2. text' \in [Nodes -> Texts]
      <4>1. [by |-> p, part |-> part] \in Texts
        BY DEF Texts
      <4> QED BY <3>1, <4>1 DEF Written, TypeOK, FilesTypeOK
    <3>3. pc' \in [Procs -> {"out", "gone"} \cup Live]
      BY <3>1 DEF Written, TypeOK, Goto, Live, Serving
    <3>4. fd' \in [Procs -> Nodes \cup {NoNode}] /\ harm' \subseteq Harms /\ acked' = p
      BY <3>1 DEF Written, TypeOK, FilesTypeOK, Harms
    <3> QED BY <1>1, <1>4, <3>2, <3>3, <3>4 DEF WriteConfig, TypeOK, FilesTypeOK, readVars
  <2>2. CASE Goto(p, "failed") /\ UNCHANGED <<text, fd, acked, harm>>
    BY <1>1, <1>4, <2>2 DEF WriteConfig, TypeOK, FilesTypeOK, Goto, Live, Serving, readVars
  <2> QED BY <1>4, <2>1, <2>2 DEF WriteConfig
<1>5. CASE RestoreConfig(p)
  BY <1>1, <1>5 DEF RestoreConfig, TypeOK, Harms, FilesTypeOK, Goto, Live, Serving, readVars
<1> QED BY <1>2, <1>3, <1>4, <1>5 DEF ConfigSet

LEMMA OrderTypes ==
  ASSUME TypeOK, NEW p \in Procs, NEW n,
         Ordered, ServerStatus(n),
         UNCHANGED <<nodeVars, readVars, pc, segVars, hup, tool, target, split>>
  PROVE  TypeOK'
<1>1. orders' \in 0 .. MaxOrders
  BY OrderedType
<1>2. shut' \in BOOLEAN /\ woken' \in BOOLEAN
  BY DEF ServerStatus, MakeFile, RemoveFile, TypeOK
<1> QED BY <1>1, <1>2 DEF TypeOK, FilesTypeOK, nodeVars, readVars, segVars

LEMMA KillTypes ==
  ASSUME TypeOK, NEW p \in Procs, KillUser(p)
  PROVE  TypeOK'
<1>1. PICK S \in SUBSET Procs : Signalled(S)
  <2>1. Filled(seg[p]) \subseteq Procs
    BY DEF Filled
  <2> QED BY <2>1 DEF KillUser
<1>2. UNCHANGED <<nodeVars, at, slots, key, toolVars, stateVars, split>>
  BY DEF KillUser
<1>3. orders' \in 0 .. MaxOrders
  BY OrdersAssumption DEF KillUser, Ordered, TypeOK, FilesTypeOK
<1> QED BY <1>1, <1>2, <1>3, SignalTypes DEF TypeOK, FilesTypeOK, fileVars, nodeVars, toolVars, stateVars

LEMMA StartTypes ==
  ASSUME TypeOK, NEW p \in Procs, Start(p)
  PROVE  TypeOK'
<1>1. UNCHANGED <<fileVars, segVars, hup, toolVars, stateVars, split>>
  BY DEF Start, ReadConfig
<1>2. CASE Goto(p, "gone") /\ UNCHANGED readVars
  BY <1>1, <1>2 DEF TypeOK, FilesTypeOK, Goto, readVars, fileVars, nodeVars, segVars,
     toolVars, stateVars
<1>3. ASSUME Goto(p, "join"),
             NEW c \in Readings, cfg' = [cfg EXCEPT ![p] = c],
             admin' \in [Procs -> BOOLEAN]
      PROVE  TypeOK'
  BY <1>1, <1>3 DEF TypeOK, FilesTypeOK, Goto, Live, Joining, fileVars, nodeVars, segVars,
     toolVars, stateVars
<1>4. CASE /\ Goto(p, "join")
           /\ cfg' = [cfg EXCEPT ![p] = IF Whole(conf) \/ Setting # {} THEN "expected" ELSE "part"]
           /\ \E a \in Finds(p, text[conf].part) : admin' = [admin EXCEPT ![p] = a]
  <2>1. admin' \in [Procs -> BOOLEAN]
    BY <1>4 DEF Finds, TypeOK, FilesTypeOK
  <2>2. \E c \in Readings : cfg' = [cfg EXCEPT ![p] = c]
    BY <1>4 DEF Readings
  <2> QED BY <1>3, <1>4, <2>1, <2>2
<1>5. CASE /\ Goto(p, "join")
           /\ cfg' = [cfg EXCEPT ![p] = IF Setting # {} THEN "expected" ELSE "other"]
           /\ admin' = [admin EXCEPT ![p] = p \in Admins2]
  <2>1. admin' \in [Procs -> BOOLEAN]
    BY <1>5 DEF TypeOK, FilesTypeOK
  <2>2. \E c \in Readings : cfg' = [cfg EXCEPT ![p] = c]
    BY <1>5 DEF Readings
  <2> QED BY <1>3, <1>5, <2>1, <2>2
<1> QED BY <1>2, <1>4, <1>5 DEF Start, ReadConfig, Then

LEMMA CrashTypes ==
  ASSUME TypeOK, NEW p \in Procs, Crash(p)
  PROVE  TypeOK'
<1>1. Ends(p) /\ Abandoned(p) /\ UNCHANGED <<at, slots, toolVars, stateVars, split>>
  BY DEF Crash
<1>2. /\ fd' \in [Procs -> Nodes \cup {NoNode}]
      /\ harm' \subseteq Harms
      /\ UNCHANGED <<conf, bak, text, orders, acked>>
  BY <1>1 DEF Abandoned, TypeOK, FilesTypeOK, Harms
<1> QED BY <1>1, <1>2, EndsTypes DEF TypeOK, FilesTypeOK, toolVars, stateVars

\* A step of Next, by its actions.
LEMMA StepCases ==
  ASSUME Next
  PROVE  \/ Tools
         \/ \E p \in Procs :
              \/ Start(p) \/ Join(p) \/ Crash(p)
              \/ TestShutdown(p) \/ Enter(p) \/ InitAdmin(p) \/ Leave(p)
              \/ KillUser(p) \/ ConfigSet(p)
              \/ \E n \in {0, 1} : OtherClient(p, n)
BY DEF Next, Session, Administrate, SftpAdmin, OtherClient, Sent

LEMMA TypesKept ==
  ASSUME TypeOK, [Next]_vars
  PROVE  TypeOK'
<1>1. CASE UNCHANGED vars
  BY <1>1 DEF vars, TypeOK, FilesTypeOK, fileVars, nodeVars, readVars, segVars, toolVars, stateVars
<1>2. CASE Tools
  BY <1>2, ToolTypes
<1>3. ASSUME NEW p \in Procs,
             \/ Start(p) \/ Join(p) \/ Crash(p)
             \/ TestShutdown(p) \/ Enter(p) \/ InitAdmin(p) \/ Leave(p)
             \/ KillUser(p) \/ ConfigSet(p)
      PROVE  TypeOK'
  BY <1>3, StartTypes, JoinTypes, CrashTypes, SessionTypes, KillTypes, ConfigSetTypes
<1>4. ASSUME NEW p \in Procs, NEW n \in {0, 1}, OtherClient(p, n)
      PROVE  TypeOK'
  BY <1>4, OrderTypes DEF OtherClient
<1> QED BY <1>1, <1>2, <1>3, <1>4, StepCases

-----------------------------------------------------------------------------
(* The configuration file                                                  *)

\* A step that leaves the file and those who replace it alone.
Quiet ==
  /\ UNCHANGED nodeVars
  /\ \A p \in Procs : pc'[p] \in ReplaceSteps <=> pc[p] \in ReplaceSteps
  /\ \A p \in Procs : pc[p] \in ReplaceSteps => pc'[p] = pc[p]

LEMMA QuietGoto ==
  ASSUME TypeOK, NEW p \in Procs, NEW l, Goto(p, l), l \notin ReplaceSteps,
         pc[p] \notin ReplaceSteps, UNCHANGED nodeVars
  PROVE  Quiet
BY DEF Quiet, Goto, TypeOK

LEMMA QuietSignal ==
  ASSUME TypeOK, NEW S, Signalled(S), UNCHANGED nodeVars
  PROVE  Quiet
<1>1. Joining \cap ReplaceSteps = {} /\ "gone" \notin ReplaceSteps
  BY DEF Joining, ReplaceSteps
<1>2. \A p \in Procs : pc'[p] = pc[p] \/ (pc[p] \in Joining /\ pc'[p] = "gone")
  BY DEF Signalled
<1> QED BY <1>1, <1>2 DEF Quiet

LEMMA QuietSame ==
  ASSUME UNCHANGED nodeVars, UNCHANGED pc
  PROVE  Quiet
BY DEF Quiet

\* Every step but a crash and those of DoAdminConfigSet.
LEMMA OthersQuiet ==
  ASSUME TypeOK, NEW p \in Procs,
         \/ Start(p) \/ Join(p)
         \/ TestShutdown(p) \/ Enter(p) \/ InitAdmin(p) \/ Leave(p)
         \/ KillUser(p)
  PROVE  Quiet
<1>1. CASE Start(p)
  <2>1. UNCHANGED nodeVars /\ pc[p] = "out" /\ (Goto(p, "gone") \/ Goto(p, "join"))
    BY <1>1 DEF Start, ReadConfig, fileVars, Then
  <2> QED BY <2>1, QuietGoto DEF ReplaceSteps
<1>2. CASE Join(p)
  <2>1. UNCHANGED nodeVars /\ pc[p] \in {"join", "create", "erase", "claim", "fill"}
    BY <1>2 DEF Join, FindSegment, CreateSegment, EraseSegment, ClaimSlot, FillSlot, fileVars
  <2>2. \E l \in {"create", "gone", "join", "claim", "erase", "fill", "test"} : Goto(p, l)
    BY <1>2 DEF Join, FindSegment, AttachSegment, CreateSegment, EraseSegment, ClaimSlot, FillSlot,
       NextKey, Ends, Then
  <2> QED BY <2>1, <2>2, QuietGoto DEF ReplaceSteps
<1>3. CASE TestShutdown(p) \/ Enter(p) \/ InitAdmin(p) \/ Leave(p)
  <2>1. UNCHANGED nodeVars /\ pc[p] \in {"test", "enter", "serve", "admin"}
    BY <1>3 DEF TestShutdown, Enter, InitAdmin, Leave, fileVars
  <2>2. \E l \in {"gone", "enter", "serve", "admin"} : Goto(p, l)
    BY <1>3 DEF TestShutdown, Enter, InitAdmin, Leave, Ends, Then
  <2> QED BY <2>1, <2>2, QuietGoto DEF ReplaceSteps
<1>4. CASE KillUser(p)
  <2>1. UNCHANGED nodeVars /\ \E S \in SUBSET Procs : Signalled(S)
    BY <1>4 DEF KillUser, fileVars, Filled
  <2> QED BY <2>1, QuietSignal
<1> QED BY <1>1, <1>2, <1>3, <1>4

LEMMA ToolsQuiet ==
  ASSUME TypeOK, Tools
  PROVE  Quiet
<1>1. CASE Watch \/ StateStop \/ StateStart \/ KillAttach \/ DeleteStructs
  BY <1>1, QuietSame DEF Watch, StateStop, StateStart, KillAttach, DeleteStructs, fileVars
<1>2. CASE KillListed
  <2>1. UNCHANGED nodeVars /\ (UNCHANGED pc \/ \E S : Signalled(S))
    BY <1>2 DEF KillListed, fileVars
  <2> QED BY <2>1, QuietSame, QuietSignal
<1> QED BY <1>1, <1>2 DEF Tools

LEMMA QuietKeeps ==
  ASSUME TypeOK, ConfigInv, AckedInForce, Quiet
  PROVE  ConfigInv' /\ AckedInForce'
<1>1. Setting' = Setting
  BY DEF Quiet, Setting, ReplaceSteps
<1>2. \A p \in Setting : pc'[p] = pc[p]
  BY DEF Quiet, Setting, ReplaceSteps
<1>3. UNCHANGED <<conf, bak, text, fd, acked, harm>>
  BY DEF Quiet, nodeVars
<1>4. ConfigInv'
  BY <1>1, <1>2, <1>3 DEF ConfigInv, Underway, NoNode
<1>5. AckedInForce'
  BY <1>1, <1>3 DEF AckedInForce, NoNode
<1> QED BY <1>4, <1>5

LEMMA CrashKeeps ==
  ASSUME TypeOK, ConfigInv, AckedInForce, NEW p \in Procs, Crash(p)
  PROVE  ConfigInv' /\ AckedInForce'
<1>1. /\ UNCHANGED <<conf, bak, text, acked>>
      /\ fd' = [fd EXCEPT ![p] = NoNode]
      /\ pc' = [pc EXCEPT ![p] = "gone"]
      /\ harm \subseteq harm'
      /\ pc[p] \in {"created", "failed"} => "cut" \in harm'
      /\ pc[p] = "backed" => "missing" \in harm'
  BY DEF Crash, Abandoned, Ends, Goto
<1>2. Setting' = Setting \ {p} /\ (\A q \in Procs \ {p} : pc'[q] = pc[q] /\ fd'[q] = fd[q])
  BY <1>1 DEF Setting, TypeOK, FilesTypeOK
<1>3. SUFFICES ASSUME harm' \subseteq {"missing"}
               PROVE  ConfigInv' /\ AckedInForce'
  BY DEF ConfigInv, AckedInForce
<1>4. harm \subseteq {"missing"} /\ pc[p] \notin {"created", "failed"}
  BY <1>1, <1>3
<1>5. ConfigInv'
  BY <1>1, <1>2, <1>4 DEF ConfigInv, Underway, Setting
<1>6. AckedInForce'
  <2>1. SUFFICES ASSUME Setting' = {} PROVE AckedInForce'
    BY <1>3, <1>5 DEF AckedInForce, ConfigInv, Underway
  <2>2. CASE p \in Setting
    <3>1. Underway(p) /\ pc[p] = "backed"
      BY <1>4, <2>2 DEF ConfigInv, Setting
    <3>2. conf = NoNode /\ bak # NoNode /\ text[bak] = [by |-> acked, part |-> "whole"]
      BY <3>1 DEF Underway
    <3> QED BY <1>1, <3>1, <3>2 DEF AckedInForce
  <2>3. CASE p \notin Setting
    <3>1. Setting = {}
      BY <1>2, <2>1, <2>3
    <3> QED BY <1>1, <1>4, <2>1, <3>1 DEF AckedInForce
  <2> QED BY <2>2, <2>3
<1> QED BY <1>5, <1>6

LEMMA ConfigSetKeeps ==
  ASSUME TypeOK, ConfigInv, AckedInForce, NEW p \in Procs, ConfigSet(p)
  PROVE  ConfigInv' /\ AckedInForce'
<1>1. SUFFICES ASSUME harm' \subseteq {"missing"}
               PROVE  ConfigInv' /\ AckedInForce'
  BY DEF ConfigInv, AckedInForce
<1> USE <1>1
<1>2. CASE BackupConfig(p)
  <2>1. harm \subseteq {"missing"} /\ Setting = {} /\ harm' = harm
    BY <1>2 DEF BackupConfig
  <2>2. UNCHANGED <<text, fd, acked>>
    BY <1>2 DEF BackupConfig
  <2>3. CASE UNCHANGED <<conf, bak, pc>>
    <3>1. Setting' = {}
      BY <2>1, <2>3 DEF Setting
    <3> QED BY <2>1, <2>2, <2>3, <3>1 DEF AckedInForce, ConfigInv
  <2>4. CASE conf # NoNode /\ bak' = conf /\ conf' = NoNode /\ Goto(p, "backed")
    <3>1. text[conf] = [by |-> acked, part |-> "whole"]
      BY <2>1, <2>4 DEF AckedInForce
    <3>2. Setting' = {p} /\ pc'[p] = "backed"
      BY <2>1, <2>4 DEF Setting, Goto, TypeOK
    <3>3. Underway(p)'
      BY <2>2, <2>4, <3>1, <3>2 DEF Underway, NoNode
    <3> QED BY <3>2, <3>3 DEF ConfigInv, AckedInForce, Underway
  <2> QED BY <1>2, <2>3, <2>4 DEF BackupConfig
<1>3. CASE pc[p] \in ReplaceSteps /\ harm \subseteq {"missing"}
  <2>1. p \in Setting /\ Setting = {p} /\ Underway(p)
    BY <1>3 DEF ConfigInv, Setting, ReplaceSteps
  <2>2. bak # NoNode /\ text[bak] = [by |-> acked, part |-> "whole"]
    BY <2>1 DEF Underway
  <2>3. ASSUME NEW l, Goto(p, l), l \notin ReplaceSteps
        PROVE  Setting' = {}
    BY <2>1, <2>3 DEF Setting, Goto, TypeOK, ReplaceSteps
  <2>4. ASSUME NEW l \in ReplaceSteps, Goto(p, l)
        PROVE  Setting' = {p} /\ pc'[p] = l
    BY <2>1, <2>4 DEF Setting, Goto, TypeOK, ReplaceSteps
  <2>5. CASE CreateConfig(p)
    <3>1. conf = NoNode /\ UNCHANGED <<bak, acked>>
      BY <1>3, <2>1, <2>5 DEF CreateConfig, Underway
    <3>2. CASE Goto(p, "admin") /\ harm' = harm \cup {"missing"} /\ UNCHANGED <<conf, text, fd>>
      <4>1. Setting' = {} /\ "missing" \in harm'
        BY <2>3, <3>2 DEF ReplaceSteps
      <4> QED BY <2>2, <3>1, <3>2, <4>1 DEF ConfigInv, AckedInForce, NoNode
    <3>3. CASE \E n \in Nodes :
                 /\ NewNode(n)
                 /\ conf' = n
                 /\ text' = [text EXCEPT ![n] = Blank(p)]
                 /\ fd' = [fd EXCEPT ![p] = n]
                 /\ Goto(p, "created")
      <4>1. PICK n \in Nodes :
                 /\ NewNode(n)
                 /\ conf' = n
                 /\ text' = [text EXCEPT ![n] = Blank(p)]
                 /\ fd' = [fd EXCEPT ![p] = n]
                 /\ Goto(p, "created")
        BY <3>3
      <4>2. n # bak /\ n # NoNode
        BY <4>1, NodesAssumption DEF NewNode, Unused, NoNode
      <4>3. Setting' = {p} /\ pc'[p] = "created"
        BY <2>4, <4>1 DEF ReplaceSteps
      <4>4. text'[bak] = text[bak]
        BY <4>1, <4>2, <2>2 DEF TypeOK, FilesTypeOK
      <4>5. fd'[p] = n
        BY <4>1 DEF TypeOK, FilesTypeOK
      <4>6. Underway(p)'
        BY <2>2, <3>1, <4>1, <4>2, <4>3, <4>4, <4>5 DEF Underway, NoNode
      <4> QED BY <4>3, <4>6 DEF ConfigInv, AckedInForce, Underway
    <3> QED BY <2>5, <3>1, <3>2, <3>3 DEF CreateConfig
  <2>6. CASE WriteConfig(p)
    <3>1. UNCHANGED <<conf, bak>> /\ conf # NoNode /\ conf = fd[p] /\ conf # bak
      BY <2>1, <2>6 DEF WriteConfig, Underway
    <3>2. CASE \E part \in {"cut", "whole"} : Written(p, part)
      <4>1. Written(p, "whole")
        BY <3>2 DEF Written
      <4>2. conf \in Nodes
        BY <3>1 DEF TypeOK, FilesTypeOK
      <4>3. text'[conf] = [by |-> p, part |-> "whole"] /\ acked' = p
        BY <3>1, <4>1, <4>2 DEF Written, TypeOK, FilesTypeOK
      <4>4. Setting' = {}
        BY <2>3, <4>1 DEF Written, ReplaceSteps
      <4> QED BY <3>1, <4>3, <4>4 DEF ConfigInv, AckedInForce, NoNode
    <3>3. CASE Goto(p, "failed") /\ UNCHANGED <<text, fd, acked, harm>>
      <4>1. Setting' = {p} /\ pc'[p] = "failed"
        BY <2>4, <3>3 DEF ReplaceSteps
      <4>2. Underway(p)'
        BY <2>2, <3>1, <3>3, <4>1 DEF Underway, NoNode
      <4> QED BY <4>1, <4>2 DEF ConfigInv, AckedInForce, Underway
    <3> QED BY <2>6, <3>2, <3>3 DEF WriteConfig
  <2>7. CASE RestoreConfig(p)
    <3>1. conf' = bak /\ UNCHANGED <<text, acked>>
      BY <2>2, <2>7 DEF RestoreConfig
    <3>2. Setting' = {}
      BY <2>3, <2>7 DEF RestoreConfig, ReplaceSteps
    <3> QED BY <2>2, <3>1, <3>2 DEF ConfigInv, AckedInForce, NoNode
  <2>8. CASE BackupConfig(p)
    BY <1>2, <2>8
  <2> QED BY <2>5, <2>6, <2>7, <2>8 DEF ConfigSet
<1>4. BackupConfig(p) \/ (pc[p] \in ReplaceSteps /\ harm \subseteq {"missing"})
  <2>1. CASE CreateConfig(p)
    BY <2>1 DEF CreateConfig, ReplaceSteps
  <2>2. CASE WriteConfig(p)
    BY <2>2 DEF WriteConfig, Written, ReplaceSteps
  <2>3. CASE RestoreConfig(p)
    BY <2>3 DEF RestoreConfig, ReplaceSteps
  <2> QED BY <2>1, <2>2, <2>3 DEF ConfigSet
<1> QED BY <1>2, <1>3, <1>4

LEMMA ConfigKeeps ==
  ASSUME TypeOK, ConfigInv, AckedInForce, [Next]_vars
  PROVE  ConfigInv' /\ AckedInForce'
<1>1. CASE UNCHANGED vars
  BY <1>1, QuietSame, QuietKeeps DEF vars, fileVars
<1>2. CASE Tools
  BY <1>2, ToolsQuiet, QuietKeeps
<1>3. ASSUME NEW p \in Procs,
             \/ Start(p) \/ Join(p)
             \/ TestShutdown(p) \/ Enter(p) \/ InitAdmin(p) \/ Leave(p)
             \/ KillUser(p)
      PROVE  ConfigInv' /\ AckedInForce'
  BY <1>3, OthersQuiet, QuietKeeps
<1>4. ASSUME NEW p \in Procs, NEW n \in {0, 1}, OtherClient(p, n)
      PROVE  ConfigInv' /\ AckedInForce'
  BY <1>4, QuietSame, QuietKeeps DEF OtherClient
<1>5. ASSUME NEW p \in Procs, Crash(p) \/ ConfigSet(p)
      PROVE  ConfigInv' /\ AckedInForce'
  BY <1>5, CrashKeeps, ConfigSetKeeps
<1> QED BY <1>1, <1>2, <1>3, <1>4, <1>5, StepCases

LEMMA HarmGrows ==
  ASSUME TypeOK, [Next]_vars
  PROVE  harm \subseteq harm'
<1>1. ASSUME NEW p \in Procs, ConfigSet(p)
      PROVE  harm \subseteq harm'
  BY <1>1 DEF ConfigSet, BackupConfig, CreateConfig, WriteConfig, Written, RestoreConfig
<1>2. ASSUME NEW p \in Procs, Crash(p)
      PROVE  harm \subseteq harm'
  BY <1>2 DEF Crash, Abandoned
<1>3. CASE UNCHANGED vars \/ Tools
  BY <1>3, ToolsQuiet DEF vars, fileVars, nodeVars, Quiet
<1>4. ASSUME NEW p \in Procs,
             \/ Start(p) \/ Join(p)
             \/ TestShutdown(p) \/ Enter(p) \/ InitAdmin(p) \/ Leave(p)
             \/ KillUser(p)
      PROVE  harm \subseteq harm'
  BY <1>4, OthersQuiet DEF Quiet, nodeVars
<1>5. ASSUME NEW p \in Procs, NEW n \in {0, 1}, OtherClient(p, n)
      PROVE  harm \subseteq harm'
  BY <1>5 DEF OtherClient, nodeVars
<1> QED BY <1>1, <1>2, <1>3, <1>4, <1>5, StepCases

\* What a new connection reads is whole, or the file is being replaced, or one
\* of the causes has occurred.
LEMMA StartServed ==
  ASSUME TypeOK, AckedInForce, ServedWhole, NEW p \in Procs, Start(p)
  PROVE  ServedWhole'
<1>1. UNCHANGED <<harm>>
  BY DEF Start, ReadConfig, fileVars, nodeVars
<1>2. ASSUME NEW c, cfg' = [cfg EXCEPT ![p] = c],
             c = "part" => ~(harm \subseteq {"missing"}),
             c = "other" => harm # {}
      PROVE  ServedWhole'
  BY <1>1, <1>2 DEF ServedWhole, TypeOK, FilesTypeOK
<1>3. CASE UNCHANGED cfg
  BY <1>1, <1>3 DEF ServedWhole
<1>4. CASE conf # NoNode /\ cfg' = [cfg EXCEPT ![p] = IF Whole(conf) \/ Setting # {} THEN "expected" ELSE "part"]
  <2>1. ~Whole(conf) /\ Setting = {} => ~(harm \subseteq {"missing"})
    BY <1>4 DEF AckedInForce, Whole
  <2>2. CASE Whole(conf) \/ Setting # {}
    <3>1. cfg' = [cfg EXCEPT ![p] = "expected"]
      BY <1>4, <2>2
    <3> QED BY <1>2, <3>1
  <2>3. CASE ~(Whole(conf) \/ Setting # {})
    <3>1. cfg' = [cfg EXCEPT ![p] = "part"]
      BY <1>4, <2>3
    <3> QED BY <1>2, <2>1, <2>3, <3>1
  <2> QED BY <2>2, <2>3
<1>5. CASE conf = NoNode /\ cfg' = [cfg EXCEPT ![p] = IF Setting # {} THEN "expected" ELSE "other"]
  <2>1. Setting = {} => harm # {}
    BY <1>5 DEF AckedInForce
  <2>2. CASE Setting # {}
    BY <1>2, <1>5, <2>2
  <2>3. CASE Setting = {}
    BY <1>2, <1>5, <2>1, <2>3
  <2> QED BY <2>2, <2>3
<1> QED BY <1>3, <1>4, <1>5 DEF Start, ReadConfig, readVars

LEMMA ServedKeeps ==
  ASSUME TypeOK, AckedInForce, ServedWhole, [Next]_vars
  PROVE  ServedWhole'
<1>1. harm \subseteq harm'
  BY HarmGrows
<1>2. ASSUME \A r \in Procs : cfg'[r] \in {cfg[r], "unread"}
      PROVE  ServedWhole'
  BY <1>1, <1>2 DEF ServedWhole
<1>3. ASSUME NEW p \in Procs, Ends(p)
      PROVE  ServedWhole'
  BY <1>2, <1>3 DEF Ends, TypeOK, FilesTypeOK
<1>4. ASSUME UNCHANGED cfg
      PROVE  ServedWhole'
  BY <1>2, <1>4
<1>5. ASSUME NEW S, Signalled(S)
      PROVE  ServedWhole'
  BY <1>2, <1>5 DEF Signalled
<1>6. CASE UNCHANGED vars \/ Tools
  BY <1>4, <1>5, <1>6 DEF vars, readVars, Tools, Watch, StateStop, StateStart, KillAttach, KillListed,
     DeleteStructs
<1>7. ASSUME NEW p \in Procs, Join(p)
      PROVE  ServedWhole'
  BY <1>3, <1>4, <1>7 DEF Join, FindSegment, AttachSegment, CreateSegment, EraseSegment, ClaimSlot, FillSlot,
     NextKey, readVars
<1>8. ASSUME NEW p \in Procs,
             \/ Crash(p) \/ TestShutdown(p) \/ Enter(p) \/ InitAdmin(p) \/ Leave(p)
      PROVE  ServedWhole'
  BY <1>3, <1>4, <1>8 DEF Crash, TestShutdown, Enter, InitAdmin, Leave, readVars
<1>9. ASSUME NEW p \in Procs, KillUser(p)
      PROVE  ServedWhole'
  BY <1>5, <1>9 DEF KillUser
<1>10. ASSUME NEW p \in Procs, ConfigSet(p) \/ \E n \in {0, 1} : OtherClient(p, n)
       PROVE  ServedWhole'
  BY <1>4, <1>10 DEF ConfigSet, BackupConfig, CreateConfig, WriteConfig, RestoreConfig, OtherClient,
     readVars
<1> QED BY <1>6, <1>7, <1>8, <1>9, <1>10, StartServed, StepCases

-----------------------------------------------------------------------------
(* The stop of the server                                                  *)

LEMMA GotoAttached ==
  ASSUME TypeOK, Attached, NEW p \in Procs, NEW l, Goto(p, l),
         l \in Placed => seg'[p] # NoSeg,
         \A q \in Procs \ {p} : seg'[q] = seg[q]
  PROVE  Attached'
<1>1. pc'[p] = l /\ \A q \in Procs \ {p} : pc'[q] = pc[q]
  BY DEF Goto, TypeOK
<1> QED BY <1>1 DEF Attached, NoSeg

LEMMA SignalAttached ==
  ASSUME TypeOK, Attached, NEW S, Signalled(S)
  PROVE  Attached'
<1>1. "gone" \notin Placed
  BY DEF Placed, Live, Joining, Serving
<1>2. \A q \in Procs : pc'[q] = "gone" \/ (pc'[q] = pc[q] /\ seg'[q] = seg[q])
  BY DEF Signalled
<1> QED BY <1>1, <1>2 DEF Attached, NoSeg

LEMMA EndsAttached ==
  ASSUME TypeOK, Attached, NEW p \in Procs, Ends(p)
  PROVE  Attached'
<1>1. "gone" \notin Placed /\ Goto(p, "gone") /\ \A q \in Procs \ {p} : seg'[q] = seg[q]
  BY DEF Ends, TypeOK, Placed, Live, Joining, Serving
<1> QED BY <1>1, GotoAttached

LEMMA AttachedKeeps ==
  ASSUME TypeOK, Attached, [Next]_vars
  PROVE  Attached'
<1>0. {"gone", "out", "join", "create"} \cap Placed = {}
  BY DEF Placed, Live, Joining, Serving
<1>1. ASSUME UNCHANGED <<pc, seg>>
      PROVE  Attached'
  BY <1>1 DEF Attached, NoSeg
<1>2. ASSUME NEW p \in Procs, pc[p] \in Placed, NEW l, Goto(p, l), UNCHANGED seg
      PROVE  Attached'
  BY <1>2, GotoAttached DEF Attached, NoSeg
<1>3. ASSUME NEW p \in Procs, NEW l \in {"gone", "join", "create"}, Goto(p, l), UNCHANGED seg
      PROVE  Attached'
  BY <1>0, <1>3, GotoAttached
<1>4. ASSUME NEW p \in Procs, NextKey(p)
      PROVE  Attached'
  BY <1>3, <1>4, EndsAttached DEF NextKey
<1>5. ASSUME NEW p \in Procs, NEW s \in Segs, NEW l, Goto(p, l), seg' = [seg EXCEPT ![p] = s]
      PROVE  Attached'
  <2>1. seg'[p] # NoSeg /\ \A q \in Procs \ {p} : seg'[q] = seg[q]
    BY <1>5, SegsAssumption DEF TypeOK, NoSeg
  <2> QED BY <1>5, <2>1, GotoAttached
<1>6. ASSUME NEW p \in Procs, FindSegment(p)
      PROVE  Attached'
  BY <1>3, <1>4, <1>5, <1>6 DEF FindSegment, AttachSegment, segVars
<1>7. ASSUME NEW p \in Procs, CreateSegment(p)
      PROVE  Attached'
  BY <1>4, <1>5, <1>7 DEF CreateSegment
<1>8. ASSUME NEW p \in Procs, EraseSegment(p) \/ ClaimSlot(p) \/ FillSlot(p)
      PROVE  Attached'
  <2>1. pc[p] \in Placed
    BY <1>8 DEF EraseSegment, ClaimSlot, FillSlot, Placed, Live, Joining
  <2> QED BY <1>2, <1>8, <2>1, EndsAttached DEF EraseSegment, ClaimSlot, FillSlot
<1>9. ASSUME NEW p \in Procs, TestShutdown(p) \/ Enter(p) \/ InitAdmin(p) \/ Leave(p) \/ Crash(p)
      PROVE  Attached'
  <2>1. CASE Ends(p)
    BY <2>1, EndsAttached
  <2>2. CASE ~Ends(p)
    <3>1. pc[p] \in Placed /\ UNCHANGED seg /\ \E l : Goto(p, l)
      BY <1>9, <2>2 DEF TestShutdown, Enter, InitAdmin, Leave, Crash, Placed, Live, Joining, Serving
    <3> QED BY <1>2, <3>1
  <2> QED BY <2>1, <2>2
<1>10. ASSUME NEW p \in Procs, ConfigSet(p)
       PROVE  Attached'
  <2>1. pc[p] \in Placed /\ UNCHANGED seg
    BY <1>10 DEF ConfigSet, BackupConfig, CreateConfig, WriteConfig, RestoreConfig, segVars,
       Placed, Live, Serving, Joining
  <2>2. UNCHANGED pc \/ \E l : Goto(p, l)
    BY <1>10 DEF ConfigSet, BackupConfig, CreateConfig, WriteConfig, Written, RestoreConfig
  <2> QED BY <1>1, <1>2, <2>1, <2>2
<1>11. ASSUME NEW p \in Procs, Start(p)
       PROVE  Attached'
  BY <1>3, <1>11 DEF Start, ReadConfig, Then, segVars
<1>12. ASSUME NEW p \in Procs, KillUser(p) \/ \E n \in {0, 1} : OtherClient(p, n)
       PROVE  Attached'
  BY <1>1, <1>12, SignalAttached DEF KillUser, OtherClient, segVars
<1>13. CASE UNCHANGED vars \/ Tools
  BY <1>1, <1>13, SignalAttached DEF vars, segVars, Tools, Watch, StateStop, StateStart, KillAttach,
     KillListed, DeleteStructs
<1> QED BY <1>6, <1>7, <1>8, <1>9, <1>10, <1>11, <1>12, <1>13, StepCases DEF Join

LEMMA DownKeeps ==
  ASSUME DownMeanwhile, [Next]_vars
  PROVE  DownMeanwhile'
<1>1. ASSUME UNCHANGED <<toolVars, stateVars>>
      PROVE  DownMeanwhile'
  BY <1>1 DEF DownMeanwhile, toolVars, stateVars
<1>2. CASE Tools
  BY <1>2 DEF DownMeanwhile, toolVars, stateVars, Tools, Watch, StateStop, StateStart, KillAttach,
     KillListed, DeleteStructs
<1>3. ASSUME NEW p \in Procs, NEW n \in {0, 1}, OtherClient(p, n)
      PROVE  DownMeanwhile'
  BY <1>3 DEF DownMeanwhile, OtherClient, ServerStatus, MakeFile, RemoveFile
<1>4. ASSUME NEW p \in Procs,
             \/ Start(p) \/ Join(p) \/ Crash(p)
             \/ TestShutdown(p) \/ Enter(p) \/ InitAdmin(p) \/ Leave(p)
             \/ KillUser(p) \/ ConfigSet(p)
      PROVE  UNCHANGED <<toolVars, stateVars>>
  BY <1>4 DEF Start, Join, FindSegment, CreateSegment, EraseSegment, ClaimSlot, FillSlot, Crash,
     TestShutdown, Enter, InitAdmin, Leave, KillUser, ConfigSet
<1>5. CASE UNCHANGED vars
  BY <1>1, <1>5 DEF vars
<1> QED BY <1>1, <1>2, <1>3, <1>4, <1>5, StepCases

\* A step that lets nobody new past the look for the shutdown file, and leaves
\* those who are past it where they are, told if they were.
In == {"enter", "serve"}
Mild ==
  \A q \in Procs :
    pc'[q] \in In /\ ~admin'[q] =>
      /\ pc[q] \in In /\ ~admin[q]
      /\ seg'[q] = seg[q]
      /\ q \in hup => q \in hup'
      /\ slots'[seg[q]][q] = "filled" => slots[seg[q]][q] = "filled"

\* No slot is newly filled, but for process p's.
Fewer(p) ==
  \A s \in Segs : \A q \in Procs \ {p} : slots'[s][q] = "filled" => slots[s][q] = "filled"

LEMMA GotoMild ==
  ASSUME TypeOK, Attached, NEW p \in Procs, NEW l, Goto(p, l), l \notin In, Fewer(p),
         \A q \in Procs \ {p} : /\ seg'[q] = seg[q] /\ admin'[q] = admin[q]
                                /\ q \in hup => q \in hup'
  PROVE  Mild
<1>1. pc'[p] = l /\ \A q \in Procs \ {p} : pc'[q] = pc[q]
  BY DEF Goto, TypeOK
<1>2. \A q \in Procs : pc[q] \in In => seg[q] \in Segs
  BY DEF Attached, TypeOK, In, Placed, Live, Joining, Serving
<1> QED BY <1>1, <1>2 DEF Mild, Fewer

LEMMA StayMild ==
  ASSUME TypeOK, Attached, UNCHANGED <<pc, seg, admin, hup>>,
         \A s \in Segs : \A q \in Procs : slots'[s][q] = "filled" => slots[s][q] = "filled"
  PROVE  Mild
<1>1. \A q \in Procs : pc[q] \in In => seg[q] \in Segs
  BY DEF Attached, TypeOK, In, Placed, Live, Joining, Serving
<1> QED BY <1>1 DEF Mild

LEMMA EndsMild ==
  ASSUME TypeOK, Attached, NEW p \in Procs, Ends(p), Fewer(p)
  PROVE  Mild
<1>1. /\ Goto(p, "gone") /\ "gone" \notin In
      /\ \A q \in Procs \ {p} : /\ seg'[q] = seg[q] /\ admin'[q] = admin[q]
                                /\ q \in hup => q \in hup'
  BY DEF Ends, TypeOK, FilesTypeOK, In
<1> QED BY <1>1, GotoMild

LEMMA SignalMild ==
  ASSUME TypeOK, NEW S, Signalled(S), UNCHANGED slots
  PROVE  Mild
<1>1. "gone" \notin In
  BY DEF In
<1>2. \A q \in Procs : pc'[q] = "gone" \/ (pc'[q] = pc[q] /\ seg'[q] = seg[q] /\ (admin'[q] <=> admin[q]))
  BY DEF Signalled, TypeOK, FilesTypeOK
<1>3. hup \subseteq hup'
  BY DEF Signalled
<1> QED BY <1>1, <1>2, <1>3 DEF Mild

LEMMA CleanedFewer ==
  ASSUME TypeOK, NEW s \in Segs, NEW old, slots' = Cleaned(s, old)
  PROVE  \A t \in Segs : \A q \in Procs : slots'[t][q] = "filled" => slots[t][q] = "filled"
BY DEF TypeOK, Cleaned

LEMMA EmptiedFewer ==
  ASSUME TypeOK, NEW p \in Procs, slots' = Emptied(p)
  PROVE  \A t \in Segs : \A q \in Procs : slots'[t][q] = "filled" => slots[t][q] = "filled"
BY DEF TypeOK, Emptied, NoSeg

LEMMA JoinMild ==
  ASSUME TypeOK, Attached, NEW p \in Procs, Join(p)
  PROVE  Mild
<1>0. In \cap {"create", "join", "claim", "erase", "fill", "test"} = {}
  BY DEF In
<1>1. ASSUME NEW l \in {"create", "join", "claim", "erase", "fill", "test"}, Goto(p, l), Fewer(p),
             UNCHANGED <<readVars, hup>>, \A q \in Procs \ {p} : seg'[q] = seg[q]
      PROVE  Mild
  BY <1>0, <1>1, GotoMild DEF readVars
<1>2. ASSUME UNCHANGED slots
      PROVE  Fewer(p)
  BY <1>2 DEF Fewer
<1>3. ASSUME NextKey(p), UNCHANGED slots
      PROVE  Mild
  BY <1>1, <1>2, <1>3, EndsMild DEF NextKey
<1>4. CASE FindSegment(p)
  <2>1. CASE Goto(p, "create") /\ UNCHANGED <<segVars, readVars, hup>>
    BY <1>1, <1>2, <2>1 DEF segVars
  <2>2. CASE NextKey(p) /\ UNCHANGED slots
    BY <1>3, <2>2
  <2>3. CASE at[key[p]] \in Segs /\ AttachSegment(p, at[key[p]])
    <3>1. Fewer(p)
      BY <2>3, CleanedFewer DEF AttachSegment, Fewer
    <3>2. \A q \in Procs \ {p} : seg'[q] = seg[q]
      BY <2>3 DEF AttachSegment, TypeOK
    <3>3. (Goto(p, "claim") \/ Goto(p, "erase")) /\ UNCHANGED <<readVars, hup>>
      BY <2>3 DEF AttachSegment
    <3> QED BY <1>1, <3>1, <3>2, <3>3
  <2> QED BY <1>4, <2>1, <2>2, <2>3 DEF FindSegment
<1>5. CASE CreateSegment(p)
  <2>1. CASE at[key[p]] = NoSeg
    <3>1. PICK s \in Segs :
            /\ slots' = [slots EXCEPT ![s] = [q \in Procs |-> "empty"]]
            /\ seg' = [seg EXCEPT ![p] = s]
            /\ Goto(p, "erase")
            /\ UNCHANGED <<readVars, hup>>
      BY <1>5, <2>1 DEF CreateSegment
    <3>2. Fewer(p) /\ \A q \in Procs \ {p} : seg'[q] = seg[q]
      BY <3>1 DEF Fewer, TypeOK
    <3> QED BY <1>1, <3>1, <3>2
  <2>2. CASE at[key[p]] # NoSeg
    BY <1>3, <1>5, <2>2 DEF CreateSegment
  <2> QED BY <2>1, <2>2
<1>6. CASE EraseSegment(p)
  <2>1. Fewer(p)
    BY <1>6 DEF EraseSegment, Fewer, TypeOK, NoSeg
  <2> QED BY <1>1, <1>6, <2>1 DEF EraseSegment
<1>7. CASE ClaimSlot(p)
  <2>1. CASE slots' = [slots EXCEPT ![seg[p]][p] = "fresh"] /\ Goto(p, "fill")
             /\ UNCHANGED <<seg, hup, readVars>>
    <3>1. Fewer(p)
      BY <2>1 DEF Fewer, TypeOK
    <3> QED BY <1>1, <2>1, <3>1
  <2>2. CASE Ends(p) /\ UNCHANGED slots
    BY <1>2, <2>2, EndsMild
  <2> QED BY <1>7, <2>1, <2>2 DEF ClaimSlot
<1>8. CASE FillSlot(p)
  <2>1. Fewer(p)
    BY <1>8 DEF FillSlot, Fewer, TypeOK
  <2>2. Goto(p, "test") /\ UNCHANGED <<readVars, hup, seg>>
    BY <1>8 DEF FillSlot, Then
  <2> QED BY <1>1, <2>1, <2>2
<1> QED BY <1>4, <1>5, <1>6, <1>7, <1>8 DEF Join

\* With the shutdown file there, only administrators get past the look for it.
LEMMA SessionMild ==
  ASSUME TypeOK, Attached, shut, NEW p \in Procs,
         TestShutdown(p) \/ Enter(p) \/ InitAdmin(p) \/ Leave(p) \/ Crash(p)
  PROVE  Mild
<1>1. ASSUME slots' = Emptied(p) \/ UNCHANGED slots
      PROVE  \A s \in Segs : \A q \in Procs : slots'[s][q] = "filled" => slots[s][q] = "filled"
  BY <1>1, EmptiedFewer
<1>2. ASSUME Ends(p), slots' = Emptied(p) \/ UNCHANGED slots
      PROVE  Mild
  BY <1>1, <1>2, EndsMild DEF Fewer
<1>3. CASE TestShutdown(p)
  <2>1. CASE Ends(p) /\ slots' = Emptied(p)
    BY <1>2, <2>1
  <2>2. CASE admin[p] /\ Goto(p, "enter") /\ UNCHANGED <<slots, seg, hup, readVars>>
    <3>1. \A q \in Procs \ {p} : pc'[q] = pc[q]
      BY <2>2 DEF Goto, TypeOK
    <3> QED BY <2>2, <3>1 DEF Mild, readVars
  <2> QED BY <1>3, <2>1, <2>2 DEF TestShutdown, Then
<1>4. CASE Enter(p)
  <2>1. CASE Ends(p) /\ slots' = Emptied(p)
    BY <1>2, <2>1
  <2>2. CASE Goto(p, "serve") /\ UNCHANGED <<slots, seg, hup, readVars>>
    <3>1. pc[p] \in In /\ \A q \in Procs \ {p} : pc'[q] = pc[q]
      BY <1>4, <2>2 DEF Enter, Goto, TypeOK, In
    <3> QED BY <2>2, <3>1 DEF Mild, readVars
  <2> QED BY <1>4, <2>1, <2>2 DEF Enter
<1>5. CASE InitAdmin(p)
  <2>1. Goto(p, "admin") /\ "admin" \notin In /\ UNCHANGED <<readVars, seg, hup>> /\ slots' = Emptied(p)
    BY <1>5 DEF InitAdmin, In
  <2> QED BY <1>1, <2>1, GotoMild DEF Fewer, readVars
<1>6. CASE Leave(p)
  BY <1>2, <1>6 DEF Leave
<1>7. CASE Crash(p)
  BY <1>2, <1>7 DEF Crash
<1> QED BY <1>3, <1>4, <1>5, <1>6, <1>7

LEMMA StopKeeps ==
  ASSUME TypeOK, Attached, DownMeanwhile, StopReaches, [Next]_vars
  PROVE  StopReaches'
<1>1. SUFFICES ASSUME tool' = "delete", ~woken'
               PROVE  StopReaches'
  BY DEF StopReaches
<1>2. ASSUME Mild, UNCHANGED target, tool = "delete", ~woken
      PROVE  StopReaches'
  BY <1>2 DEF StopReaches, Mild, Filled, In
<1>3. ASSUME UNCHANGED <<toolVars, stateVars>>
      PROVE  UNCHANGED target /\ tool = "delete" /\ ~woken /\ shut
  BY <1>1, <1>3 DEF toolVars, stateVars, DownMeanwhile
<1>4. CASE UNCHANGED vars
  BY <1>4 DEF vars, segVars, readVars, toolVars, stateVars, StopReaches, Filled
<1>5. CASE Watch
  <2>1. UNCHANGED <<toolVars, stateVars, pc, seg, hup, admin>>
    BY <1>5 DEF Watch, readVars
  <2>2. \A s \in Segs : \A q \in Procs : slots'[s][q] = "filled" => slots[s][q] = "filled"
    <3>1. DefaultSeg \in Segs
      BY <1>5, DefaultType DEF Watch
    <3> QED BY <1>5, <3>1, CleanedFewer DEF Watch
  <2> QED BY <1>2, <1>3, <2>1, <2>2, StayMild
<1>6. CASE KillListed
  <2>1. CASE target = NoSeg /\ UNCHANGED <<pc, seg, hup, readVars, target, slots>>
    <3>1. \A p \in Procs : pc[p] \in {"enter", "serve"} => seg[p] # NoSeg
      BY DEF Attached, Placed, Live, Joining, Serving
    <3> QED BY <2>1, <3>1 DEF StopReaches, NoSeg
  <2>2. CASE Signalled(Filled(target)) /\ UNCHANGED <<target, slots>>
    <3>1. SUFFICES ASSUME NEW p \in Procs, pc'[p] \in {"enter", "serve"},
                          seg'[p] = target', p \in Filled(seg[p])', p \notin hup'
                   PROVE  FALSE
      BY DEF StopReaches
    <3>2. pc'[p] = pc[p] /\ seg'[p] = seg[p] /\ ~(p \in Filled(target) /\ pc[p] \in Joining)
      BY <2>2, <3>1 DEF Signalled
    <3>3. p \in Filled(target)
      BY <2>2, <3>1, <3>2 DEF Filled
    <3>4. p \in hup'
      BY <2>2, <3>1, <3>2, <3>3 DEF Signalled, Joining, Serving
    <3> QED BY <3>1, <3>4
  <2> QED BY <1>1, <1>6, <2>1, <2>2 DEF KillListed
<1>7. CASE StateStop \/ StateStart \/ KillAttach \/ DeleteStructs
  BY <1>1, <1>7 DEF StateStop, StateStart, KillAttach, DeleteStructs, toolVars
<1>8. ASSUME NEW p \in Procs, NEW n \in {0, 1}, OtherClient(p, n)
      PROVE  StopReaches'
  <2>1. UNCHANGED <<tool, target, pc, seg, slots, admin, hup>> /\ (woken => woken')
    BY <1>1, <1>8 DEF OtherClient, ServerStatus, MakeFile, RemoveFile, segVars, readVars
  <2> QED BY <1>1, <1>2, <2>1, StayMild
<1>9. ASSUME NEW p \in Procs, KillUser(p)
      PROVE  StopReaches'
  BY <1>2, <1>3, <1>9, SignalMild DEF KillUser
<1>10. ASSUME NEW p \in Procs, Join(p)
       PROVE  StopReaches'
  <2>1. UNCHANGED <<toolVars, stateVars>>
    BY <1>10 DEF Join, FindSegment, CreateSegment, EraseSegment, ClaimSlot, FillSlot
  <2> QED BY <1>2, <1>3, <1>10, <2>1, JoinMild
<1>11. ASSUME NEW p \in Procs, TestShutdown(p) \/ Enter(p) \/ InitAdmin(p) \/ Leave(p) \/ Crash(p)
       PROVE  StopReaches'
  <2>1. UNCHANGED <<toolVars, stateVars>>
    BY <1>11 DEF TestShutdown, Enter, InitAdmin, Leave, Crash
  <2> QED BY <1>2, <1>3, <1>11, <2>1, SessionMild
<1>12. ASSUME NEW p \in Procs, Start(p)
       PROVE  StopReaches'
  <2>1. UNCHANGED <<toolVars, stateVars, seg, hup, slots>>
    BY <1>12 DEF Start, segVars
  <2>2. \E l \in {"gone", "join"} : Goto(p, l)
    BY <1>12 DEF Start, ReadConfig, Then
  <2>3. \A q \in Procs \ {p} : admin'[q] = admin[q]
    BY <1>12 DEF Start, ReadConfig, readVars, TypeOK, FilesTypeOK
  <2>4. Mild
    BY <2>1, <2>2, <2>3, GotoMild DEF Fewer, In
  <2> QED BY <1>2, <1>3, <2>1, <2>4
<1>13. ASSUME NEW p \in Procs, ConfigSet(p)
       PROVE  StopReaches'
  <2>1. UNCHANGED <<toolVars, stateVars, seg, hup, slots, admin>>
    BY <1>13 DEF ConfigSet, BackupConfig, CreateConfig, WriteConfig, RestoreConfig, segVars, readVars
  <2>2. UNCHANGED pc \/ \E l \in {"admin", "backed", "created", "failed"} : Goto(p, l)
    BY <1>13 DEF ConfigSet, BackupConfig, CreateConfig, WriteConfig, Written, RestoreConfig
  <2>3. Mild
    BY <2>1, <2>2, GotoMild, StayMild DEF Fewer, In
  <2> QED BY <1>2, <1>3, <2>1, <2>3
<1> QED BY <1>4, <1>5, <1>6, <1>7, <1>8, <1>9, <1>10, <1>11, <1>12, <1>13, StepCases DEF Tools

-----------------------------------------------------------------------------
(* Sessions in different segments                                          *)

\* Unless sessions were parted, a key leads somewhere only when all before it
\* lead to segments of another build, and only there are sessions.
KeysInv ==
  split = {} =>
    /\ \A j, k \in Keys : j < k /\ at[k] # NoSeg => at[j] = Foreign
    /\ \A p \in Procs : pc[p] \in {"out", "join", "create"} =>
         \A j \in Keys : j < key[p] => at[j] = Foreign
    /\ \A p \in Procs : seg[p] # NoSeg => \E k \in Keys : at[k] = seg[p]
    /\ \A p \in Procs : pc[p] = "out" => key[p] = 0

LEMMA KeysExplain ==
  ASSUME TypeOK, KeysInv
  PROVE  SplitExplained
<1> SUFFICES ASSUME split = {}, NEW p \in Procs, NEW q \in Procs,
                    seg[p] # NoSeg, seg[q] # NoSeg
             PROVE  seg[p] = seg[q]
  BY DEF SplitExplained
<1>1. PICK j \in Keys : at[j] = seg[p]
  BY DEF KeysInv
<1>2. PICK k \in Keys : at[k] = seg[q]
  BY DEF KeysInv
<1>3. seg[p] # Foreign /\ seg[q] # Foreign
  BY SegsAssumption DEF TypeOK, Foreign, NoSeg
<1>4. ~(j < k) /\ ~(k < j)
  BY <1>1, <1>2, <1>3 DEF KeysInv
<1>5. j = k
  BY <1>4, KeysAssumption DEF Keys
<1> QED BY <1>1, <1>2, <1>5

\* A step that attaches nothing and changes no key.
LEMMA SameKeys ==
  ASSUME TypeOK, KeysInv, UNCHANGED <<at, split>>,
         \A q \in Procs : /\ seg'[q] \in {seg[q], NoSeg}
                          /\ \/ pc'[q] \notin {"out", "join", "create"}
                             \/ /\ key'[q] = key[q]
                                /\ pc'[q] = pc[q] \/ (pc'[q] # "out" /\ pc[q] \in {"out", "join", "create"})
  PROVE  KeysInv'
<1> SUFFICES ASSUME split = {} PROVE KeysInv'
  BY DEF KeysInv
<1>1. \A j, k \in Keys : j < k /\ at'[k] # NoSeg => at'[j] = Foreign
  BY DEF KeysInv
<1>2. \A p \in Procs : pc'[p] \in {"out", "join", "create"} =>
         \A j \in Keys : j < key'[p] => at'[j] = Foreign
  BY DEF KeysInv
<1>3. \A p \in Procs : seg'[p] # NoSeg => \E k \in Keys : at'[k] = seg'[p]
  BY DEF KeysInv
<1>4. \A p \in Procs : pc'[p] = "out" => key'[p] = 0
  BY DEF KeysInv
<1> QED BY <1>1, <1>2, <1>3, <1>4 DEF KeysInv, Foreign, NoSeg, Keys

LEMMA EndsKeys ==
  ASSUME TypeOK, KeysInv, NEW p \in Procs, Ends(p), UNCHANGED <<at, split>>
  PROVE  KeysInv'
<1>1. /\ pc' = [pc EXCEPT ![p] = "gone"] /\ seg' = [seg EXCEPT ![p] = NoSeg]
      /\ key' = [key EXCEPT ![p] = 0]
  BY DEF Ends, Goto
<1>2. /\ pc'[p] = "gone" /\ seg'[p] = NoSeg
      /\ \A q \in Procs \ {p} : pc'[q] = pc[q] /\ seg'[q] = seg[q] /\ key'[q] = key[q]
  BY <1>1 DEF TypeOK
<1> QED BY <1>2, SameKeys

LEMMA GotoKeys ==
  ASSUME TypeOK, KeysInv, NEW p \in Procs, NEW l, Goto(p, l), UNCHANGED <<at, split, seg, key>>,
         l \notin {"out", "join", "create"} \/ (l # "out" /\ pc[p] \in {"out", "join", "create"})
  PROVE  KeysInv'
<1>1. pc'[p] = l /\ \A q \in Procs \ {p} : pc'[q] = pc[q]
  BY DEF TypeOK, Goto
<1> QED BY <1>1, SameKeys

LEMMA SignalKeys ==
  ASSUME TypeOK, KeysInv, NEW S, Signalled(S), UNCHANGED <<at, split, key>>
  PROVE  KeysInv'
<1>1. \A q \in Procs : /\ seg'[q] \in {seg[q], NoSeg}
                       /\ pc'[q] = "gone" \/ pc'[q] = pc[q]
  BY DEF Signalled
<1> QED BY <1>1, SameKeys

LEMMA StillKeys ==
  ASSUME TypeOK, KeysInv, UNCHANGED <<at, split, key, seg, pc>>
  PROVE  KeysInv'
BY SameKeys

LEMMA FindKeys ==
  ASSUME TypeOK, KeysInv, NEW p \in Procs, FindSegment(p)
  PROVE  KeysInv'
<1> DEFINE k == key[p]
<1>0. UNCHANGED <<at, split>> /\ pc[p] = "join" /\ k \in Keys
  BY DEF FindSegment, AttachSegment, segVars, TypeOK
<1>1. CASE Goto(p, "create") /\ UNCHANGED segVars
  BY <1>0, <1>1, GotoKeys DEF segVars
<1>2. CASE at[k] = Foreign /\ NextKey(p)
  <2>1. CASE k < NKeys
    <3>1. UNCHANGED seg /\ key' = [key EXCEPT ![p] = k + 1] /\ pc' = [pc EXCEPT ![p] = "join"]
      BY <1>2, <2>1 DEF NextKey, Goto
    <3>2. \A q \in Procs \ {p} : pc'[q] = pc[q] /\ key'[q] = key[q]
      BY <3>1 DEF TypeOK
    <3>3. pc'[p] = "join" /\ key'[p] = k + 1
      BY <3>1 DEF TypeOK
    <3>4. SUFFICES ASSUME split = {} PROVE KeysInv'
      BY <1>0 DEF KeysInv
    <3>5. \A j \in Keys : j < k + 1 => at[j] = Foreign
      <4>1. \A j \in Keys : j < k => at[j] = Foreign
        BY <1>0, <3>4 DEF KeysInv
      <4>2. \A j \in Keys : j < k + 1 => j < k \/ j = k
        BY <1>0, KeysAssumption DEF Keys
      <4> QED BY <1>2, <4>1, <4>2
    <3>6. \A q \in Procs : pc'[q] \in {"out", "join", "create"} =>
            \A j \in Keys : j < key'[q] => at'[j] = Foreign
      BY <1>0, <3>2, <3>3, <3>4, <3>5 DEF KeysInv
    <3>7. \A q \in Procs : pc'[q] = "out" => key'[q] = 0
      BY <3>2, <3>3, <3>4 DEF KeysInv
    <3> HIDE DEF k
    <3> QED BY <1>0, <3>1, <3>4, <3>6, <3>7 DEF KeysInv, Foreign, NoSeg, Keys
  <2>2. CASE ~(k < NKeys)
    BY <1>0, <1>2, <2>2, EndsKeys DEF NextKey
  <2> QED BY <2>1, <2>2
<1>3. CASE at[k] \in Segs /\ seg' = [seg EXCEPT ![p] = at[k]] /\ key' = [key EXCEPT ![p] = 0]
           /\ (Goto(p, "claim") \/ Goto(p, "erase"))
  <2>1. /\ \A q \in Procs \ {p} : pc'[q] = pc[q] /\ key'[q] = key[q] /\ seg'[q] = seg[q]
        /\ seg'[p] = at[k] /\ pc'[p] \in {"claim", "erase"}
    BY <1>3 DEF TypeOK, Goto
  <2>2. SUFFICES ASSUME split = {} PROVE KeysInv'
    BY <1>0 DEF KeysInv
  <2>3. \A q \in Procs : seg'[q] # NoSeg => \E j \in Keys : at'[j] = seg'[q]
    BY <1>0, <2>1, <2>2 DEF KeysInv
  <2>4. \A q \in Procs : /\ pc'[q] \in {"out", "join", "create"} =>
                              \A j \in Keys : j < key'[q] => at'[j] = Foreign
                         /\ pc'[q] = "out" => key'[q] = 0
    BY <1>0, <2>1, <2>2 DEF KeysInv
  <2> HIDE DEF k
  <2> QED BY <1>0, <2>2, <2>3, <2>4 DEF KeysInv, Foreign, NoSeg, Keys
<1> QED BY <1>1, <1>2, <1>3 DEF FindSegment, AttachSegment

LEMMA CreateKeys ==
  ASSUME TypeOK, KeysInv, NEW p \in Procs, CreateSegment(p)
  PROVE  KeysInv'
<1> DEFINE k == key[p]
<1>0. pc[p] = "create" /\ k \in Keys
  BY DEF CreateSegment, TypeOK
<1>1. CASE at[k] = NoSeg
  <2>1. PICK s \in Segs :
          /\ at' = [at EXCEPT ![k] = s]
          /\ seg' = [seg EXCEPT ![p] = s]
          /\ key' = [key EXCEPT ![p] = 0]
          /\ pc' = [pc EXCEPT ![p] = "erase"]
          /\ UNCHANGED split
    BY <1>1 DEF CreateSegment, Goto
  <2>2. SUFFICES ASSUME split = {} PROVE KeysInv'
    BY <2>1 DEF KeysInv
  <2>3. /\ at'[k] = s /\ seg'[p] = s /\ pc'[p] = "erase"
        /\ \A q \in Procs \ {p} : pc'[q] = pc[q] /\ key'[q] = key[q] /\ seg'[q] = seg[q]
        /\ \A j \in Keys : j # k => at'[j] = at[j]
    BY <1>0, <2>1 DEF TypeOK
  <2>4. \A j \in Keys : at[j] # NoSeg => at'[j] = at[j]
    BY <1>1, <2>3
  <2>5. Foreign # NoSeg
    BY DEF Foreign, NoSeg
  <2>6. \A q \in Procs : seg'[q] # NoSeg => \E j \in Keys : at'[j] = seg'[q]
    BY <1>0, <2>2, <2>3, <2>4 DEF KeysInv
  <2>7. \A q \in Procs : pc'[q] \in {"out", "join", "create"} =>
             \A j \in Keys : j < key'[q] => at'[j] = Foreign
    BY <1>0, <2>2, <2>3, <2>4, <2>5 DEF KeysInv
  <2>8. \A q \in Procs : pc'[q] = "out" => key'[q] = 0
    BY <1>0, <2>2, <2>3 DEF KeysInv
  <2>9. ASSUME NEW i \in Keys, NEW j \in Keys, i < j, at'[j] # NoSeg
        PROVE  at'[i] = Foreign
    <3>1. CASE j = k
      <4>1. at[i] = Foreign
        BY <1>0, <2>2, <2>9, <3>1 DEF KeysInv
      <4> QED BY <2>4, <2>5, <4>1
    <3>2. CASE j # k
      <4>1. at[i] = Foreign
        BY <2>2, <2>3, <2>9, <3>2 DEF KeysInv
      <4> QED BY <2>4, <2>5, <4>1
    <3> QED BY <3>1, <3>2
  <2> HIDE DEF k
  <2> QED BY <2>6, <2>7, <2>8, <2>9 DEF KeysInv, Foreign, NoSeg, Keys
<1>2. CASE at[k] # NoSeg
  <2>1. split' # {}
    BY <1>2 DEF CreateSegment
  <2> QED BY <2>1 DEF KeysInv
<1> QED BY <1>1, <1>2

LEMMA KeysKeep ==
  ASSUME TypeOK, KeysInv, [Next]_vars
  PROVE  KeysInv'
<1>1. CASE UNCHANGED vars
  BY <1>1, StillKeys DEF vars, segVars
<1>2. CASE Watch \/ StateStop \/ StateStart \/ KillAttach
  BY <1>2, StillKeys DEF Watch, StateStop, StateStart, KillAttach, segVars
<1>3. CASE KillListed
  <2>1. UNCHANGED <<at, split, key>> /\ (UNCHANGED <<pc, seg>> \/ \E S : Signalled(S))
    BY <1>3 DEF KillListed
  <2> QED BY <2>1, StillKeys, SignalKeys
<1>4. CASE DeleteStructs
  <2>1. CASE UNCHANGED <<at, split>>
    BY <1>4, <2>1, StillKeys DEF DeleteStructs
  <2>2. CASE split' # {}
    BY <2>2 DEF KeysInv
  <2> QED BY <1>4, <2>1, <2>2 DEF DeleteStructs
<1>5. ASSUME NEW p \in Procs, Start(p)
      PROVE  KeysInv'
  <2>1. UNCHANGED <<at, split, seg, key>> /\ pc[p] = "out" /\ (Goto(p, "gone") \/ Goto(p, "join"))
    BY <1>5 DEF Start, ReadConfig, Then, segVars
  <2> QED BY <2>1, GotoKeys
<1>6. ASSUME NEW p \in Procs, EraseSegment(p) \/ ClaimSlot(p) \/ FillSlot(p)
      PROVE  KeysInv'
  <2>1. UNCHANGED <<at, split>>
    BY <1>6 DEF EraseSegment, ClaimSlot, FillSlot
  <2>2. Ends(p) \/ (UNCHANGED <<seg, key>> /\ \E l \in {"claim", "fill", "test"} : Goto(p, l))
    BY <1>6 DEF EraseSegment, ClaimSlot, FillSlot, Then
  <2> QED BY <2>1, <2>2, EndsKeys, GotoKeys
<1>7. ASSUME NEW p \in Procs, TestShutdown(p) \/ Enter(p) \/ InitAdmin(p) \/ Leave(p) \/ Crash(p)
      PROVE  KeysInv'
  <2>1. UNCHANGED <<at, split>>
    BY <1>7 DEF TestShutdown, Enter, InitAdmin, Leave, Crash
  <2>2. Ends(p) \/ (UNCHANGED <<seg, key>> /\ \E l \in {"enter", "serve", "admin"} : Goto(p, l))
    BY <1>7 DEF TestShutdown, Enter, InitAdmin, Leave, Crash, Then
  <2> QED BY <2>1, <2>2, EndsKeys, GotoKeys
<1>8. ASSUME NEW p \in Procs, KillUser(p)
      PROVE  KeysInv'
  BY <1>8, SignalKeys DEF KillUser
<1>9. ASSUME NEW p \in Procs, ConfigSet(p)
      PROVE  KeysInv'
  <2>1. UNCHANGED <<at, split, seg, key>>
    BY <1>9 DEF ConfigSet, segVars
  <2>2. UNCHANGED pc \/ \E l \in {"admin", "backed", "created", "failed"} : Goto(p, l)
    BY <1>9 DEF ConfigSet, BackupConfig, CreateConfig, WriteConfig, Written, RestoreConfig
  <2> QED BY <2>1, <2>2, StillKeys, GotoKeys
<1>10. ASSUME NEW p \in Procs, NEW n \in {0, 1}, OtherClient(p, n)
       PROVE  KeysInv'
  BY <1>10, StillKeys DEF OtherClient, segVars
<1> QED BY <1>1, <1>2, <1>3, <1>4, <1>5, <1>6, <1>7, <1>8, <1>9, <1>10, FindKeys, CreateKeys,
    StepCases DEF Tools, Join

-----------------------------------------------------------------------------
(* The theorems                                                            *)

LEMMA InitInv == Init => IInv
<1> SUFFICES ASSUME Init PROVE IInv
  OBVIOUS
<1>1. TypeOK
  <2>1. /\ conf \in Nodes \cup {NoNode} /\ bak \in Nodes \cup {NoNode}
        /\ text \in [Nodes -> Texts] /\ fd \in [Procs -> Nodes \cup {NoNode}]
    BY NodesAssumption DEF Init, FilesInit, Texts
  <2>2. orders \in 0 .. MaxOrders
    BY OrdersAssumption DEF Init, FilesInit
  <2>3. /\ acked \in Procs \cup {Original} /\ harm = {}
        /\ cfg \in [Procs -> Readings]
        /\ admin \in [Procs -> BOOLEAN]
    BY DEF Init, FilesInit, Readings
  <2>4. at \in [Keys -> Segs \cup {NoSeg, Foreign}]
    BY DEF Init
  <2>5. key \in [Procs -> Keys]
    BY KeysAssumption DEF Init, Keys
  <2>6. /\ pc \in [Procs -> {"out", "gone"} \cup Live]
        /\ slots \in [Segs -> [Procs -> {"empty", "fresh", "filled"}]]
        /\ seg \in [Procs -> Segs \cup {NoSeg}]
        /\ hup = {} /\ shut \in BOOLEAN /\ woken \in BOOLEAN
        /\ tool = "idle" /\ target = NoSeg /\ split = {}
    BY DEF Init
  <2> QED BY <2>1, <2>2, <2>3, <2>4, <2>5, <2>6 DEF TypeOK, FilesTypeOK
<1>2. Setting = {} /\ Attached
  BY DEF Init, Setting, Attached, Placed, Live, Joining, Serving
<1>3. AckedInForce /\ ServedWhole /\ ConfigInv
  <2>1. conf = 1 /\ acked = Original /\ text[1] = [by |-> Original, part |-> "whole"]
    BY NodesAssumption DEF Init, FilesInit
  <2>2. AckedInForce
    BY <1>2, <2>1 DEF AckedInForce, NoNode
  <2>3. ServedWhole
    BY DEF Init, FilesInit, ServedWhole
  <2> QED BY <1>2, <2>2, <2>3 DEF ConfigInv
<1>4. DownMeanwhile /\ StopReaches
  BY DEF Init, DownMeanwhile, StopReaches
<1> QED BY <1>1, <1>2, <1>3, <1>4 DEF IInv

(* The inductive invariant: a stop that nobody undoes leaves the shutdown  *)
(* file there until sftp-state ends (main.c 197-207), and a replacement    *)
(* that nothing disturbs keeps the acknowledged text in the backup         *)
(* (Admin.c 164-227).                                                      *)
THEOREM ServerInvariant == Spec => []IInv
<1>1. IInv /\ [Next]_vars => IInv'
  BY TypesKept, AttachedKeeps, DownKeeps, StopKeeps, ConfigKeeps, ServedKeeps DEF IInv
<1> QED BY <1>1, InitInv, PTL DEF Spec

(* Every variable of the server keeps its type, with any number of         *)
(* connections, keys, segments and orders.                                 *)
THEOREM ServerTypes == Spec => []TypeOK
<1>1. IInv => TypeOK
  BY DEF IInv
<1> QED BY <1>1, ServerInvariant, PTL

(* Unless sftp-who could not load a configuration, the stop of sftp-state  *)
(* reaches every session, whatever the number that is starting meanwhile,  *)
(* because a process shows its pid before it looks for the shutdown file   *)
(* (main.c 187-207, SftpState/Main.c 49-70, SftpWho/Main.c 147-183).       *)
THEOREM StopWorks == Spec => []StopReaches
<1>1. IInv => StopReaches
  BY DEF IInv
<1> QED BY <1>1, ServerInvariant, PTL

(* With any number of administrators, a replacement that is not disturbed  *)
(* never leaves the server without the acknowledged configuration or its   *)
(* backup; there is no file, only the backup, after one that could not     *)
(* create it or was killed before that (Admin.c 164-227).                  *)
THEOREM ConfigSafe == Spec => []AckedInForce
<1>1. IInv => AckedInForce
  BY DEF IInv
<1> QED BY <1>1, ServerInvariant, PTL

(* No session works under a part of the configuration, or under that of    *)
(* CONFIG_FILE2, but for the causes that are named (conf.c 141-148,        *)
(* Admin.c 174-222).                                                       *)
THEOREM WholeServed == Spec => []ServedWhole
<1>1. IInv => ServedWhole
  BY DEF IInv
<1> QED BY <1>1, ServerInvariant, PTL

(* With any number of keys, two sessions are in different segments only    *)
(* after a race of two creators or a removal (SftpWho.c 46-97).            *)
THEOREM OneSegment == Spec => []SplitExplained
<1>1. Init => KeysInv
  <2> SUFFICES ASSUME Init PROVE KeysInv
    OBVIOUS
  <2>1. \A p \in Procs : seg[p] = NoSeg /\ key[p] = 0
    BY DEF Init
  <2>2. \A k \in Keys : k # 0 => at[k] = NoSeg
    BY DEF Init
  <2>3. \A i, j \in Keys : i < j => j # 0
    BY KeysAssumption DEF Keys
  <2>4. \A j \in Keys : ~(j < 0)
    BY KeysAssumption DEF Keys
  <2> QED BY <2>1, <2>2, <2>3, <2>4 DEF KeysInv
<1>2. TypeOK /\ KeysInv /\ [Next]_vars => KeysInv'
  BY KeysKeep
<1>3. TypeOK /\ KeysInv => SplitExplained
  BY KeysExplain
<1> QED BY <1>1, <1>2, <1>3, ServerTypes, PTL DEF Spec
=============================================================================
