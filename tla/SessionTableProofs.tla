------------------------- MODULE SessionTableProofs -------------------------
(***************************************************************************)
(* What holds of the session table for every number of connections and of  *)
(* slots: type correctness, the two facts the LimitConnection directives   *)
(* rest on, that a slot has two users only after one of two events and     *)
(* that a session stays listed, and the limits themselves.                 *)
(***************************************************************************)
EXTENDS SessionTable, FiniteSetTheorems, TLAPS

(* A process has counted no more slots than it has looked at, and counts    *)
(* only in the counting loop: without this nb could not be bounded.         *)
TypeInv ==
  /\ TypeOK
  /\ \A p \in Procs : nb[p] < pos[p] /\ (pc[p] # "count" => nb[p] = 0)

USE SlotsAssumption, TriesAssumption, GraceAssumption, NamesAssumption

\* The control points, spelled out.
LEMMA PcsAre ==
  /\ Pcs = {"out", "admin", "exit", "scan", "nap", "claim", "clean", "reap",
            "fill", "count", "flags", "init", "run"}
  /\ Serving = {"init", "run"}
BY DEF Pcs, Joining, Cleaning, Entering, Serving

(* What the stores of a process make of a slot is a slot.                   *)
LEMMA SlotStores ==
  ASSUME NEW r \in SlotRecord
  PROVE  /\ Emptied(r) \in SlotRecord
         /\ \A p \in Procs : NamedBy(p, r) \in SlotRecord
         /\ \A a \in Activity : [r EXCEPT !.st = a] \in SlotRecord
         /\ \A b \in BOOLEAN : [r EXCEPT !.fl = b] \in SlotRecord
         /\ \A n \in Ages : [r EXCEPT !.age = n] \in SlotRecord
         /\ Wiped \in SlotRecord
<1>1. Emptied(r) \in SlotRecord
  BY DEF Emptied, SlotRecord, Status
<1>2. ASSUME NEW p \in Procs PROVE NamedBy(p, r) \in SlotRecord
  <2>0. 0 \in Ages
    BY DEF Ages
  <2>1. ASSUME NEW n \in Names PROVE [r EXCEPT !.name = n, !.age = 0] \in SlotRecord
    BY <2>0 DEF SlotRecord
  <2>2. p \in Names /\ Mixed \in Names
    BY DEF Names
  <2>3. CASE r.name = NoName
    BY <2>1, <2>2, <2>3 DEF NamedBy
  <2>4. CASE r.name # NoName
    BY <2>1, <2>2, <2>4 DEF NamedBy
  <2>5. QED
    BY <2>3, <2>4
<1>3. ASSUME NEW a \in Activity PROVE [r EXCEPT !.st = a] \in SlotRecord
  BY ActivityAssumption DEF SlotRecord, Status
<1>4. ASSUME NEW b \in BOOLEAN PROVE [r EXCEPT !.fl = b] \in SlotRecord
  BY DEF SlotRecord
<1>5. ASSUME NEW n \in Ages PROVE [r EXCEPT !.age = n] \in SlotRecord
  BY DEF SlotRecord
<1>6. Wiped \in SlotRecord
  BY DEF Wiped, SlotRecord, Status, Names, Ages
<1>7. QED
  BY <1>1, <1>2, <1>3, <1>4, <1>5, <1>6

(* The loop of the cleaning stays inside the table and goes on where it     *)
(* should.                                                                  *)
LEMMA NextToCleanType ==
  ASSUME TypeInv, NEW p \in Procs, NextToClean(p), nb' = nb, pc[p] # "count"
  PROVE  /\ pc' \in [Procs -> Pcs]
         /\ pos' \in [Procs -> Slots]
         /\ ret' \in [Procs -> {"scan"} \cup Serving]
         /\ \A q \in Procs : nb'[q] < pos'[q] /\ (pc'[q] # "count" => nb'[q] = 0)
<1> USE DEF TypeInv, TypeOK, NextToClean, Goto, Slots
<1>0. nb[p] = 0
  OBVIOUS
<1>1. CASE pos[p] < NSlots
  <2>1. /\ pc' = [pc EXCEPT ![p] = "clean"]
        /\ pos' = [pos EXCEPT ![p] = @ + 1]
        /\ ret' = ret
    BY <1>1
  <2>2. pc' \in [Procs -> Pcs]
    BY <2>1, PcsAre
  <2>3. pos' \in [Procs -> Slots]
    BY <1>1, <2>1
  <2>4. QED
    BY <1>0, <2>1, <2>2, <2>3
<1>2. CASE ~(pos[p] < NSlots)
  <2>1. /\ \/ pc' = [pc EXCEPT ![p] = ret[p]]
           \/ pc' = [pc EXCEPT ![p] = "exit"]
        /\ pos' = [pos EXCEPT ![p] = 1]
        /\ ret' = [ret EXCEPT ![p] = "scan"]
    BY <1>2
  <2>2. pc' \in [Procs -> Pcs]
    BY <2>1, PcsAre
  <2>3. QED
    BY <1>0, <2>1, <2>2
<1>3. QED
  BY <1>1, <1>2

\* The search loop stays inside the table and its passes.
LEMMA NextToScanType ==
  ASSUME TypeInv, NEW p \in Procs, NextToScan(p), nb' = nb, pc[p] # "count"
  PROVE  /\ pc' \in [Procs -> Pcs]
         /\ pos' \in [Procs -> Slots]
         /\ pass' \in [Procs -> 1 .. Tries]
         /\ \A q \in Procs : nb'[q] < pos'[q] /\ (pc'[q] # "count" => nb'[q] = 0)
<1> USE DEF TypeInv, TypeOK, NextToScan, Goto, Slots
<1>0. nb[p] = 0
  OBVIOUS
<1>1. pc' = [pc EXCEPT ![p] = "scan"] \/ pc' = [pc EXCEPT ![p] = "out"]
  OBVIOUS
<1>2. pc' \in [Procs -> Pcs]
  BY <1>1, PcsAre
<1>3. CASE pos' = [pos EXCEPT ![p] = @ + 1] /\ pass' = pass /\ pos[p] < NSlots
  BY <1>0, <1>1, <1>2, <1>3
<1>4. CASE /\ pos' = [pos EXCEPT ![p] = 1]
           /\ \/ pass' = [pass EXCEPT ![p] = @ + 1] /\ pass[p] < Tries
              \/ pass' = [pass EXCEPT ![p] = 1]
  BY <1>0, <1>1, <1>2, <1>4
<1>5. QED
  BY <1>3, <1>4

\* The limits are checked one after the other.
LEMMA CheckAfterType ==
  ASSUME TypeInv, NEW p \in Procs, NEW r \in Rules, CheckAfter(p, r)
  PROVE  /\ pc' = [pc EXCEPT ![p] = "flags"] \/ pc' = [pc EXCEPT ![p] = "count"]
         /\ pc' \in [Procs -> Pcs]
         /\ rule' \in [Procs -> Rules]
<1> USE DEF TypeInv, TypeOK, CheckAfter, Goto
<1>1. NextRule(r) \in Rules
  BY DEF NextRule, Rules
<1>2. pc' = [pc EXCEPT ![p] = "flags"] \/ pc' = [pc EXCEPT ![p] = "count"]
  OBVIOUS
<1>3. pc' \in [Procs -> Pcs]
  BY <1>2, PcsAre
<1>4. QED
  BY <1>1, <1>2, <1>3

\* Every variable has its type at first.
LEMMA TypeInvInit == Init => TypeInv
<1> SUFFICES ASSUME Init PROVE TypeInv
  OBVIOUS
<1>1. slot \in [Slots -> SlotRecord]
  BY DEF Init, SlotRecord, Status, Names, Ages
<1>2. pc \in [Procs -> Pcs]
  BY PcsAre DEF Init
<1>3. /\ pos \in [Procs -> Slots]
      /\ pass \in [Procs -> 1 .. Tries]
      /\ nb \in [Procs -> 0 .. NSlots]
      /\ \A p \in Procs : nb[p] < pos[p] /\ nb[p] = 0
  BY DEF Init, Slots
<1>4. /\ mine \in [Procs -> Slots \cup {NoSlot}]
      /\ rule \in [Procs -> Rules]
      /\ ret \in [Procs -> {"scan"} \cup Serving]
      /\ disturbed \subseteq Slots
  BY DEF Init, Rules
<1>5. QED
  BY <1>1, <1>2, <1>3, <1>4 DEF TypeInv, TypeOK

\* Every step keeps the types.
LEMMA TypeInvNext == TypeInv /\ [Next]_vars => TypeInv'
<1> SUFFICES ASSUME TypeInv, [Next]_vars PROVE TypeInv'
  OBVIOUS
<1> USE DEF TypeInv, TypeOK, local
<1>1. ASSUME NEW p \in Procs, Attach(p) PROVE TypeInv'
  BY <1>1, PcsAre DEF Attach, Goto
<1>2. ASSUME NEW p \in Procs, CleanTest(p) PROVE TypeInv'
  <2>1. CASE NextToClean(p)
    BY <1>2, <2>1, NextToCleanType DEF CleanTest
  <2>2. CASE Goto(p, "reap") /\ UNCHANGED <<pos, ret>>
    BY <1>2, <2>2, PcsAre DEF CleanTest, Goto
  <2>3. QED
    BY <1>2, <2>1, <2>2 DEF CleanTest
<1>3. ASSUME NEW p \in Procs, CleanStore(p) PROVE TypeInv'
  <2>1. slot' \in [Slots -> SlotRecord]
    BY <1>3, SlotStores DEF CleanStore
  <2>2. pos[p] \in Slots /\ disturbed' \subseteq Slots
    BY <1>3 DEF CleanStore
  <2>3. QED
    BY <1>3, <2>1, <2>2, NextToCleanType DEF CleanStore
<1>4. ASSUME NEW p \in Procs, ScanTest(p) \/ ScanRetest(p) PROVE TypeInv'
  <2>1. CASE NextToScan(p)
    BY <1>4, <2>1, NextToScanType DEF ScanTest, ScanRetest
  <2>2. CASE (Goto(p, "nap") \/ Goto(p, "claim")) /\ UNCHANGED <<pos, pass>>
    BY <1>4, <2>2, PcsAre DEF ScanTest, ScanRetest, Goto
  <2>3. QED
    BY <1>4, <2>1, <2>2 DEF ScanTest, ScanRetest
<1>5. ASSUME NEW p \in Procs, Claim(p) PROVE TypeInv'
  <2>1. slot' \in [Slots -> SlotRecord]
    BY <1>5, SlotStores DEF Claim
  <2>2. disturbed' \subseteq Slots
    BY <1>5 DEF Claim
  <2>3. pc' \in [Procs -> Pcs] /\ mine' \in [Procs -> Slots \cup {NoSlot}]
    BY <1>5, PcsAre DEF Claim, Goto
  <2>4. /\ pos' \in [Procs -> Slots]
        /\ pass' \in [Procs -> 1 .. Tries]
        /\ \A q \in Procs : nb'[q] < pos'[q] /\ (pc'[q] # "count" => nb'[q] = 0)
    BY <1>5 DEF Claim, Goto, Slots
  <2>5. QED
    BY <1>5, <2>1, <2>2, <2>3, <2>4 DEF Claim
<1>6. ASSUME NEW p \in Procs, Fill(p) PROVE TypeInv'
  <2>1. slot' \in [Slots -> SlotRecord]
    BY <1>6, SlotStores DEF Fill
  <2>2. CASE CheckAfter(p, "start")
    BY <1>6, <2>1, <2>2, CheckAfterType DEF Fill, Rules
  <2>3. CASE Goto(p, "exit") /\ UNCHANGED rule
    BY <1>6, <2>1, <2>3, PcsAre DEF Fill, Goto
  <2>4. QED
    BY <1>6, <2>2, <2>3 DEF Fill
<1>7. ASSUME NEW p \in Procs, CountSlot(p) PROVE TypeInv'
  <2> DEFINE n == IF Counts(p, pos[p]) THEN nb[p] + 1 ELSE nb[p]
  <2>1. n \in Nat /\ n <= pos[p] /\ pc[p] = "count"
    BY <1>7 DEF CountSlot, Slots
  <2>2. CASE /\ pos[p] < NSlots
             /\ pos' = [pos EXCEPT ![p] = @ + 1]
             /\ nb' = [nb EXCEPT ![p] = n]
             /\ UNCHANGED <<pc, rule>>
    <3> HIDE DEF n
    <3>1. pos' \in [Procs -> Slots] /\ nb' \in [Procs -> 0 .. NSlots]
      BY <2>1, <2>2 DEF Slots
    <3>2. \A q \in Procs : nb'[q] < pos'[q] /\ (pc'[q] # "count" => nb'[q] = 0)
      BY <2>1, <2>2 DEF Slots
    <3>3. QED
      BY <1>7, <2>2, <3>1, <3>2 DEF CountSlot
  <2>3. CASE /\ pos' = [pos EXCEPT ![p] = 1]
             /\ nb' = [nb EXCEPT ![p] = 0]
             /\ \/ Goto(p, "exit") /\ rule' = [rule EXCEPT ![p] = "start"]
                \/ CheckAfter(p, rule[p])
    <3>1. pos' \in [Procs -> Slots] /\ nb' \in [Procs -> 0 .. NSlots]
      BY <2>3 DEF Slots
    <3>2. pc' \in [Procs -> Pcs] /\ rule' \in [Procs -> Rules]
      BY <2>3, PcsAre, CheckAfterType DEF Goto, Rules
    <3>3. \A q \in Procs \ {p} : pc'[q] = pc[q]
      BY <2>3, CheckAfterType DEF Goto
    <3>4. \A q \in Procs : nb'[q] < pos'[q] /\ (pc'[q] # "count" => nb'[q] = 0)
      BY <2>3, <3>3
    <3>5. QED
      BY <1>7, <3>1, <3>2, <3>4 DEF CountSlot
  <2>4. QED
    BY <1>7, <2>2, <2>3 DEF CountSlot
<1>8. ASSUME NEW p \in Procs, SetFlags(p) PROVE TypeInv'
  <2>1. slot' \in [Slots -> SlotRecord]
    <3>1. ASSUME NEW r \in SlotRecord
          PROVE [r EXCEPT !.fl = r.fl \/ p \in Flagged] \in SlotRecord
      <4>1. (r.fl \/ p \in Flagged) \in BOOLEAN
        OBVIOUS
      <4>2. QED
        BY <4>1, SlotStores
    <3>2. QED
      BY <1>8, <3>1 DEF SetFlags
  <2>2. pc' = [pc EXCEPT ![p] = "init"] \/ pc' = [pc EXCEPT ![p] = "exit"]
    BY <1>8 DEF SetFlags, Goto
  <2>3. QED
    BY <1>8, <2>1, <2>2, PcsAre DEF SetFlags
<1>9. ASSUME NEW p \in Procs, InitSftp(p) \/ QuitAdmin(p) \/ Quit(p) PROVE TypeInv'
  <2>1. \E l \in {"run", "out", "exit"} : pc[p] # "count" /\ pc' = [pc EXCEPT ![p] = l]
    BY <1>9, PcsAre DEF InitSftp, QuitAdmin, Quit, Goto
  <2>2. QED
    BY <1>9, <2>1, PcsAre DEF InitSftp, QuitAdmin, Quit
<1>10. ASSUME NEW p \in Procs, InitAdmin(p) \/ Release(p) PROVE TypeInv'
  <2>1. slot' \in [Slots -> SlotRecord]
    BY <1>10, SlotStores DEF InitAdmin, Release
  <2>2. \E l \in {"admin", "out"} : pc[p] # "count" /\ pc' = [pc EXCEPT ![p] = l]
    BY <1>10 DEF InitAdmin, Release, Goto
  <2>3. QED
    BY <1>10, <2>1, <2>2, PcsAre DEF InitAdmin, Release
<1>11. ASSUME NEW p \in Procs, NEW a \in Activity, UpdateInfo(p, a) PROVE TypeInv'
  <2>1. slot' \in [Slots -> SlotRecord]
    BY <1>11, SlotStores DEF UpdateInfo
  <2>2. QED
    BY <1>11, <2>1 DEF UpdateInfo
<1>12. ASSUME NEW p \in Procs, Tick(p) PROVE TypeInv'
  <2>1. slot' \in [Slots -> SlotRecord]
    <3>1. 0 \in Ages
      BY DEF Ages
    <3>2. QED
      BY <1>12, <3>1, SlotStores DEF Tick
  <2>2. \E l \in {"clean", "exit"} : pc[p] \in Serving /\ pc' = [pc EXCEPT ![p] = l]
    BY <1>12 DEF Tick, Goto
  <2>3. ret' \in [Procs -> {"scan"} \cup Serving]
    BY <1>12 DEF Tick
  <2>4. QED
    BY <1>12, <2>1, <2>2, <2>3, PcsAre DEF Tick
<1>13. ASSUME NEW p \in Procs, Crash(p) PROVE TypeInv'
  <2>1. /\ pos' \in [Procs -> Slots]
        /\ pass' \in [Procs -> 1 .. Tries]
        /\ nb' \in [Procs -> 0 .. NSlots]
        /\ \A q \in Procs : nb'[q] < pos'[q] /\ (pc'[q] # "count" => nb'[q] = 0)
    BY <1>13 DEF Crash, Goto, Slots
  <2>2. QED
    BY <1>13, <2>1, PcsAre DEF Crash, Goto, Rules
<1>14. ASSUME SecondPasses PROVE TypeInv'
  <2>1. ASSUME NEW s \in Slots
        PROVE [slot[s] EXCEPT !.age = IF @ > Grace THEN @ ELSE @ + 1] \in SlotRecord
    <3> DEFINE n == IF slot[s].age > Grace THEN slot[s].age ELSE slot[s].age + 1
    <3>1. slot[s].age \in 0 .. Grace + 1
      BY DEF SlotRecord, Ages
    <3>2. n \in Ages
      BY <3>1 DEF Ages
    <3> HIDE DEF n
    <3>3. [slot[s] EXCEPT !.age = n] \in SlotRecord
      BY <3>2, SlotStores
    <3>4. QED
      BY <3>3 DEF n
  <2>2. QED
    BY <1>14, <2>1 DEF SecondPasses
<1>15. CASE UNCHANGED vars
  BY <1>15 DEF vars
<1>16. QED
  BY <1>1, <1>2, <1>3, <1>4, <1>5, <1>6, <1>7, <1>8, <1>9, <1>10, <1>11, <1>12,
     <1>13, <1>14, <1>15
     DEF Next, Clean, Join, Enter, Serve

(* Every variable keeps its type: in particular the slot a process looks at *)
(* in any of its loops is a slot of the table, and the one it uses too.     *)
THEOREM TypeCorrect == Spec => []TypeOK
<1>1. TypeInv => TypeOK
  BY DEF TypeInv
<1>2. QED
  BY <1>1, TypeInvInit, TypeInvNext, PTL DEF Spec

-----------------------------------------------------------------------------
(* The inductive invariant. A process relies on no lock and on no fact that *)
(* outlives one of its reads; what can be relied on is that it has a slot   *)
(* exactly from its claim to its release, and that the slot, as long as it  *)
(* is not disturbed, is its own and says so.                                *)
HasSlot(p) == \/ pc[p] \in {"fill", "count", "flags", "init", "run", "exit"}
              \/ pc[p] \in {"clean", "reap"} /\ ret[p] \in {"init", "run"}

PcInv ==
  \A p \in Procs :
    /\ mine[p] \in Slots <=> HasSlot(p)
    /\ pc[p] \notin {"clean", "reap"} => ret[p] = "scan"

TableInv == TypeInv /\ PcInv /\ SharingExplained /\ SessionsListed

\* Every step keeps what a process holds consistent with where it is.
LEMMA PcInvNext == TypeInv /\ PcInv /\ [Next]_vars => PcInv'
<1> SUFFICES ASSUME TypeInv, PcInv, [Next]_vars PROVE PcInv'
  OBVIOUS
<1> USE PcsAre DEF TypeInv, TypeOK, PcInv, HasSlot, Goto, local, Slots, NoSlot
<1>1. ASSUME NEW p \in Procs, Attach(p) PROVE PcInv'
  BY <1>1 DEF Attach
<1>2. ASSUME NEW p \in Procs, CleanTest(p) \/ CleanStore(p) PROVE PcInv'
  BY <1>2 DEF CleanTest, CleanStore, NextToClean
<1>3. ASSUME NEW p \in Procs, ScanTest(p) \/ ScanRetest(p) PROVE PcInv'
  <2>1. /\ pc[p] \in {"scan", "nap"} /\ mine' = mine /\ ret' = ret
        /\ \E l \in {"scan", "nap", "claim", "out"} : pc' = [pc EXCEPT ![p] = l]
    BY <1>3 DEF ScanTest, ScanRetest, NextToScan
  <2>2. QED
    BY <2>1
<1>4. ASSUME NEW p \in Procs, Claim(p) PROVE PcInv'
  BY <1>4 DEF Claim
<1>5. ASSUME NEW p \in Procs, Fill(p) \/ CountSlot(p) PROVE PcInv'
  <2>1. /\ pc[p] \in {"fill", "count"} /\ mine' = mine /\ ret' = ret
        /\ \E l \in {"count", "flags", "exit"} : pc' = [pc EXCEPT ![p] = l]
    BY <1>5 DEF Fill, CountSlot, CheckAfter
  <2>2. QED
    BY <2>1
<1>6. ASSUME NEW p \in Procs, SetFlags(p) \/ InitSftp(p) \/ Quit(p) PROVE PcInv'
  BY <1>6 DEF SetFlags, InitSftp, Quit
<1>7. ASSUME NEW p \in Procs, InitAdmin(p) \/ Release(p) \/ Crash(p) PROVE PcInv'
  <2>1. /\ mine' = [mine EXCEPT ![p] = NoSlot]
        /\ \E l \in {"admin", "out"} : pc' = [pc EXCEPT ![p] = l]
    BY <1>7 DEF InitAdmin, Release, Crash
  <2>2. (ret' = ret /\ ret[p] = "scan") \/ ret' = [ret EXCEPT ![p] = "scan"]
    BY <1>7 DEF InitAdmin, Release, Crash
  <2>3. QED
    BY <2>1, <2>2
<1>8. ASSUME NEW p \in Procs, QuitAdmin(p) PROVE PcInv'
  BY <1>8 DEF QuitAdmin
<1>9. ASSUME NEW p \in Procs, Tick(p) PROVE PcInv'
  BY <1>9 DEF Tick
<1>10. CASE \/ SecondPasses
            \/ \E p \in Procs, a \in Activity : UpdateInfo(p, a)
            \/ UNCHANGED vars
  BY <1>10 DEF SecondPasses, UpdateInfo, vars
<1>11. QED
  BY <1>1, <1>2, <1>3, <1>4, <1>5, <1>6, <1>7, <1>8, <1>9, <1>10
     DEF Next, Clean, Join, Enter, Serve

(* Sharing begins at a claim, and there only if the slot was disturbed: an  *)
(* undisturbed slot in use is occupied, so its claim disturbs it.           *)
LEMMA SharingNext ==
  TypeInv /\ PcInv /\ SharingExplained /\ SessionsListed /\ [Next]_vars
    => SharingExplained'
<1> SUFFICES ASSUME TypeInv, PcInv, SharingExplained, SessionsListed, [Next]_vars
             PROVE SharingExplained'
  OBVIOUS
<1> USE DEF TypeInv, TypeOK, SharingExplained, local
<1>1. ASSUME NEW p \in Procs, Claim(p) PROVE SharingExplained'
  <2> SUFFICES ASSUME NEW q \in Procs, NEW r \in Procs, q # r,
                      mine'[q] # NoSlot, mine'[q] = mine'[r]
               PROVE  mine'[q] \in disturbed'
    OBVIOUS
  <2>1. /\ mine' = [mine EXCEPT ![p] = pos[p]]
        /\ disturbed' = IF ~Held(pos[p]) THEN disturbed \ {pos[p]}
                        ELSE IF Occupied(pos[p]) THEN disturbed \cup {pos[p]}
                        ELSE disturbed
        /\ pos[p] \in Slots
    BY <1>1 DEF Claim
  <2>2. CASE q # p /\ r # p
    <3>1. mine[q] \in disturbed /\ mine[q] = mine'[q] /\ Held(mine[q])
      BY <2>1, <2>2 DEF Held
    <3>2. QED
      BY <2>1, <3>1
  <2>3. ASSUME NEW t \in Procs \ {p}, mine[t] = pos[p] PROVE pos[p] \in disturbed'
    <3>1. Held(pos[p])
      BY <2>3 DEF Held
    <3>2. Occupied(pos[p]) \/ pos[p] \in disturbed
      BY <2>1, <2>3 DEF SessionsListed
    <3>3. QED
      BY <2>1, <3>1, <3>2
  <2>4. CASE q = p \/ r = p
    BY <2>1, <2>3, <2>4
  <2>5. QED
    BY <2>2, <2>4
<1>2. ASSUME NEW p \in Procs, InitAdmin(p) \/ Release(p) \/ Crash(p)
      PROVE SharingExplained'
  BY <1>2 DEF InitAdmin, Release, Crash
<1>3. CASE UNCHANGED mine /\ disturbed \subseteq disturbed'
  BY <1>3
<1>4. ASSUME NEW p \in Procs, CleanStore(p) PROVE SharingExplained'
  BY <1>3, <1>4 DEF CleanStore
<1>5. ASSUME NEW p \in Procs,
             \/ Attach(p) \/ CleanTest(p) \/ ScanTest(p) \/ ScanRetest(p)
             \/ Enter(p) \/ InitSftp(p) \/ Tick(p) \/ Quit(p) \/ QuitAdmin(p)
             \/ \E a \in Activity : UpdateInfo(p, a)
      PROVE SharingExplained'
  BY <1>3, <1>5 DEF Attach, CleanTest, ScanTest, ScanRetest, Enter, Fill, CountSlot,
     SetFlags, InitSftp, Tick, Quit, QuitAdmin, UpdateInfo
<1>6. CASE SecondPasses \/ UNCHANGED vars
  BY <1>3, <1>6 DEF SecondPasses, vars
<1>7. QED
  BY <1>1, <1>2, <1>4, <1>5, <1>6 DEF Next, Clean, Join, Serve

(* A store through mine[p] reaches the slot of another process only if the  *)
(* two share it, and then the slot is disturbed.                            *)
LEMMA StoresAreOwn ==
  ASSUME TypeInv, SharingExplained, NEW p \in Procs, NEW q \in Procs, q # p,
         mine[q] \in Slots \ disturbed, NEW r,
         slot' = [slot EXCEPT ![mine[p]] = r]
  PROVE  slot'[mine[q]] = slot[mine[q]]
BY DEF TypeInv, TypeOK, SharingExplained, Slots, NoSlot

\* Every step keeps undisturbed sessions listed.
LEMMA ListedNext ==
  TypeInv /\ PcInv /\ SharingExplained /\ SessionsListed /\ [Next]_vars
    => SessionsListed'
<1> SUFFICES ASSUME TypeInv, PcInv, SharingExplained, SessionsListed, [Next]_vars,
                    NEW q \in Procs, (mine[q] \in Slots \ disturbed)'
             PROVE /\ slot'[mine'[q]].st # "EMPTY"
                   /\ slot'[mine'[q]].name = IF pc'[q] = "fill" THEN NoName ELSE q
  BY DEF SessionsListed, Occupied
<1> DEFINE Ok == /\ slot'[mine'[q]].st # "EMPTY"
                 /\ slot'[mine'[q]].name = IF pc'[q] = "fill" THEN NoName ELSE q
<1>0. mine[q] \in Slots \ disturbed
        => /\ slot[mine[q]] \in SlotRecord
           /\ slot[mine[q]].st # "EMPTY"
           /\ slot[mine[q]].name = IF pc[q] = "fill" THEN NoName ELSE q
  BY DEF SessionsListed, Occupied, TypeInv, TypeOK
<1> USE DEF TypeInv, TypeOK, local
(* What q knows of its slot is the same when neither its slot nor its       *)
(* being at "fill" changes.                                                 *)
<1>1. ASSUME mine'[q] = mine[q], disturbed \subseteq disturbed',
             slot'[mine[q]].st = slot[mine[q]].st,
             slot'[mine[q]].name = slot[mine[q]].name,
             pc'[q] = "fill" <=> pc[q] = "fill"
      PROVE Ok
  BY <1>0, <1>1
<1>2. ASSUME NEW p \in Procs, CleanTest(p) \/ ScanTest(p) \/ ScanRetest(p) \/ Attach(p)
      PROVE Ok
  <2>1. /\ UNCHANGED <<slot, mine, disturbed>>
        /\ pc[p] \in {"clean", "scan", "nap", "out"}
        /\ \E l \in Pcs \ {"fill"} : pc' = [pc EXCEPT ![p] = l]
    BY <1>2, PcsAre DEF CleanTest, NextToClean, ScanTest, ScanRetest, NextToScan, Attach, Goto
  <2>2. QED
    BY <1>1, <2>1
<1>3. ASSUME NEW p \in Procs, CleanStore(p) PROVE Ok
  <2>1. /\ slot' = [slot EXCEPT ![pos[p]] = Emptied(@)] /\ mine' = mine
        /\ disturbed' = IF Held(pos[p]) THEN disturbed \cup {pos[p]} ELSE disturbed
        /\ pc[p] = "reap"
        /\ \E l \in Pcs \ {"fill"} : pc' = [pc EXCEPT ![p] = l]
    BY <1>3, PcsAre DEF CleanStore, NextToClean, Goto
  <2>2. mine[q] # pos[p]
    BY <2>1 DEF Held
  <2>3. QED
    BY <1>1, <2>1, <2>2
<1>4. ASSUME NEW p \in Procs, Claim(p) PROVE Ok
  <2>1. /\ slot' = [slot EXCEPT ![pos[p]] = Wiped]
        /\ mine' = [mine EXCEPT ![p] = pos[p]]
        /\ disturbed' = IF ~Held(pos[p]) THEN disturbed \ {pos[p]}
                        ELSE IF Occupied(pos[p]) THEN disturbed \cup {pos[p]}
                        ELSE disturbed
        /\ pc' = [pc EXCEPT ![p] = "fill"]
        /\ pos[p] \in Slots
    BY <1>4 DEF Claim, Goto
  <2>2. CASE q = p
    BY <2>1, <2>2 DEF Wiped
  <2>3. CASE q # p /\ mine[q] = pos[p]
    <3>1. Held(pos[p]) /\ mine'[q] = pos[p] /\ mine[q] \notin disturbed
      BY <2>1, <2>3 DEF Held
    <3>2. Occupied(pos[p])
      BY <1>0, <2>1, <2>3, <3>1 DEF Occupied
    <3>3. QED
      BY <2>1, <3>1, <3>2
  <2>4. CASE q # p /\ mine[q] # pos[p]
    <3>1. mine'[q] = mine[q] /\ slot'[mine[q]] = slot[mine[q]] /\ pc'[q] = pc[q]
      BY <2>1, <2>4
    <3>2. mine[q] \in Slots \ disturbed
      BY <2>1, <2>4, <3>1
    <3>3. QED
      BY <1>0, <3>1, <3>2
  <2>5. QED
    BY <2>2, <2>3, <2>4
<1>5. ASSUME NEW p \in Procs, Fill(p) PROVE Ok
  <2>1. /\ slot' = [slot EXCEPT ![mine[p]] = NamedBy(p, @)]
        /\ UNCHANGED <<mine, disturbed>>
        /\ pc[p] = "fill"
        /\ \E l \in {"count", "flags", "exit"} : pc' = [pc EXCEPT ![p] = l]
    BY <1>5 DEF Fill, CheckAfter, Goto
  <2>2. CASE q = p
    BY <1>0, <2>1, <2>2 DEF NamedBy, SlotRecord
  <2>3. CASE q # p
    BY <1>1, <2>1, <2>3, StoresAreOwn
  <2>4. QED
    BY <2>2, <2>3
<1>6. ASSUME NEW p \in Procs, CountSlot(p) \/ InitSftp(p) \/ Quit(p) \/ QuitAdmin(p)
      PROVE Ok
  <2>1. /\ UNCHANGED <<slot, mine, disturbed>>
        /\ pc[p] # "fill"
        /\ \E l \in Pcs \ {"fill"} : pc' = [pc EXCEPT ![p] = l]
    BY <1>6, PcsAre DEF CountSlot, CheckAfter, InitSftp, Quit, QuitAdmin, Goto
  <2>2. QED
    BY <1>1, <2>1
<1>7. ASSUME NEW p \in Procs, SetFlags(p) PROVE Ok
  <2>1. /\ \/ slot' = slot
           \/ slot' = [slot EXCEPT ![mine[p]].fl = @ \/ p \in Flagged]
        /\ UNCHANGED <<mine, disturbed>>
        /\ pc[p] = "flags"
        /\ \E l \in {"init", "exit"} : pc' = [pc EXCEPT ![p] = l]
    BY <1>7 DEF SetFlags, Goto
  <2>2. slot'[mine[q]].st = slot[mine[q]].st /\ slot'[mine[q]].name = slot[mine[q]].name
    BY <1>0, <2>1 DEF SlotRecord
  <2>3. QED
    BY <1>1, <2>1, <2>2
<1>8. ASSUME NEW p \in Procs, InitAdmin(p) \/ Release(p) PROVE Ok
  <2>1. /\ slot' = [slot EXCEPT ![mine[p]] = Emptied(@)]
        /\ mine' = [mine EXCEPT ![p] = NoSlot]
        /\ UNCHANGED disturbed
        /\ pc[p] # "fill"
        /\ \E l \in {"admin", "out"} : pc' = [pc EXCEPT ![p] = l]
    BY <1>8 DEF InitAdmin, Release, Goto
  <2>2. q # p
    BY <2>1 DEF Slots, NoSlot
  <2>3. slot'[mine[q]] = slot[mine[q]]
    BY <2>1, <2>2, StoresAreOwn
  <2>4. QED
    BY <1>1, <2>1, <2>2, <2>3
<1>9. ASSUME NEW p \in Procs, Crash(p) PROVE Ok
  <2>1. q # p
    BY <1>9 DEF Crash, Slots, NoSlot
  <2>2. QED
    BY <1>1, <1>9, <2>1 DEF Crash, Goto
<1>10. ASSUME NEW p \in Procs, NEW a \in Activity, UpdateInfo(p, a) PROVE Ok
  <2>1. /\ slot' = [slot EXCEPT ![mine[p]].st = a]
        /\ UNCHANGED <<pc, mine, disturbed>>
    BY <1>10 DEF UpdateInfo
  <2>2. slot'[mine[q]].st # "EMPTY" /\ slot'[mine[q]].name = slot[mine[q]].name
    BY <1>0, <2>1, ActivityAssumption DEF SlotRecord
  <2>3. QED
    BY <1>0, <2>1, <2>2
<1>11. ASSUME NEW p \in Procs, Tick(p) PROVE Ok
  <2>1. /\ slot' = [slot EXCEPT ![mine[p]].age = 0]
        /\ UNCHANGED <<mine, disturbed>>
        /\ pc[p] # "fill"
        /\ \E l \in {"clean", "exit"} : pc' = [pc EXCEPT ![p] = l]
    BY <1>11, PcsAre DEF Tick, Goto
  <2>2. slot'[mine[q]].st = slot[mine[q]].st /\ slot'[mine[q]].name = slot[mine[q]].name
    BY <1>0, <2>1 DEF SlotRecord
  <2>3. QED
    BY <1>1, <2>1, <2>2
<1>12. CASE SecondPasses
  <2>1. slot'[mine[q]].st = slot[mine[q]].st /\ slot'[mine[q]].name = slot[mine[q]].name
    BY <1>0, <1>12 DEF SecondPasses, SlotRecord
  <2>2. QED
    BY <1>1, <1>12, <2>1 DEF SecondPasses
<1>13. CASE UNCHANGED vars
  BY <1>1, <1>13 DEF vars
<1>14. QED
  BY <1>2, <1>3, <1>4, <1>5, <1>6, <1>7, <1>8, <1>9, <1>10, <1>11, <1>12, <1>13
     DEF Next, Clean, Join, Enter, Serve

\* The invariant of the table holds at first.
LEMMA TableInvInit == Init => TableInv
<1>1. Init => PcInv /\ SharingExplained /\ SessionsListed
  BY DEF Init, PcInv, HasSlot, SharingExplained, SessionsListed, Slots, NoSlot
<1>2. QED
  BY <1>1, TypeInvInit DEF TableInv

\* Every step keeps the invariant of the table.
LEMMA TableInvNext == TableInv /\ [Next]_vars => TableInv'
BY TypeInvNext, PcInvNext, SharingNext, ListedNext DEF TableInv

(* Two processes use the same slot only after a claim stored over another   *)
(* claim, or after the cleaning of the slot of a live process; and a        *)
(* session whose slot was spared both is listed under its own name from its *)
(* claim to its release, for every number of connections and of slots.      *)
THEOREM TableCorrect == Spec => [](SharingExplained /\ SessionsListed)
<1>1. TableInv => SharingExplained /\ SessionsListed
  BY DEF TableInv
<1>2. QED
  BY <1>1, TableInvInit, TableInvNext, PTL DEF Spec

\* The same, for the listing alone, which sftp-who, sftp-kill and the limits use.
THEOREM SessionsAreListed == Spec => []SessionsListed
BY TableCorrect, PTL

-----------------------------------------------------------------------------
(* The limits. No process counts at one instant: it reads one slot after    *)
(* the other while others join and leave. What makes the count sufficient   *)
(* is the order in each process, its name stored before its first read of   *)
(* the table: of any set of filled slots, the one filled last belongs to a  *)
(* process that finds all of them. The invariant says so of every set of    *)
(* filled slots, without an order of the stores: one of their processes     *)
(* reckons with the whole set, so far as it has looked.                     *)
LimitRules == {"user", "ip", "server"}

\* q has stored its name and has not been refused since.
Filled(q) == pc[q] \in {"count", "flags"} \/ InServer(q)

\* The undisturbed slots of the processes that rule r counts with p.
Places(p, r) ==
  {s \in Slots \ disturbed : \E q \in Peers(p, r) : Filled(q) /\ mine[q] = s}

Reckons(q, r, T) ==
  /\ Passed(q, r) => Cardinality(T) <= LimitFor(r)
  /\ pc[q] = "count" /\ rule[q] = r => Cardinality({s \in T : s < pos[q]}) <= nb[q]

LimitInv ==
  /\ \A p \in Procs : pc[p] = "fill" => pos[p] = 1
  /\ \A p \in Procs, r \in LimitRules :
       LimitFor(r) > 0 =>
         \A T \in SUBSET Places(p, r) :
           T # {} => \E q \in Peers(p, r) : Filled(q) /\ mine[q] \in T /\ Reckons(q, r, T)

\* A limit is a number.
LEMMA LimitForType == ASSUME NEW r \in LimitRules PROVE LimitFor(r) \in Nat
BY LimitsAssumption DEF LimitFor, LimitRules

(* The limits are checked in one order, and none that is set is passed      *)
(* over: whoever is past rule r after a check has just checked it, or was   *)
(* past it before.                                                          *)
LEMMA RulesInOrder ==
  ASSUME NEW r \in LimitRules, LimitFor(r) > 0, NEW b \in Rules,
         \/ NextRule(b) = "start"
         \/ r = "user" /\ NextRule(b) \in {"ip", "server"}
         \/ r = "ip" /\ NextRule(b) = "server"
  PROVE  \/ b = r
         \/ r = "user" /\ b \in {"ip", "server"}
         \/ r = "ip" /\ b = "server"
BY LimitsAssumption DEF LimitFor, LimitRules, NextRule, Rules

\* A set of slots is finite, and counted slot by slot.
LEMMA CountUp ==
  ASSUME NEW T \in SUBSET Slots, NEW k \in Slots
  PROVE  /\ IsFiniteSet(T)
         /\ Cardinality({s \in T : s < k}) \in Nat
         /\ Cardinality({s \in T : s < k + 1})
              = IF k \in T THEN Cardinality({s \in T : s < k}) + 1
                           ELSE Cardinality({s \in T : s < k})
         /\ k = NSlots => {s \in T : s < k + 1} = T
<1> DEFINE B == {s \in T : s < k}
           A == {s \in T : s < k + 1}
<1>1. IsFiniteSet(Slots)
  BY FS_Interval DEF Slots
<1>2. IsFiniteSet(T) /\ IsFiniteSet(B)
  BY <1>1, FS_Subset
<1>3. Cardinality(B) \in Nat
  BY <1>2, FS_CardinalityType
<1>4. A = IF k \in T THEN B \cup {k} ELSE B
  <2>1. \A s \in T : s \in Nat /\ (s < k + 1 <=> s < k \/ s = k)
    BY DEF Slots
  <2>2. QED
    BY <2>1
<1>5. k \notin B
  BY DEF Slots
<1>6. Cardinality(A) = IF k \in T THEN Cardinality(B) + 1 ELSE Cardinality(B)
  <2> HIDE DEF A, B
  <2>1. QED
    BY <1>2, <1>4, <1>5, FS_AddElement
<1>7. k = NSlots => A = T
  <2>1. \A s \in T : k = NSlots => s < k + 1
    BY DEF Slots
  <2>2. QED
    BY <2>1
<1>8. QED
  BY <1>2, <1>3, <1>6, <1>7

\* The steps of one process.
Moves(p) == Attach(p) \/ Clean(p) \/ Join(p) \/ Enter(p) \/ Serve(p) \/ Release(p) \/ Crash(p)

\* A step of one process leaves the variables of the others alone.
LEMMA OthersStay ==
  ASSUME TypeInv, NEW p \in Procs, Moves(p), NEW q \in Procs, q # p
  PROVE  /\ pc'[q] = pc[q] /\ mine'[q] = mine[q] /\ ret'[q] = ret[q]
         /\ pos'[q] = pos[q] /\ rule'[q] = rule[q] /\ nb'[q] = nb[q]
<1> USE DEF TypeInv, TypeOK, Goto, local
<1>1. CASE Attach(p) \/ Clean(p)
  BY <1>1 DEF Attach, Clean, CleanTest, CleanStore, NextToClean
<1>2. CASE Join(p)
  BY <1>2 DEF Join, ScanTest, ScanRetest, NextToScan, Claim
<1>3. CASE Enter(p)
  BY <1>3 DEF Enter, Fill, CountSlot, SetFlags, CheckAfter
<1>4. CASE Serve(p)
  BY <1>4 DEF Serve, InitSftp, InitAdmin, Tick, Quit, QuitAdmin, UpdateInfo
<1>5. CASE Release(p) \/ Crash(p)
  BY <1>5 DEF Release, Crash
<1>6. QED
  BY <1>1, <1>2, <1>3, <1>4, <1>5 DEF Moves

(* A process that stays admitted by a step other than the store of its name *)
(* or a read of its counts had all its limits checked before the step.      *)
LEMMA OwnStep ==
  ASSUME TypeInv, PcInv, NEW p \in Procs, Moves(p), ~Fill(p), ~CountSlot(p), Filled(p)'
  PROVE  pc'[p] # "count" /\ mine'[p] = mine[p] /\ (pc[p] = "flags" \/ InServer(p))
<1> USE PcsAre DEF TypeInv, TypeOK, PcInv, Goto, local, Filled, InServer, Cleaning
<1>1. CASE Attach(p)
  BY <1>1 DEF Attach
<1>2. CASE Clean(p)
  BY <1>2 DEF Clean, CleanTest, CleanStore, NextToClean
<1>3. CASE Join(p)
  <2>1. /\ \E l \in {"scan", "nap", "claim", "out", "fill"} : pc' = [pc EXCEPT ![p] = l]
    BY <1>3 DEF Join, ScanTest, ScanRetest, NextToScan, Claim
  <2>2. QED
    BY <2>1
<1>4. CASE Enter(p)
  BY <1>4 DEF Enter, SetFlags
<1>5. CASE Serve(p)
  BY <1>5 DEF Serve, InitSftp, InitAdmin, Tick, Quit, QuitAdmin, UpdateInfo
<1>6. CASE Release(p) \/ Crash(p)
  BY <1>6 DEF Release, Crash
<1>7. QED
  BY <1>1, <1>2, <1>3, <1>4, <1>5, <1>6 DEF Moves

\* A disturbed slot stays so as long as it is used.
LEMMA DisturbedStays ==
  ASSUME [Next]_vars, NEW q \in Procs, mine[q] \in disturbed
  PROVE  mine[q] \in disturbed'
<1>1. ASSUME NEW p \in Procs, Claim(p) PROVE mine[q] \in disturbed'
  BY <1>1 DEF Claim, Held
<1>2. ASSUME ~ \E p \in Procs : Claim(p) PROVE mine[q] \in disturbed'
  BY <1>2 DEF Next, Clean, Join, Enter, Serve, vars, local, Attach, CleanTest, CleanStore,
     ScanTest, ScanRetest, Fill, CountSlot, SetFlags, InitSftp, InitAdmin, Tick, Quit,
     QuitAdmin, UpdateInfo, Release, Crash, SecondPasses
<1>3. QED
  BY <1>1, <1>2

LEMMA NoneBelow == \A s \in Slots : s \in Nat /\ ~(s < 1)
BY SlotsAssumption DEF Slots

\* A read of the table by the process that reckons with T.
LEMMA CountKeeps ==
  ASSUME TableInv, NEW p0 \in Procs, NEW r \in LimitRules, LimitFor(r) > 0,
         NEW T \in SUBSET Places(p0, r), NEW q \in Peers(p0, r), Reckons(q, r, T),
         CountSlot(q), pc'[q] # "exit"
  PROVE  Reckons(q, r, T)'
<1> DEFINE n == IF Counts(q, pos[q]) THEN nb[q] + 1 ELSE nb[q]
           Below(k) == {s \in T : s < k}
           Seen(k) == Cardinality(Below(k))
<1>1. /\ TypeInv /\ SessionsListed /\ q \in Procs /\ pc[q] = "count"
      /\ T \in SUBSET Slots /\ pos[q] \in Slots /\ nb[q] \in Nat /\ rule[q] \in Rules
      /\ LimitFor(r) \in Nat
  BY LimitForType DEF TableInv, TypeInv, TypeOK, Peers, Places, CountSlot
<1>2. /\ Seen(pos[q]) \in Nat
      /\ Seen(pos[q] + 1) = IF pos[q] \in T THEN Seen(pos[q]) + 1 ELSE Seen(pos[q])
      /\ pos[q] = NSlots => Below(pos[q] + 1) = T
  <2>1. ASSUME NEW k \in Slots
        PROVE /\ Seen(k) \in Nat
              /\ Seen(k + 1) = IF k \in T THEN Seen(k) + 1 ELSE Seen(k)
              /\ k = NSlots => Below(k + 1) = T
    <3>1. T \in SUBSET Slots
      BY <1>1
    <3>2. QED
      BY <3>1, CountUp, Zenon
  <2> HIDE DEF Seen, Below
  <2>2. QED
    BY <1>1, <2>1
\* A filled slot of a peer is counted.
<1>3. ASSUME rule[q] = r, pos[q] \in T PROVE Counts(q, pos[q])
  <2>1. PICK x \in Peers(p0, r) : Filled(x) /\ mine[x] = pos[q]
    BY <1>3 DEF Places
  <2>2. x \in Procs /\ pc[x] # "fill" /\ mine[x] \in Slots \ disturbed
    BY <1>3, <2>1 DEF Filled, InServer, Serving, Cleaning, Peers, Places
  <2>3. Occupied(pos[q]) /\ slot[pos[q]].name = x
    BY <1>1, <2>1, <2>2 DEF SessionsListed
  <2>4. QED
    BY <1>3, <2>2, <2>3 DEF Counts, Peers, LimitRules
<1>4. rule[q] = r => Seen(pos[q] + 1) <= n
  BY <1>1, <1>2, <1>3 DEF Reckons
<1> HIDE DEF n
<1>5. CASE /\ pos[q] < NSlots
           /\ pos' = [pos EXCEPT ![q] = @ + 1]
           /\ nb' = [nb EXCEPT ![q] = n]
           /\ UNCHANGED <<pc, rule>>
  <2>1. pc'[q] = "count" /\ rule'[q] = rule[q] /\ pos'[q] = pos[q] + 1 /\ nb'[q] = n
    BY <1>1, <1>5 DEF TypeInv, TypeOK
  <2>2. Passed(q, r)' => Passed(q, r)
    BY <1>1, <2>1 DEF Passed, InServer, Serving, Cleaning
  <2>3. QED
    BY <1>4, <2>1, <2>2 DEF Reckons
<1>6. CASE /\ pos[q] = NSlots
           /\ pos' = [pos EXCEPT ![q] = 1]
           /\ nb' = [nb EXCEPT ![q] = 0]
           /\ ~TooMany(q, n)
           /\ CheckAfter(q, rule[q])
  <2>1. /\ pos'[q] = 1 /\ nb'[q] = 0
        /\ rule'[q] = NextRule(rule[q])
        /\ pc'[q] = IF NextRule(rule[q]) = "start" THEN "flags" ELSE "count"
    BY <1>1, <1>6 DEF CheckAfter, Goto, TypeInv, TypeOK
  <2>2. {s \in T : s < pos'[q]} = {}
    <3>1. T \subseteq Slots /\ \A s \in Slots : s \in Nat /\ ~(s < 1)
      BY <1>1, NoneBelow
    <3>2. QED
      BY <2>1, <3>1
  <2>3. Cardinality({s \in T : s < pos'[q]}) <= nb'[q]
    BY <2>1, <2>2, FS_EmptySet
  <2>4. Passed(q, r)' => Cardinality(T) <= LimitFor(r)
    <3>1. SUFFICES ASSUME Passed(q, r)' PROVE Cardinality(T) <= LimitFor(r)
      OBVIOUS
    <3>2. \/ NextRule(rule[q]) = "start"
          \/ r = "user" /\ NextRule(rule[q]) \in {"ip", "server"}
          \/ r = "ip" /\ NextRule(rule[q]) = "server"
      BY <2>1, <3>1 DEF Passed, InServer, Serving, Cleaning
    <3>3. CASE rule[q] = r
      <4>1. Cardinality(T) = Seen(pos[q] + 1)
        BY <1>2, <1>6
      <4>2. n \in Nat
        BY <1>1 DEF n
      <4> HIDE DEF Seen, Below
      <4>3. QED
        BY <1>1, <1>2, <1>4, <1>6, <3>3, <4>1, <4>2 DEF TooMany
    <3>4. CASE Passed(q, r)
      BY <3>4 DEF Reckons
    <3>5. rule[q] = r \/ Passed(q, r)
      <4>1. \/ rule[q] = r
            \/ r = "user" /\ rule[q] \in {"ip", "server"}
            \/ r = "ip" /\ rule[q] = "server"
        BY <1>1, <3>2, RulesInOrder
      <4>2. QED
        BY <1>1, <4>1 DEF Passed
    <3>6. QED
      BY <3>3, <3>4, <3>5
  <2>5. QED
    BY <2>3, <2>4 DEF Reckons
<1>7. QED
  <2>1. pc'[q] # "exit" => ~Goto(q, "exit")
    BY <1>1 DEF Goto, TypeInv, TypeOK
  <2>2. QED
    BY <1>5, <1>6, <2>1 DEF CountSlot, n

(* Every step keeps the limits: a set of filled slots gains the slot of the *)
(* process that fills it, which has read nothing yet, and otherwise only    *)
(* loses members; the process that reckons with it goes on to.              *)
LEMMA LimitInvNext == TableInv /\ LimitInv /\ [Next]_vars => LimitInv'
<1> SUFFICES ASSUME TableInv, LimitInv, [Next]_vars PROVE LimitInv'
  OBVIOUS
<1>1. TypeInv /\ PcInv /\ SharingExplained /\ TypeInv'
  BY TypeInvNext DEF TableInv
<1>2. \A p \in Procs : /\ Fill(p) => pc[p] = "fill" /\ Moves(p)
                       /\ CountSlot(p) => pc[p] = "count" /\ Moves(p)
  BY DEF Fill, CountSlot, Moves, Enter
\* What a step does to one process.
<1>3. ASSUME NEW q \in Procs
      PROVE \/ /\ pc'[q] = pc[q] /\ mine'[q] = mine[q] /\ ret'[q] = ret[q]
               /\ pos'[q] = pos[q] /\ rule'[q] = rule[q] /\ nb'[q] = nb[q]
            \/ Moves(q)
  <2>1. CASE SecondPasses \/ UNCHANGED vars
    BY <2>1 DEF SecondPasses, vars, local
  <2>2. CASE \E p \in Procs : Moves(p)
    BY <1>1, <2>2, OthersStay
  <2>3. QED
    BY <2>1, <2>2 DEF Next, Moves
<1>4. ASSUME NEW q \in Procs, pc'[q] = "fill" PROVE pos'[q] = 1
  <2>1. CASE pc'[q] = pc[q] /\ pos'[q] = pos[q]
    BY <1>4, <2>1 DEF LimitInv
  <2>2. CASE Moves(q)
    <3> USE <1>1, PcsAre DEF TypeInv, TypeOK, PcInv, Goto, local
    <3>1. CASE Attach(q) \/ Clean(q)
      BY <1>4, <3>1 DEF Attach, Clean, CleanTest, CleanStore, NextToClean
    <3>2. CASE Join(q)
      BY <1>4, <3>2 DEF Join, ScanTest, ScanRetest, NextToScan, Claim
    <3>3. CASE Enter(q)
      BY <1>4, <3>3 DEF Enter, Fill, CountSlot, SetFlags, CheckAfter
    <3>4. CASE Serve(q)
      BY <1>4, <3>4 DEF Serve, InitSftp, InitAdmin, Tick, Quit, QuitAdmin, UpdateInfo
    <3>5. CASE Release(q) \/ Crash(q)
      BY <1>4, <3>5 DEF Release, Crash
    <3>6. QED
      BY <2>2, <3>1, <3>2, <3>3, <3>4, <3>5 DEF Moves
  <2>3. QED
    BY <1>3, <2>1, <2>2
<1>5. ASSUME NEW p0 \in Procs, NEW r \in LimitRules, LimitFor(r) > 0,
             NEW T \in SUBSET Places(p0, r)', T # {}
      PROVE \E q \in Peers(p0, r) : Filled(q)' /\ mine'[q] \in T /\ Reckons(q, r, T)'
  <2>0. Peers(p0, r) \subseteq Procs
    BY DEF Peers
  <2>1. \A x \in Procs : Filled(x)' => mine'[x] = mine[x] /\ (Filled(x) \/ Fill(x))
    <3> SUFFICES ASSUME NEW x \in Procs, Filled(x)'
                 PROVE mine'[x] = mine[x] /\ (Filled(x) \/ Fill(x))
      OBVIOUS
    <3>1. CASE Moves(x) /\ ~Fill(x) /\ ~CountSlot(x)
      BY <1>1, <3>1, OwnStep DEF Filled
    <3>2. CASE Fill(x) \/ CountSlot(x)
      BY <1>2, <3>2 DEF Fill, CountSlot, Filled
    <3>3. CASE pc'[x] = pc[x] /\ mine'[x] = mine[x] /\ ret'[x] = ret[x]
      BY <3>3 DEF Filled, InServer
    <3>4. QED
      BY <1>3, <3>1, <3>2, <3>3
  <2>2. \A s \in T : \E x \in Peers(p0, r) :
          /\ Filled(x)' /\ mine[x] = s /\ mine'[x] = s
          /\ s \in Slots \ disturbed /\ (Filled(x) \/ Fill(x))
    <3> SUFFICES ASSUME NEW s \in T
                 PROVE \E x \in Peers(p0, r) :
                         /\ Filled(x)' /\ mine[x] = s /\ mine'[x] = s
                         /\ s \in Slots \ disturbed /\ (Filled(x) \/ Fill(x))
      OBVIOUS
    <3>1. PICK x \in Peers(p0, r) : Filled(x)' /\ mine'[x] = s /\ s \in Slots \ disturbed'
      BY DEF Places, Peers
    <3>2. mine[x] = s /\ (Filled(x) \/ Fill(x))
      BY <2>0, <2>1, <3>1
    <3>3. s \notin disturbed
      BY <2>0, <3>1, <3>2, DisturbedStays
    <3>4. QED
      BY <3>1, <3>2, <3>3
\* The process that has just filled a slot of T has read nothing.
  <2>3. CASE \E x \in Peers(p0, r) : Fill(x) /\ Filled(x)' /\ mine'[x] \in T
    <3>1. PICK x \in Peers(p0, r) : Fill(x) /\ Filled(x)' /\ mine'[x] \in T
      BY <2>3
    <3>2. /\ pc[x] = "fill" /\ pos[x] = 1 /\ nb[x] = 0
          /\ pos'[x] = 1 /\ nb'[x] = 0
      BY <1>1, <2>0, <3>1 DEF Fill, LimitInv, TypeInv
    <3>3. CheckAfter(x, "start") \/ Goto(x, "exit")
      BY <3>1 DEF Fill
    <3>4. pc'[x] # "exit"
      BY <3>1, PcsAre DEF Filled, InServer, Cleaning
    <3>5. CheckAfter(x, "start")
      BY <1>1, <2>0, <3>3, <3>4 DEF Goto, TypeInv, TypeOK
    <3>6. /\ rule'[x] = NextRule("start")
          /\ pc'[x] = IF NextRule("start") = "start" THEN "flags" ELSE "count"
      BY <1>1, <2>0, <3>5 DEF CheckAfter, Goto, TypeInv, TypeOK
    <3>7. ~ \/ NextRule("start") = "start"
            \/ r = "user" /\ NextRule("start") \in {"ip", "server"}
            \/ r = "ip" /\ NextRule("start") = "server"
      <4>1. "start" \in Rules
        BY DEF Rules
      <4>2. r # "start"
        BY DEF LimitRules
      <4>3. QED
        BY <1>5, <4>1, <4>2, RulesInOrder
    <3>8. ~ Passed(x, r)'
      BY <3>6, <3>7, PcsAre DEF Passed, InServer, Cleaning
    <3>9. {s \in T : s < pos'[x]} = {}
      <4>1. T \subseteq Slots /\ \A s \in Slots : s \in Nat /\ ~(s < 1)
        BY <2>2, NoneBelow
      <4>2. QED
        BY <3>2, <4>1
    <3>10. Cardinality({s \in T : s < pos'[x]}) <= nb'[x]
      BY <3>2, <3>9, FS_EmptySet
    <3>11. QED
      BY <3>1, <3>8, <3>10 DEF Reckons
  <2>4. CASE ~ \E x \in Peers(p0, r) : Fill(x) /\ Filled(x)' /\ mine'[x] \in T
    <3>1. T \in SUBSET Places(p0, r)
      BY <2>2, <2>4 DEF Places
    <3>2. PICK q \in Peers(p0, r) : Filled(q) /\ mine[q] \in T /\ Reckons(q, r, T)
      BY <1>5, <3>1 DEF LimitInv
    <3>3. q \in Procs
      BY <2>0
\* Its slot is still used, and by nobody else: it has not left.
    <3>4. Filled(q)' /\ mine'[q] = mine[q]
      <4>1. PICK x \in Peers(p0, r) :
              /\ Filled(x)' /\ mine[x] = mine[q] /\ mine'[x] = mine[q]
              /\ mine[q] \in Slots \ disturbed
        BY <2>2, <3>2
      <4>2. x = q
        BY <1>1, <2>0, <3>3, <4>1 DEF SharingExplained, Slots, NoSlot
      <4>3. QED
        BY <4>1, <4>2
    <3>5. pc[q] # "fill" /\ ~Fill(q)
      BY <1>2, <3>2, <3>3, PcsAre DEF Filled, InServer, Cleaning
    <3>6. CASE CountSlot(q)
      <4>1. pc'[q] # "exit"
        BY <3>4, PcsAre DEF Filled, InServer, Cleaning
      <4>2. Reckons(q, r, T)'
        BY <1>5, <3>1, <3>2, <3>6, <4>1, CountKeeps
      <4>3. QED
        BY <3>2, <3>4, <4>2
    <3>7. CASE Moves(q) /\ ~CountSlot(q)
      <4>1. pc'[q] # "count" /\ (pc[q] = "flags" \/ InServer(q))
        BY <1>1, <3>3, <3>4, <3>5, <3>7, OwnStep DEF Filled
      <4>2. Passed(q, r)
        BY <4>1 DEF Passed
      <4>3. Reckons(q, r, T)'
        BY <3>2, <4>1, <4>2 DEF Reckons
      <4>4. QED
        BY <3>2, <3>4, <4>3
    <3>8. CASE /\ pc'[q] = pc[q] /\ ret'[q] = ret[q] /\ pos'[q] = pos[q]
               /\ rule'[q] = rule[q] /\ nb'[q] = nb[q]
      <4>1. Passed(q, r)' => Passed(q, r)
        BY <3>8 DEF Passed, InServer
      <4>2. Reckons(q, r, T)'
        BY <3>2, <3>8, <4>1 DEF Reckons
      <4>3. QED
        BY <3>2, <3>4, <4>2
    <3>9. QED
      BY <1>3, <3>3, <3>6, <3>7, <3>8
  <2>5. QED
    BY <2>3, <2>4
<1>6. QED
  BY <1>4, <1>5 DEF LimitInv, Peers

\* Nobody has a slot at first.
LEMMA LimitInvInit == Init => LimitInv
<1> SUFFICES ASSUME Init PROVE LimitInv
  OBVIOUS
<1>1. \A p \in Procs : ~Filled(p) /\ pc[p] # "fill"
  BY PcsAre DEF Init, Filled, InServer, Cleaning
<1>2. \A p \in Procs, r \in LimitRules : Places(p, r) = {}
  BY <1>1 DEF Places, Peers
<1>3. QED
  BY <1>1, <1>2 DEF LimitInv

(* The admitted sessions of a user, of an address or of the server have a   *)
(* slot each, so the set of their slots is as large as they are many.       *)
LEMMA LimitInvImplies == TableInv /\ LimitInv => LimitsHold
<1> SUFFICES ASSUME TableInv, LimitInv, NEW p \in Procs, NEW r \in LimitRules,
                    LimitFor(r) > 0
             PROVE Cardinality({q \in Peers(p, r) : Passed(q, r) /\ mine[q] \notin disturbed})
                     <= LimitFor(r)
  BY DEF LimitsHold, LimitRules
<1> DEFINE A == {q \in Peers(p, r) : Passed(q, r) /\ mine[q] \notin disturbed}
           T == {mine[q] : q \in A}
<1>1. \A q \in A : /\ q \in Procs /\ Filled(q) /\ mine[q] \in Slots \ disturbed
  BY PcsAre DEF TableInv, PcInv, HasSlot, Passed, Filled, InServer, Cleaning, Peers
<1>2. T \in SUBSET Places(p, r) /\ T \in SUBSET Slots
  BY <1>1 DEF Places
<1>3. \A x, y \in A : mine[x] = mine[y] => x = y
  BY <1>1 DEF TableInv, SharingExplained, Slots, NoSlot
<1>4. IsFiniteSet(T)
  <2>1. IsFiniteSet(Slots)
    BY FS_Interval DEF Slots
  <2> HIDE DEF T
  <2>2. QED
    BY <1>2, <2>1, FS_Subset
<1>5. IsFiniteSet(A) /\ Cardinality(A) <= Cardinality(T)
  <2> DEFINE f == [q \in A |-> mine[q]]
  <2>1. f \in Injection(A, T)
    <3> HIDE DEF A
    <3>1. f \in [A -> T]
      OBVIOUS
    <3>2. \A x, y \in A : f[x] = f[y] => x = y
      BY <1>3
    <3>3. QED
      BY <3>1, <3>2 DEF Injection, IsInjective
  <2> HIDE DEF f, A, T
  <2>2. QED
    BY <1>4, <2>1, FS_Injection
<1>6. Cardinality(A) \in Nat /\ Cardinality(T) \in Nat /\ LimitFor(r) \in Nat
  BY <1>4, <1>5, FS_CardinalityType, LimitForType
<1>7. CASE T = {}
  BY <1>5, <1>6, <1>7, FS_EmptySet
<1>8. CASE T # {}
  <2>1. PICK q \in Peers(p, r) : Filled(q) /\ mine[q] \in T /\ Reckons(q, r, T)
    BY <1>2, <1>8 DEF LimitInv
  <2>2. PICK x \in A : mine[x] = mine[q]
    BY <2>1
  <2>3. x = q
    BY <1>1, <2>1, <2>2 DEF TableInv, SharingExplained, Slots, NoSlot, Peers
  <2>4. Passed(q, r)
    BY <2>2, <2>3
  <2>5. Cardinality(T) <= LimitFor(r)
    BY <2>1, <2>4 DEF Reckons
  <2> HIDE DEF A, T
  <2>6. Cardinality(A) <= LimitFor(r)
    BY <1>5, <1>6, <2>5
  <2>7. QED
    BY <2>6 DEF A
<1>9. QED
  BY <1>7, <1>8

(* LimitConnectionByUser, LimitConnectionByIP and LimitConnection hold of   *)
(* the sessions whose slots were spared, for every number of connections,   *)
(* of slots and every value of the limits, however the steps of main(), of  *)
(* the cleanings and of the releases interleave: count_program_for_uid and  *)
(* count_program_for_ip count late enough.                                  *)
THEOREM LimitsCorrect == Spec => []LimitsHold
<1>1. Init => TableInv /\ LimitInv
  BY TableInvInit, LimitInvInit
<1>2. TableInv /\ LimitInv /\ [Next]_vars => (TableInv /\ LimitInv)'
  BY TableInvNext, LimitInvNext
<1>3. QED
  BY <1>1, <1>2, LimitInvImplies, PTL DEF Spec
=============================================================================
