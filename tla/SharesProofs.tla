---------------------------- MODULE SharesProofs ----------------------------
(***************************************************************************)
(* The shares of Shares fit for every number of sessions, every            *)
(* GlobalDownload that leaves each of them a byte, and all profiles.       *)
(***************************************************************************)
EXTENDS Shares, FiniteSetTheorems, TLAPS

\* A session has counted no more slots than it has looked at, and none before
\* it counts.
NbInv ==
  \A s \in Sessions : nb[s] < at[s] /\ (~Loading(s) => at[s] = 1)

\* Downloads among the slots a counting session has looked at.
Seen(s) == {i \in Listed : i < at[s]}

\* A count that began after the last download has missed none.
CountInv == \A s \in recent : Cardinality(Seen(s)) <= nb[s]

\* Who has a slot has stored GlobalDownload in the segment.
MaxInv ==
  /\ \A s \in Sessions : pc[s] \in {"serving", "counting", "taking"} => max = GlobalDownload
  /\ Listed # {} => max = GlobalDownload

\* What such a count stored is a part that fits.
ShareInv ==
  current /\ Listed # {} => share > 0 /\ share * Cardinality(Listed) <= GlobalDownload

IInv == TypeOK /\ NbInv /\ CountInv /\ MaxInv /\ ShareInv /\ SharesFit

-----------------------------------------------------------------------------
(* Arithmetic and counting                                                 *)

LEMMA DivTimes ==
  ASSUME NEW a \in Nat, NEW n \in Nat \ {0}
  PROVE  a \div n \in Nat /\ (a \div n) * n <= a
BY SMT

LEMMA DivPositive ==
  ASSUME NEW a \in Nat, NEW n \in Nat \ {0}, n <= a
  PROVE  a \div n >= 1
BY SMT

LEMMA TimesMonotone ==
  ASSUME NEW a \in Nat, NEW m \in Nat, NEW n \in Nat, m <= n
  PROVE  a * m <= a * n
BY SMT

LEMMA SetOfSessions ==
  ASSUME NEW S \in SUBSET Sessions
  PROVE  IsFiniteSet(S) /\ Cardinality(S) \in 0 .. NSessions
<1>1. IsFiniteSet(Sessions) /\ Cardinality(Sessions) = NSessions
  <2>1. 1 <= NSessions => IsFiniteSet(1 .. NSessions) /\ Cardinality(1 .. NSessions) = NSessions - 1 + 1
    BY FS_Interval, SessionsAssumption
  <2>2. NSessions = 0 => 1 .. NSessions = {}
    BY SMT
  <2> QED BY <2>1, <2>2, FS_EmptySet, SessionsAssumption DEF Sessions
<1>2. IsFiniteSet(S) /\ Cardinality(S) <= NSessions
  BY <1>1, FS_Subset
<1>3. Cardinality(S) \in Nat
  BY <1>2, FS_CardinalityType
<1> QED BY <1>2, <1>3, SessionsAssumption

LEMMA FewerSessions ==
  ASSUME NEW S \in SUBSET Sessions, NEW T \in SUBSET S
  PROVE  Cardinality(T) <= Cardinality(S)
BY SetOfSessions, FS_Subset

\* What fits all that download fits them when some have stopped.
LEMMA FitsFewer ==
  ASSUME NEW q \in Nat, NEW S \in SUBSET Sessions, NEW T \in SUBSET S,
         q * Cardinality(S) <= GlobalDownload
  PROVE  q * Cardinality(T) <= GlobalDownload
<1>1. T \in SUBSET Sessions
  OBVIOUS
<1>2. Cardinality(S) \in Nat /\ Cardinality(T) \in Nat
  BY <1>1, SetOfSessions
<1>3. Cardinality(T) <= Cardinality(S)
  BY FewerSessions
<1>4. q * Cardinality(T) <= q * Cardinality(S)
  BY <1>2, <1>3, TimesMonotone
<1>5. q * Cardinality(T) \in Nat /\ q * Cardinality(S) \in Nat
  BY <1>2, SMT
<1> QED BY <1>4, <1>5, GlobalAssumption

LEMMA PartFits ==
  ASSUME NEW n \in 1 .. NSessions, max = GlobalDownload
  PROVE  Part(n) \in Nat /\ Part(n) > 0 /\ Part(n) * n <= GlobalDownload
<1>1. n \in Nat \ {0} /\ n <= GlobalDownload
  BY SessionsAssumption, GlobalAssumption
<1>2. Part(n) = GlobalDownload \div n
  BY <1>1 DEF Part
<1> QED BY <1>1, <1>2, DivTimes, DivPositive, GlobalAssumption

-----------------------------------------------------------------------------
(* Steps that begin no download                                            *)

\* Such a step keeps what was said of the downloads, if it keeps the rest.
Fewer == Listed' \subseteq Listed

LEMMA ListedType == Listed \in SUBSET Sessions
BY DEF Listed

LEMMA CountKept ==
  ASSUME TypeOK, CountInv, Fewer, NEW s \in recent, at'[s] = at[s], nb'[s] = nb[s]
  PROVE  Cardinality(Seen(s)') <= nb'[s]
<1>1. Seen(s) \in SUBSET Sessions /\ Seen(s)' \in SUBSET Seen(s)
  BY DEF Seen, Listed, Fewer
<1>2. Seen(s)' \in SUBSET Sessions
  BY <1>1
<1>3. Cardinality(Seen(s)) \in Nat /\ Cardinality(Seen(s)') \in Nat
  BY <1>1, <1>2, SetOfSessions
<1>4. Cardinality(Seen(s)') <= Cardinality(Seen(s))
  BY <1>1, FewerSessions
<1>5. Cardinality(Seen(s)) <= nb[s] /\ nb[s] \in Nat
  BY DEF CountInv, TypeOK
<1> QED BY <1>3, <1>4, <1>5

LEMMA ShareKept ==
  ASSUME TypeOK, ShareInv, Fewer, share' = share, current' = current
  PROVE  ShareInv'
<1>1. Listed \in SUBSET Sessions /\ Listed' \in SUBSET Listed /\ share \in Nat
  BY DEF Listed, Fewer, TypeOK
<1>2. SUFFICES ASSUME current, Listed' # {}
               PROVE  share > 0 /\ share * Cardinality(Listed') <= GlobalDownload
  BY DEF ShareInv
<1>3. share > 0 /\ share * Cardinality(Listed) <= GlobalDownload
  BY <1>1, <1>2 DEF ShareInv
<1> QED BY <1>1, <1>3, FitsFewer

LEMMA FitKept ==
  ASSUME TypeOK, SharesFit, Fewer,
         \A s \in settled' : s \in settled /\ own'[s] = own[s] /\ quota'[s] = quota[s]
  PROVE  SharesFit'
<1>1. Listed \in SUBSET Sessions /\ Listed' \in SUBSET Listed
  BY DEF Listed, Fewer
<1>2. SUFFICES ASSUME NEW s \in settled' \cap Listed', ~own'[s].bypass
               PROVE  quota'[s] > 0 /\ quota'[s] * Cardinality(Listed') <= GlobalDownload
  BY DEF SharesFit
<1>3. s \in settled \cap Listed /\ own'[s] = own[s] /\ quota'[s] = quota[s] /\ quota[s] \in Nat
  BY <1>1 DEF TypeOK
<1>4. quota[s] > 0 /\ quota[s] * Cardinality(Listed) <= GlobalDownload
  BY <1>2, <1>3 DEF SharesFit
<1> QED BY <1>1, <1>3, <1>4, FitsFewer

-----------------------------------------------------------------------------
(* The steps                                                               *)

LEMMA InitHolds == Init => IInv
<1> SUFFICES ASSUME Init PROVE IInv
  OBVIOUS
<1>1. TypeOK
  <2>1. /\ at \in [Sessions -> 1 .. NSessions + 1]
        /\ nb \in [Sessions -> 0 .. NSessions]
    BY SessionsAssumption DEF Init
  <2>2. own \in [Sessions -> [download : Nat, bypass : BOOLEAN]]
    <3>1. Nobody \in [download : Nat, bypass : BOOLEAN]
      BY DEF Nobody
    <3> QED BY <3>1 DEF Init
  <2> QED BY <2>1, <2>2 DEF Init, TypeOK
<1>2. Listed = {}
  BY DEF Init, Listed
<1> QED BY <1>1, <1>2 DEF IInv, Init, NbInv, CountInv, MaxInv, ShareInv, SharesFit

LEMMA CountSlotKeeps ==
  ASSUME IInv, NEW s \in Sessions, CountSlot(s)
  PROVE  IInv'
<1> DEFINE i == at[s]
<1>0. TypeOK /\ NbInv /\ CountInv /\ MaxInv /\ ShareInv /\ SharesFit
  BY DEF IInv
<1>1. i \in Sessions /\ i \in 1 .. NSessions
  BY <1>0, SessionsAssumption DEF CountSlot, MoreSlots, TypeOK, Sessions
<1>2. /\ status' = IF i \in aged THEN [status EXCEPT ![i] = "empty"] ELSE status
      /\ aged' = aged \ {i}
      /\ nb' = IF i \notin aged /\ status[i] = "get" THEN [nb EXCEPT ![s] = nb[s] + 1] ELSE nb
      /\ at' = [at EXCEPT ![s] = i + 1]
      /\ UNCHANGED <<pc, max, share, own, quota, recent, current, settled>>
  BY DEF CountSlot, global, session, history
<1>3. Fewer
  BY <1>0, <1>2 DEF Fewer, Listed, TypeOK
<1>4. nb[s] \in Nat /\ nb[s] < i /\ nb[s] <= NSessions
  BY <1>0 DEF NbInv, TypeOK
<1>5. TypeOK'
  <2>1. status' \in [Sessions -> {"empty", "idle", "get"}]
    BY <1>0, <1>2 DEF TypeOK
  <2>2. nb' \in [Sessions -> 0 .. NSessions]
    <3>1. nb[s] + 1 \in 0 .. NSessions
      BY <1>1, <1>4, SessionsAssumption
    <3> QED BY <1>0, <1>2, <3>1 DEF TypeOK
  <2>3. at' \in [Sessions -> 1 .. NSessions + 1]
    <3>1. i + 1 \in 1 .. NSessions + 1
      BY <1>1, SessionsAssumption
    <3> QED BY <1>0, <1>2, <3>1 DEF TypeOK
  <2> QED BY <1>0, <1>2, <2>1, <2>2, <2>3 DEF TypeOK
<1>6. NbInv'
  <2>1. nb'[s] < at'[s] /\ Loading(s)'
    BY <1>0, <1>1, <1>2, <1>4 DEF TypeOK, CountSlot, Loading
  <2>2. ASSUME NEW r \in Sessions, r # s
        PROVE  nb'[r] < at'[r] /\ (~Loading(r)' => at'[r] = 1)
    BY <1>0, <1>2, <2>2 DEF NbInv, TypeOK, Loading
  <2> QED BY <2>1, <2>2 DEF NbInv
<1>7. CountInv'
  <2>1. SUFFICES ASSUME NEW r \in recent PROVE Cardinality(Seen(r)') <= nb'[r]
    BY <1>2 DEF CountInv
  <2>2. r \in Sessions
    BY <1>0 DEF TypeOK
  <2>3. CASE r # s
    <3>1. at'[r] = at[r] /\ nb'[r] = nb[r]
      BY <1>0, <1>2, <2>2, <2>3 DEF TypeOK
    <3> QED BY <1>0, <1>3, <3>1, CountKept
  <2>4. CASE r = s
    <3>1. at'[s] = i + 1
      BY <1>0, <1>2 DEF TypeOK
    <3>2. Seen(s) \in SUBSET Sessions /\ Seen(s)' \in SUBSET Sessions
      BY DEF Seen, Listed
    <3>3. /\ IsFiniteSet(Seen(s)) /\ Cardinality(Seen(s)) \in Nat
          /\ Cardinality(Seen(s)') \in Nat /\ Cardinality(Seen(s)) <= nb[s]
      BY <1>0, <2>4, <3>2, SetOfSessions DEF CountInv
    <3>4. CASE i \notin aged /\ status[i] = "get"
      <4>1. Seen(s)' \in SUBSET (Seen(s) \cup {i})
        <5>1. ASSUME NEW x \in Seen(s)' PROVE x \in Seen(s) \cup {i}
          <6>1. x \in Sessions /\ x < i + 1 /\ status[x] = "get"
            BY <1>2, <3>1, <3>4 DEF Seen, Listed
          <6>2. x \in Nat /\ i \in Nat
            BY <1>1, <6>1, SessionsAssumption DEF Sessions
          <6>3. x < i \/ x = i
            BY <6>1, <6>2
          <6> QED BY <6>1, <6>3 DEF Seen, Listed
        <5> QED BY <5>1
      <4>2. IsFiniteSet(Seen(s) \cup {i}) /\ Cardinality(Seen(s) \cup {i}) <= Cardinality(Seen(s)) + 1
        <5>1. i \notin Seen(s)
          BY <1>1, SessionsAssumption DEF Seen, Sessions
        <5> QED BY <3>3, <5>1, FS_AddElement
      <4>3. Seen(s) \cup {i} \in SUBSET Sessions
        BY <1>1, <3>2
      <4>4. Cardinality(Seen(s)') <= Cardinality(Seen(s) \cup {i})
        BY <4>1, <4>3, FewerSessions
      <4>5. Cardinality(Seen(s) \cup {i}) \in Nat
        BY <4>3, SetOfSessions
      <4>6. nb'[s] = nb[s] + 1
        BY <1>0, <1>2, <3>4 DEF TypeOK
      <4> QED BY <1>4, <2>4, <3>3, <4>2, <4>4, <4>5, <4>6
    <3>5. CASE ~(i \notin aged /\ status[i] = "get")
      <4>1. status'[i] # "get"
        BY <1>0, <1>1, <1>2, <3>5 DEF TypeOK
      <4>2. ASSUME NEW x \in Seen(s)' PROVE x \in Seen(s)
        <5>1. x \in Sessions /\ x < i + 1 /\ status'[x] = "get"
          BY <3>1 DEF Seen, Listed
        <5>2. x \in Nat /\ i \in Nat
          BY <1>1, <5>1, SessionsAssumption DEF Sessions
        <5>3. x < i
          BY <4>1, <5>1, <5>2
        <5>4. x \in Listed
          BY <1>3, <5>1 DEF Fewer, Listed
        <5> QED BY <5>3, <5>4 DEF Seen
      <4>3. Seen(s)' \in SUBSET Seen(s)
        BY <4>2
      <4>4. Cardinality(Seen(s)') <= Cardinality(Seen(s))
        BY <3>2, <4>3, FewerSessions
      <4>5. nb'[s] = nb[s]
        BY <1>2, <3>5
      <4> QED BY <1>4, <2>4, <3>3, <4>4, <4>5
    <3> QED BY <3>4, <3>5
  <2> QED BY <2>3, <2>4
<1>8. MaxInv'
  BY <1>0, <1>2, <1>3 DEF MaxInv, Fewer
<1>9. ShareInv'
  BY <1>0, <1>2, <1>3, ShareKept
<1>10. SharesFit'
  BY <1>0, <1>2, <1>3, FitKept
<1> QED BY <1>5, <1>6, <1>7, <1>8, <1>9, <1>10 DEF IInv

LEMMA StoreShareKeeps ==
  ASSUME IInv, NEW s \in Sessions, StoreShare(s)
  PROVE  IInv'
<1>0. TypeOK /\ NbInv /\ CountInv /\ MaxInv /\ ShareInv /\ SharesFit
  BY DEF IInv
<1>1. /\ Loading(s) /\ ~MoreSlots(s)
      /\ share' = Part(nb[s])
      /\ at' = [at EXCEPT ![s] = 1] /\ nb' = [nb EXCEPT ![s] = 0]
      /\ current' = (s \in recent) /\ recent' = recent \ {s}
      /\ pc' = [pc EXCEPT ![s] = IF pc[s] = "starting" THEN "entering" ELSE "taking"]
      /\ UNCHANGED <<status, aged, max, own, quota, settled>>
  BY DEF StoreShare, session, Goto
<1>2. Fewer /\ Listed' = Listed
  BY <1>1 DEF Fewer, Listed
<1>3. nb[s] \in 0 .. NSessions /\ nb[s] \in Nat
  BY <1>0, SessionsAssumption DEF TypeOK
<1>4. max \in Nat /\ Part(nb[s]) \in Nat
  <2>1. max \in Nat
    BY <1>0, GlobalAssumption DEF TypeOK
  <2> QED BY <1>3, <2>1, DivTimes DEF Part
<1>5. TypeOK'
  <2>1. pc' \in [Sessions -> {"out", "starting", "entering", "serving", "counting", "taking"}]
    BY <1>0, <1>1 DEF TypeOK
  <2>2. at' \in [Sessions -> 1 .. NSessions + 1] /\ nb' \in [Sessions -> 0 .. NSessions]
    BY <1>0, <1>1, SessionsAssumption DEF TypeOK
  <2> QED BY <1>0, <1>1, <1>4, <2>1, <2>2 DEF TypeOK
<1>6. NbInv'
  BY <1>0, <1>1 DEF NbInv, TypeOK, Loading
<1>7. CountInv'
  <2>1. SUFFICES ASSUME NEW r \in recent, r # s PROVE Cardinality(Seen(r)') <= nb'[r]
    BY <1>1 DEF CountInv
  <2>2. at'[r] = at[r] /\ nb'[r] = nb[r]
    BY <1>0, <1>1, <2>1 DEF TypeOK
  <2> QED BY <1>0, <1>2, <2>1, <2>2, CountKept
<1>8. MaxInv'
  <2>1. ASSUME NEW r \in Sessions, pc'[r] \in {"serving", "counting", "taking"}
        PROVE  pc[r] \in {"serving", "counting", "taking"}
    BY <1>0, <1>1, <2>1 DEF TypeOK, Loading
  <2> QED BY <1>0, <1>1, <1>2, <2>1 DEF MaxInv
<1>9. ShareInv'
  <2>1. SUFFICES ASSUME s \in recent, Listed # {}
                 PROVE  share' > 0 /\ share' * Cardinality(Listed) <= GlobalDownload
    BY <1>1, <1>2 DEF ShareInv
  <2>2. Seen(s) = Listed
    <3>1. at[s] = NSessions + 1
      BY <1>0, <1>1, SessionsAssumption DEF TypeOK, MoreSlots
    <3> QED BY <3>1, SessionsAssumption DEF Seen, Listed, Sessions
  <2>3. Listed \in SUBSET Sessions /\ IsFiniteSet(Listed) /\ Cardinality(Listed) \in Nat
    BY ListedType, SetOfSessions
  <2>4. Cardinality(Listed) <= nb[s]
    BY <1>0, <2>1, <2>2 DEF CountInv
  <2>5. Cardinality(Listed) # 0
    BY <2>1, <2>3, FS_EmptySet
  <2>6. nb[s] \in 1 .. NSessions
    BY <1>3, <2>3, <2>4, <2>5, SessionsAssumption
  <2>7. max = GlobalDownload
    BY <1>0, <2>1 DEF MaxInv
  <2>8. share' \in Nat /\ share' > 0 /\ share' * nb[s] <= GlobalDownload
    BY <1>1, <2>6, <2>7, PartFits
  <2>9. share' * Cardinality(Listed) <= share' * nb[s]
    BY <1>3, <2>3, <2>4, <2>8, TimesMonotone
  <2>10. share' * Cardinality(Listed) \in Nat /\ share' * nb[s] \in Nat
    BY <1>3, <2>3, <2>8, SMT
  <2> QED BY <2>8, <2>9, <2>10, GlobalAssumption
<1>10. SharesFit'
  BY <1>0, <1>1, <1>2, FitKept
<1> QED BY <1>5, <1>6, <1>7, <1>8, <1>9, <1>10 DEF IInv

LEMMA TakeShareKeeps ==
  ASSUME IInv, NEW s \in Sessions, TakeShare(s)
  PROVE  IInv'
<1>0. TypeOK /\ NbInv /\ CountInv /\ MaxInv /\ ShareInv /\ SharesFit
  BY DEF IInv
<1>1. /\ pc[s] = "taking" /\ pc' = [pc EXCEPT ![s] = "serving"]
      /\ quota' = [quota EXCEPT ![s] = IF own[s].bypass THEN own[s].download
                                       ELSE Lowered(own[s].download)]
      /\ settled' = IF current THEN settled \cup {s} ELSE settled \ {s}
      /\ UNCHANGED <<status, aged, at, nb, max, share, own, recent, current>>
  BY DEF TakeShare, counting, global, Goto
<1>2. Fewer /\ Listed' = Listed
  BY <1>1 DEF Fewer, Listed
<1>3. own[s].download \in Nat /\ share \in Nat /\ Lowered(own[s].download) \in Nat
  <2>1. own[s] \in [download : Nat, bypass : BOOLEAN]
    BY <1>0 DEF TypeOK
  <2>2. own[s].download \in Nat
    BY <2>1
  <2> QED BY <1>0, <2>2 DEF TypeOK, Lowered
<1>4. TypeOK'
  <2>1. quota' \in [Sessions -> Nat]
    BY <1>0, <1>1, <1>3 DEF TypeOK
  <2>2. pc' \in [Sessions -> {"out", "starting", "entering", "serving", "counting", "taking"}]
    BY <1>0, <1>1 DEF TypeOK
  <2> QED BY <1>0, <1>1, <2>1, <2>2 DEF TypeOK
<1>5. NbInv'
  BY <1>0, <1>1 DEF NbInv, Loading, TypeOK
<1>6. CountInv'
  <2>1. SUFFICES ASSUME NEW r \in recent PROVE Cardinality(Seen(r)') <= nb'[r]
    BY <1>1 DEF CountInv
  <2> QED BY <1>0, <1>1, <1>2, CountKept
<1>7. MaxInv'
  BY <1>0, <1>1, <1>2 DEF MaxInv, TypeOK
<1>8. ShareInv'
  BY <1>1, <1>2, <1>0, ShareKept
<1>9. SharesFit'
  <2>1. SUFFICES ASSUME NEW r \in settled' \cap Listed, ~own[r].bypass
                 PROVE  quota'[r] > 0 /\ quota'[r] * Cardinality(Listed) <= GlobalDownload
    BY <1>1, <1>2 DEF SharesFit
  <2>2. CASE r # s
    <3>1. r \in settled /\ quota'[r] = quota[r]
      BY <1>0, <1>1, <2>1, <2>2, ListedType DEF TypeOK
    <3> QED BY <1>0, <2>1, <3>1 DEF SharesFit
  <2>3. CASE r = s
    <3>1. current
      BY <1>1, <2>1, <2>3
    <3>2. share > 0 /\ share * Cardinality(Listed) <= GlobalDownload
      BY <1>0, <2>1, <3>1 DEF ShareInv
    <3>3. quota'[s] = Lowered(own[s].download)
      BY <1>0, <1>1, <2>1, <2>3 DEF TypeOK
    <3>4. quota'[s] \in Nat /\ quota'[s] > 0 /\ quota'[s] <= share
      BY <1>3, <3>2, <3>3 DEF Lowered
    <3>5. Cardinality(Listed) \in Nat
      BY ListedType, SetOfSessions
    <3>6. Cardinality(Listed) * quota'[s] <= Cardinality(Listed) * share
      BY <1>3, <3>4, <3>5, TimesMonotone
    <3>7. /\ Cardinality(Listed) * quota'[s] = quota'[s] * Cardinality(Listed)
          /\ Cardinality(Listed) * share = share * Cardinality(Listed)
          /\ quota'[s] * Cardinality(Listed) \in Nat /\ share * Cardinality(Listed) \in Nat
      BY <1>3, <3>4, <3>5, SMT
    <3> QED BY <2>3, <3>2, <3>4, <3>6, <3>7, GlobalAssumption
  <2> QED BY <2>2, <2>3
<1> QED BY <1>4, <1>5, <1>6, <1>7, <1>8, <1>9 DEF IInv

\* A download begins: what was counted before says nothing any more.
LEMMA OpenKeeps ==
  ASSUME IInv, NEW s \in Sessions, Open(s)
  PROVE  IInv'
<1>0. TypeOK /\ NbInv /\ MaxInv
  BY DEF IInv
<1>1. /\ pc[s] = "serving" /\ status' = [status EXCEPT ![s] = "get"]
      /\ recent' = {} /\ current' = FALSE /\ settled' = {}
      /\ UNCHANGED <<pc, aged, at, nb, max, share, own, quota>>
  BY DEF Open, counting, global, session
<1>2. TypeOK'
  BY <1>0, <1>1 DEF TypeOK
<1>3. NbInv'
  BY <1>0, <1>1 DEF NbInv, Loading
<1>4. MaxInv'
  BY <1>0, <1>1 DEF MaxInv
<1> QED BY <1>1, <1>2, <1>3, <1>4 DEF IInv, CountInv, ShareInv, SharesFit

\* The steps that neither count nor begin a download.
LEMMA OthersKeep ==
  ASSUME IInv, NEW s \in Sessions,
         Start(s) \/ Enter(s) \/ NoPlace(s) \/ Close(s) \/ Tick(s)
         \/ Leave(s) \/ Crash(s) \/ Age(s)
  PROVE  IInv'
<1>0. TypeOK /\ NbInv /\ CountInv /\ MaxInv /\ ShareInv /\ SharesFit
  BY DEF IInv
<1> DEFINE Places == {"out", "starting", "entering", "serving", "counting", "taking"}
<1> USE DEF counting, global, session, history, Goto, CountFrom
<1>1. /\ share' = share /\ current' = current
      /\ max' = max \/ max' = GlobalDownload
  BY DEF Start, Enter, NoPlace, Close, Tick, Leave, Crash, Age
<1>2. Fewer
  BY <1>0 DEF Fewer, Listed, TypeOK, Start, Enter, NoPlace, Close, Tick, Leave, Crash, Age
<1>3. \A r \in settled' : r \in settled /\ own'[r] = own[r] /\ quota'[r] = quota[r]
  BY <1>0 DEF TypeOK, Start, Enter, NoPlace, Close, Tick, Leave, Crash, Age
<1>4. \A r \in Sessions : /\ (at'[r] = at[r] /\ nb'[r] = nb[r]) \/ (at'[r] = 1 /\ nb'[r] = 0)
  BY <1>0 DEF TypeOK, Start, Enter, NoPlace, Close, Tick, Leave, Crash, Age
<1>5. TypeOK'
  <2>1. pc' \in [Sessions -> Places]
    BY <1>0 DEF TypeOK, Start, Enter, NoPlace, Close, Tick, Leave, Crash, Age
  <2>2. status' \in [Sessions -> {"empty", "idle", "get"}]
    BY <1>0 DEF TypeOK, Start, Enter, NoPlace, Close, Tick, Leave, Crash, Age
  <2>3. at' \in [Sessions -> 1 .. NSessions + 1] /\ nb' \in [Sessions -> 0 .. NSessions]
    BY <1>0, SessionsAssumption DEF TypeOK, Start, Enter, NoPlace, Close, Tick, Leave, Crash, Age
  <2>4. own' \in [Sessions -> [download : Nat, bypass : BOOLEAN]] /\ quota' \in [Sessions -> Nat]
    <3>1. Nobody \in [download : Nat, bypass : BOOLEAN]
      BY DEF Nobody
    <3>2. ASSUME NEW p \in Profiles PROVE p \in [download : Nat, bypass : BOOLEAN] /\ p.download \in Nat
      BY ProfilesAssumption
    <3>3. CASE Enter(s)
      BY <1>0, <3>2, <3>3 DEF TypeOK, Enter
    <3>4. CASE Leave(s) \/ Crash(s)
      <4>1. own' = [own EXCEPT ![s] = Nobody] /\ quota' = [quota EXCEPT ![s] = 0]
        BY <3>4 DEF Leave, Crash
      <4>2. own \in [Sessions -> [download : Nat, bypass : BOOLEAN]] /\ quota \in [Sessions -> Nat]
        BY <1>0 DEF TypeOK
      <4>3. own' \in [Sessions -> [download : Nat, bypass : BOOLEAN]]
        BY <3>1, <4>1, <4>2
      <4> QED BY <4>1, <4>2, <4>3
    <3>5. CASE Start(s) \/ NoPlace(s) \/ Close(s) \/ Tick(s) \/ Age(s)
      BY <1>0, <3>5 DEF TypeOK, Start, NoPlace, Close, Tick, Age
    <3> QED BY <3>3, <3>4, <3>5
  <2>5. aged' \subseteq Sessions /\ recent' \subseteq Sessions /\ settled' \subseteq Sessions
    BY <1>0 DEF TypeOK, Start, Enter, NoPlace, Close, Tick, Leave, Crash, Age
  <2> QED BY <1>0, <1>1, <2>1, <2>2, <2>3, <2>4, <2>5 DEF TypeOK
<1>6. NbInv'
  <2>1. \A r \in Sessions : nb'[r] < at'[r]
    BY <1>0, <1>4 DEF NbInv
  <2>2. ASSUME NEW r \in Sessions, at'[r] = at[r], ~Loading(r)'
        PROVE  ~Loading(r) \/ at'[r] = 1
    BY <1>0, <2>2 DEF TypeOK, Loading, Start, Enter, NoPlace, Close, Tick, Leave, Crash, Age
  <2> QED BY <1>0, <1>4, <2>1, <2>2 DEF NbInv
<1>7. CountInv'
  <2>1. SUFFICES ASSUME NEW r \in recent' PROVE Cardinality(Seen(r)') <= nb'[r]
    BY DEF CountInv
  <2>2. CASE r \in recent /\ at'[r] = at[r] /\ nb'[r] = nb[r]
    BY <1>0, <1>2, <2>2, CountKept
  <2>3. CASE ~(r \in recent /\ at'[r] = at[r] /\ nb'[r] = nb[r])
    <3>1. r \in Sessions
      BY <1>5, <2>1 DEF TypeOK
    <3>2. r \notin recent => ~Loading(r) /\ at'[r] = at[r]
      BY <1>0 DEF TypeOK, Loading, Start, Enter, NoPlace, Close, Tick, Leave, Crash, Age
    <3>3. at'[r] = 1
      BY <1>0, <1>4, <2>3, <3>1, <3>2 DEF NbInv
    <3>4. Seen(r)' = {}
      BY <3>3, SessionsAssumption DEF Seen, Listed, Sessions
    <3>5. nb'[r] \in Nat
      BY <1>5, <3>1 DEF TypeOK
    <3> QED BY <3>4, <3>5, FS_EmptySet
  <2> QED BY <2>2, <2>3
<1>8. MaxInv'
  <2>1. CASE Enter(s)
    BY <2>1 DEF MaxInv, Enter
  <2>2. CASE ~Enter(s)
    <3>1. max' = max
      BY <2>2 DEF Start, Enter, NoPlace, Close, Tick, Leave, Crash, Age
    <3>2. ASSUME NEW r \in Sessions, pc'[r] \in {"serving", "counting", "taking"}
          PROVE  pc[r] \in {"serving", "counting", "taking"}
      BY <1>0, <2>2, <3>2 DEF TypeOK, Start, NoPlace, Close, Tick, Leave, Crash, Age
    <3> QED BY <1>0, <1>2, <3>1, <3>2 DEF MaxInv, Fewer
  <2> QED BY <2>1, <2>2
<1>9. ShareInv'
  BY <1>0, <1>1, <1>2, ShareKept
<1>10. SharesFit'
  BY <1>0, <1>2, <1>3, FitKept
<1> QED BY <1>5, <1>6, <1>7, <1>8, <1>9, <1>10 DEF IInv

-----------------------------------------------------------------------------
LEMMA StutterKeeps ==
  ASSUME IInv, UNCHANGED vars
  PROVE  IInv'
<1>0. TypeOK /\ NbInv /\ CountInv /\ MaxInv /\ ShareInv /\ SharesFit
  BY DEF IInv
<1>1. /\ UNCHANGED <<pc, status, aged, at, nb, max, share, own, quota>>
      /\ UNCHANGED <<recent, current, settled>>
  BY DEF vars, counting, global, session, history
<1>2. Fewer
  BY <1>1 DEF Fewer, Listed
<1>3. TypeOK' /\ NbInv' /\ MaxInv'
  BY <1>0, <1>1 DEF TypeOK, NbInv, Loading, MaxInv, Listed
<1>4. CountInv'
  <2>1. SUFFICES ASSUME NEW r \in recent PROVE Cardinality(Seen(r)') <= nb'[r]
    BY <1>1 DEF CountInv
  <2> QED BY <1>0, <1>1, <1>2, CountKept
<1>5. ShareInv' /\ SharesFit'
  BY <1>0, <1>1, <1>2, ShareKept, FitKept
<1> QED BY <1>3, <1>4, <1>5 DEF IInv

LEMMA StepKeeps ==
  ASSUME IInv, [Next]_vars
  PROVE  IInv'
<1>1. CASE UNCHANGED vars
  BY <1>1, StutterKeeps
<1>2. ASSUME NEW s \in Sessions,
             \/ Start(s) \/ Count(s) \/ Open(s) \/ Close(s) \/ Tick(s)
             \/ Leave(s) \/ Crash(s) \/ Age(s)
      PROVE  IInv'
  BY <1>2, CountSlotKeeps, StoreShareKeeps, TakeShareKeeps, OpenKeeps, OthersKeep DEF Count
<1> QED BY <1>1, <1>2 DEF Next

(* IInv holds in every state. *)
THEOREM SharesInvariant == Spec => []IInv
<1>1. Init => IInv
  BY InitHolds
<1>2. IInv /\ [Next]_vars => IInv'
  BY StepKeeps
<1> QED BY <1>1, <1>2, PTL DEF Spec

(* Nobody counts behind the last slot, nor more downloads than there are   *)
(* slots (SftpWho.c 136-150).                                              *)
THEOREM SharesTypes == Spec => []TypeOK
<1>1. IInv => TypeOK
  BY DEF IInv
<1> QED BY <1>1, SharesInvariant, PTL

(* Together those who download stay within GlobalDownload, once they have  *)
(* looked (SftpWho.c 125-158, Sftp.c 1122-1129).                           *)
THEOREM SharesAreFit == Spec => []SharesFit
<1>1. IInv => SharesFit
  BY DEF IInv
<1> QED BY <1>1, SharesInvariant, PTL
=============================================================================
