------------------------- MODULE SessionLoopProofs -------------------------
(***************************************************************************)
(* What holds of SessionLoop for every quota, timeout and size: types, the *)
(* quotas within a period, the length of a period, and which sessions the  *)
(* idle timeout ends.                                                      *)
(***************************************************************************)
EXTENDS SessionLoop, TLAPS

(* The timer. tmNeeded is what is left of the second that began with the   *)
(* last tick, less what has passed in select() without a tick: it may be   *)
(* more than the true rest, never less. The timeout of select() is at      *)
(* least the true rest.                                                    *)
TimerInv ==
  /\ sinceTick = Second \/ sinceTick + needed >= Second + gap
  /\ phase = "select" => sinceTick + left >= Second
  /\ phase # "top" => gap = 0

(* The quotas. A descriptor is watched only with quota left, and the write *)
(* under way fits in the quota and in the buffer.                          *)
QuotaInv ==
  /\ upMax > 0 => upCur <= upMax
  /\ dnMax > 0 => dnCur + sent <= dnMax
  /\ "in" \in fds => May(upMax, upCur)
  /\ "out" \in fds => May(dnMax, dnCur)
  /\ phase = "read" => "in" \in fds
  /\ phase = "write" =>
       /\ sent <= todo /\ todo <= out
       /\ dnMax > 0 => dnCur + todo <= dnMax
  /\ phase # "write" => sent = 0 \/ Ended

LoopInv == TypeOK /\ TimerInv /\ QuotaInv

-----------------------------------------------------------------------------
(* The helpers.                                                            *)

\* The lesser of two numbers.
LEMMA LeastIs ==
  ASSUME NEW m \in Nat, NEW n \in Nat
  PROVE  /\ Least(m, n) \in Nat
         /\ Least(m, n) <= m /\ Least(m, n) <= n
         /\ Least(m, n) = m \/ Least(m, n) = n
  BY DEF Least

\* What the quota allows fits in it, and in what is asked for.
LEMMA AllowedFits ==
  ASSUME NEW max \in Nat, NEW cur \in Nat, NEW n \in Nat, May(max, cur)
  PROVE  /\ Allowed(max, cur, n) \in Nat
         /\ Allowed(max, cur, n) <= n
         /\ max > 0 => cur + Allowed(max, cur, n) <= max
  BY DEF May, Allowed, Least

\* Counting what the quota allowed keeps the count within the quota.
LEMMA PlusFits ==
  ASSUME NEW max \in Nat, NEW cur \in Nat, NEW n \in Nat
  PROVE  /\ Plus(max, cur, n) \in Nat
         /\ max > 0 => Plus(max, cur, n) = cur + n
  BY DEF Plus, Least

\* A quota lowered to a share is a quota.
LEMMA LoweredIs ==
  ASSUME NEW max \in Nat, NEW share \in Nat
  PROVE  Lowered(max, share) \in Nat
  BY DEF Lowered

-----------------------------------------------------------------------------
(* Each action keeps the invariant.                                        *)

\* The head of the loop: the timeout is at least the rest of the second.
LEMMA LookInv == LoopInv /\ Look => LoopInv'
<1> SUFFICES ASSUME LoopInv, Look PROVE LoopInv'
  OBVIOUS
<1>1. /\ phase = "top" /\ gap' = 0
      /\ \/ phase' = "exited" /\ UNCHANGED <<fds, needed, left>>
         \/ phase' = "select" /\ fds' = Watched /\ SetTimeout
      /\ UNCHANGED <<conn, must, upCur, dnCur, upMax, dnMax, idle, life, out, todo,
                     sent, inq, room, hungup, sinceTick, quiet>>
  BY DEF Look, quota, counts, writing, client, history
<1>2. /\ needed' \in 0 .. Second /\ left' \in 0 .. Second
      /\ sinceTick = Second \/ sinceTick + needed' >= Second
      /\ phase' = "select" => sinceTick + left' >= Second
  BY <1>1, TimeAssumption DEF LoopInv, TypeOK, TimerInv, SetTimeout
<1>3. fds' \subseteq {"in", "out"} /\ phase' \in {"exited", "select"}
  BY <1>1 DEF Watched, LoopInv, TypeOK
<1>4. TypeOK'
  BY <1>1, <1>2, <1>3, TimeAssumption DEF LoopInv, TypeOK, Phases
<1>5. TimerInv'
  <2>1. Second \in Nat /\ sinceTick' = sinceTick /\ gap' = 0 /\ phase' # "top"
    BY <1>1, <1>3, TimeAssumption
  <2>2. sinceTick' = Second \/ sinceTick' + needed' >= Second + gap'
    BY <1>2, <2>1
  <2>3. QED
    BY <1>2, <2>1, <2>2 DEF TimerInv
<1>6. /\ "in" \in fds' => May(upMax, upCur)
      /\ "out" \in fds' => May(dnMax, dnCur)
  BY <1>1 DEF LoopInv, QuotaInv, Watched
<1>7. QuotaInv'
  BY <1>1, <1>3, <1>6 DEF LoopInv, QuotaInv, May, Ended
<1>8. QED
  BY <1>4, <1>5, <1>7 DEF LoopInv

\* select() returns with descriptors: a write begins within the quota.
LEMMA SelectReadyInv == LoopInv /\ SelectReady => LoopInv'
<1> SUFFICES ASSUME LoopInv, SelectReady PROVE LoopInv'
  OBVIOUS
<1>1. Ready \subseteq fds /\ fds \subseteq {"in", "out"} /\ Ready # {}
  BY DEF LoopInv, TypeOK, SelectReady, Ready
<1>2. \/ phase' = "read" /\ "in" \in fds' /\ UNCHANGED <<todo, sent>>
      \/ /\ phase' = "write" /\ "out" \in fds' /\ sent' = 0
         /\ todo' = Allowed(dnMax, dnCur, out)
  BY <1>1 DEF SelectReady, BeginWrite
<1>3. /\ todo' \in Nat /\ sent' \in Nat
      /\ phase' = "write" => todo' <= out /\ (dnMax > 0 => dnCur + todo' <= dnMax)
  <2>1. CASE phase' = "read" /\ UNCHANGED <<todo, sent>>
    BY <2>1 DEF LoopInv, TypeOK
  <2>2. CASE phase' = "write" /\ "out" \in fds' /\ sent' = 0
             /\ todo' = Allowed(dnMax, dnCur, out)
    <3>1. May(dnMax, dnCur)
      BY <1>1, <2>2 DEF LoopInv, QuotaInv, SelectReady
    <3>2. QED
      BY <2>2, <3>1, AllowedFits DEF LoopInv, TypeOK
  <2>3. QED
    BY <1>2, <2>1, <2>2
<1>4. /\ fds' = Ready /\ phase = "select"
      /\ UNCHANGED <<conn, must, upCur, dnCur, upMax, dnMax, life, needed, gap, left,
                     out, inq, room, hungup, sinceTick>>
  BY DEF SelectReady, quota, timer, client
<1>5. idle' \in 0 .. MaxIdle /\ quiet' \in 0 .. MaxIdle * Second
  BY TimeAssumption DEF LoopInv, TypeOK, SelectReady
<1>6. TypeOK'
  BY <1>1, <1>2, <1>3, <1>4, <1>5 DEF LoopInv, TypeOK, Phases
<1>7. TimerInv'
  BY <1>2, <1>4 DEF LoopInv, TimerInv
<1>8. sent = 0 /\ sent' = 0
  BY <1>2, <1>4 DEF LoopInv, QuotaInv, Ended
<1>9. /\ "in" \in fds' => May(upMax, upCur)
      /\ "out" \in fds' => May(dnMax, dnCur)
  BY <1>1, <1>4 DEF LoopInv, QuotaInv
<1>10. phase' = "write" => sent' <= todo'
  BY <1>3, <1>8 DEF LoopInv, TypeOK
<1>11. QuotaInv'
  BY <1>2, <1>3, <1>4, <1>8, <1>9, <1>10 DEF LoopInv, QuotaInv, May
<1>12. QED
  BY <1>6, <1>7, <1>11 DEF LoopInv

\* The tick: the counts begin again, so that lower quotas hold at once.
LEMMA TickInv == LoopInv /\ Tick => LoopInv'
<1> SUFFICES ASSUME LoopInv, Tick PROVE LoopInv'
  OBVIOUS
<1>1. /\ phase = "select" /\ phase' \in {"top", "exited"} /\ fds' = {}
      /\ needed' = Second /\ gap' = 0 /\ sinceTick' = 0
      /\ UNCHANGED <<conn, must, left, out, todo, sent, inq, room, hungup, quiet>>
  BY DEF Tick, TickOfSession, writing, client
<1>2. \/ UNCHANGED <<upCur, dnCur, upMax, dnMax, idle, life>>
      \/ /\ upCur' = 0 /\ dnCur' = 0
         /\ upMax' \in Nat /\ dnMax' \in Nat
         /\ idle' \in 0 .. MaxIdle /\ life' \in 0 .. MaxLife
  <2>1. CASE IsAdmin
    BY <2>1 DEF Tick, quota, counts
  <2>2. CASE ~IsAdmin
    <3>1. upCur' = 0 /\ dnCur' = 0 /\ idle' = IdleSecond
      BY <2>2 DEF Tick, TickOfSession, NewPeriod
    <3>2. idle' \in 0 .. MaxIdle
      BY <3>1, TimeAssumption DEF IdleSecond, Least, LoopInv, TypeOK
    <3>3. upMax' \in Nat /\ dnMax' \in Nat /\ life' \in 0 .. MaxLife
      <4>1. CASE UNCHANGED <<upMax, dnMax, life>>
        BY <4>1 DEF LoopInv, TypeOK
      <4>2. CASE /\ \E s \in UpShares : upMax' = Lowered(Upload, s)
                 /\ \E s \in DnShares : dnMax' = Lowered(Download, s)
                 /\ life' = IF life > 0 THEN life - 1 ELSE 0
        <5>1. life' \in 0 .. MaxLife
          BY <4>2, TimeAssumption DEF LoopInv, TypeOK
        <5>2. QED
          BY <4>2, <5>1, QuotaAssumption, LoweredIs
      <4>3. QED
        BY <2>2, <4>1, <4>2 DEF Tick, TickOfSession
    <3>4. QED
      BY <3>1, <3>2, <3>3
  <2>3. QED
    BY <2>1, <2>2
<1>3. TypeOK'
  BY <1>1, <1>2, TimeAssumption DEF LoopInv, TypeOK, Phases
<1>4. TimerInv'
  BY <1>1, TimeAssumption DEF TimerInv
<1>5. sent = 0
  BY <1>1 DEF LoopInv, QuotaInv, Ended
<1>6. QuotaInv'
  BY <1>1, <1>2, <1>5 DEF LoopInv, TypeOK, QuotaInv, Ended
<1>7. QED
  BY <1>3, <1>4, <1>6 DEF LoopInv

\* A read takes what the quota allows, and answers are appended.
LEMMA ReadInv == LoopInv /\ Read => LoopInv'
<1> SUFFICES ASSUME LoopInv, Read PROVE LoopInv'
  OBVIOUS
<1> DEFINE n == Least(inq, Allowed(upMax, upCur, MaxPacket))
<1>1. /\ phase = "read" /\ fds' = fds \ {"in"} /\ sent = 0
      /\ UNCHANGED <<must, dnCur, upMax, dnMax, idle, life, needed, left, room,
                     hungup, sinceTick, quiet>>
  BY DEF Read, counts, history, LoopInv, QuotaInv, Ended
<1>2. n \in Nat /\ n <= inq /\ (upMax > 0 => upCur + n <= upMax)
  <2>1. May(upMax, upCur)
    BY DEF Read, LoopInv, QuotaInv
  <2>2. /\ Allowed(upMax, upCur, MaxPacket) \in Nat
        /\ upMax > 0 => upCur + Allowed(upMax, upCur, MaxPacket) <= upMax
    BY <2>1, AllowedFits, SizeAssumption DEF LoopInv, TypeOK
  <2>3. inq \in Nat /\ upCur \in Nat /\ upMax \in Nat
    BY DEF LoopInv, TypeOK
  <2>4. n \in Nat /\ n <= inq /\ n <= Allowed(upMax, upCur, MaxPacket)
    BY <2>2, <2>3, LeastIs
  <2> HIDE DEF n
  <2>5. QED
    BY <2>2, <2>3, <2>4
<1> HIDE DEF n
<1>3. /\ inq' \in Nat /\ upCur' \in Nat
      /\ upMax > 0 => upCur' <= upMax
  <2>1. CASE inq = 0
    BY <2>1 DEF Read, LoopInv, TypeOK, QuotaInv
  <2>2. CASE inq # 0
    <3>1. inq' = inq - n /\ upCur' = IF IsAdmin THEN upCur ELSE Plus(upMax, upCur, n)
      BY <2>2 DEF Read, n
    <3>2. upMax \in Nat /\ upCur \in Nat /\ inq \in Nat
      BY DEF LoopInv, TypeOK
    <3>3. Plus(upMax, upCur, n) \in Nat
          /\ (upMax > 0 => Plus(upMax, upCur, n) = upCur + n)
      BY <1>2, <3>2, PlusFits
    <3>4. QED
      BY <1>2, <3>1, <3>2, <3>3 DEF LoopInv, QuotaInv
  <2>3. QED
    BY <2>1, <2>2
<1>4. /\ conn' \in {"init", "sftp", "admin"} /\ out' \in Nat
      /\ \/ phase' = "exited" /\ gap' = gap /\ UNCHANGED <<todo, sent>>
         \/ phase' = "top" /\ gap' = 0 /\ UNCHANGED <<todo, sent>>
         \/ /\ phase' = "write" /\ "out" \in fds /\ gap' = gap
            /\ sent' = 0 /\ todo' = Allowed(dnMax, dnCur, out')
  <2>1. CASE inq = 0
    BY <2>1 DEF Read, EndOfInput, writing, LoopInv, TypeOK
  <2>2. CASE inq # 0 /\ phase' = "exited" /\ UNCHANGED <<conn, gap, writing>>
    BY <2>2 DEF writing, LoopInv, TypeOK
  <2>3. CASE /\ conn' \in NextConn
             /\ out' \in out + n .. out + n * MaxReply
             /\ IF "out" \in fds
                THEN BeginWrite(out') /\ UNCHANGED gap
                ELSE NextTurn /\ UNCHANGED <<todo, sent>>
    <3>1. conn' \in {"init", "sftp", "admin"}
      BY <2>3 DEF NextConn, LoopInv, TypeOK
    <3>2. out' \in Nat
      BY <1>2, <2>3, SizeAssumption DEF LoopInv, TypeOK
    <3>3. QED
      BY <2>3, <3>1, <3>2 DEF BeginWrite, NextTurn
  <2>4. QED
    BY <2>1, <2>2, <2>3 DEF Read, n
<1>5. /\ todo' \in Nat /\ sent' = 0
      /\ phase' = "write" => todo' <= out' /\ (dnMax > 0 => dnCur + todo' <= dnMax)
  <2>1. CASE phase' # "write"
    BY <1>1, <1>4, <2>1 DEF LoopInv, TypeOK
  <2>2. CASE phase' = "write"
    <3>1. May(dnMax, dnCur)
      BY <1>4, <2>2 DEF LoopInv, QuotaInv
    <3>2. sent' = 0 /\ todo' = Allowed(dnMax, dnCur, out')
      BY <1>4, <2>2
    <3>3. QED
      BY <1>4, <3>1, <3>2, AllowedFits DEF LoopInv, TypeOK
  <2>3. QED
    BY <2>1, <2>2
<1>6. phase' \in {"exited", "top", "write"} /\ gap' \in {0, gap}
      /\ (phase' # "top" => gap' = gap)
  BY <1>4
<1> HIDE DEF n
<1>7. TypeOK'
  <2>1. fds' \subseteq {"in", "out"} /\ gap' \in 0 .. Second + 1 /\ sent' \in Nat
    BY <1>1, <1>5, <1>6, TimeAssumption DEF LoopInv, TypeOK
  <2>2. out' \in Nat /\ conn' \in {"init", "sftp", "admin"}
    BY <1>4
  <2>3. QED
    BY <1>1, <1>3, <1>5, <1>6, <2>1, <2>2 DEF LoopInv, TypeOK, Phases
<1>8. TimerInv'
  BY <1>1, <1>6 DEF LoopInv, TypeOK, TimerInv
<1>9. "out" \in fds' => May(dnMax, dnCur)
  BY <1>1 DEF LoopInv, QuotaInv
<1>10. phase' = "write" => sent' <= todo'
  BY <1>5
<1>11. QuotaInv'
  BY <1>1, <1>3, <1>5, <1>6, <1>9, <1>10 DEF LoopInv, QuotaInv, May
<1>12. QED
  BY <1>7, <1>8, <1>11 DEF LoopInv

\* The end of a write that has written n: the count stays within the quota.
LEMMA EndWriteInv ==
  ASSUME LoopInv, phase = "write", NEW n \in 0 .. todo, EndWrite(n),
         room' \in 0 .. Room, must' \in BOOLEAN,
         UNCHANGED <<conn, upCur, upMax, dnMax, idle, life, needed, left, inq,
                     hungup, sinceTick, quiet>>
  PROVE  LoopInv'
<1>1. /\ out' = out - n /\ todo' = 0 /\ sent' = 0
      /\ dnCur' = IF IsAdmin THEN dnCur ELSE Plus(dnMax, dnCur, n)
      /\ phase' = "top" /\ gap' = 0 /\ fds' = {}
  BY DEF EndWrite, Written, NextTurn
<1>2. out' \in Nat
  BY <1>1 DEF LoopInv, TypeOK, QuotaInv
<1>3. dnCur' \in Nat /\ (dnMax > 0 => dnCur' <= dnMax)
  <2>1. dnMax \in Nat /\ dnCur \in Nat /\ todo \in Nat /\ sent \in Nat
    BY DEF LoopInv, TypeOK
  <2>2. n \in Nat /\ n <= todo
    BY <2>1
  <2>3. /\ Plus(dnMax, dnCur, n) \in Nat
        /\ dnMax > 0 => Plus(dnMax, dnCur, n) = dnCur + n
    BY <2>1, <2>2, PlusFits
  <2>4. dnMax > 0 => dnCur + todo <= dnMax /\ dnCur + sent <= dnMax
    BY DEF LoopInv, QuotaInv
  <2>5. QED
    BY <1>1, <2>1, <2>2, <2>3, <2>4
<1>4. TypeOK'
  BY <1>1, <1>2, <1>3, TimeAssumption DEF LoopInv, TypeOK, Phases
<1>5. TimerInv'
  BY <1>1 DEF LoopInv, TypeOK, TimerInv
<1>6. QuotaInv'
  BY <1>1, <1>3 DEF LoopInv, TypeOK, QuotaInv, Ended
<1>7. QED
  BY <1>4, <1>5, <1>6 DEF LoopInv

\* A write, as far as the descriptor takes it.
LEMMA WriteSomeInv == LoopInv /\ WriteSome => LoopInv'
<1> SUFFICES ASSUME LoopInv, WriteSome PROVE LoopInv'
  OBVIOUS
<1> DEFINE n == Least(todo - sent, room)
<1>1. /\ phase = "write" /\ room' = room - n
      /\ UNCHANGED <<conn, must, upCur, upMax, dnMax, idle, life, needed, left, inq,
                     hungup, sinceTick, quiet>>
  BY DEF WriteSome, counts, history
<1>2. /\ todo - sent \in Nat /\ n \in Nat /\ n <= todo - sent /\ n <= room
  <2>1. todo - sent \in Nat /\ room \in Nat
    BY <1>1, SizeAssumption DEF LoopInv, TypeOK, QuotaInv
  <2>2. QED
    BY <2>1, LeastIs
<1>3. \/ sent + n = todo /\ EndWrite(todo)
      \/ sent' = sent + n /\ UNCHANGED <<phase, gap, fds, out, todo, dnCur>>
  BY DEF WriteSome
<1> HIDE DEF n
<1>4. room' \in 0 .. Room
  BY <1>1, <1>2, SizeAssumption DEF LoopInv, TypeOK
<1>5. CASE EndWrite(todo)
  <2>1. todo \in 0 .. todo /\ must' \in BOOLEAN
    BY <1>1 DEF LoopInv, TypeOK
  <2>2. QED
    BY <1>1, <1>4, <1>5, <2>1, EndWriteInv
<1>6. CASE sent' = sent + n /\ UNCHANGED <<phase, gap, fds, out, todo, dnCur>>
  <2>1. sent' \in Nat /\ sent' <= todo
    BY <1>2, <1>6 DEF LoopInv, TypeOK
  <2>2. TypeOK'
    BY <1>1, <1>4, <1>6, <2>1 DEF LoopInv, TypeOK
  <2>3. TimerInv'
    BY <1>1, <1>6 DEF LoopInv, TimerInv
  <2>4. QuotaInv'
    BY <1>1, <1>6, <2>1 DEF LoopInv, TypeOK, QuotaInv, May, Ended
  <2>5. QED
    BY <2>2, <2>3, <2>4 DEF LoopInv
<1>7. QED
  BY <1>3, <1>5, <1>6

\* A write to a client that is gone.
LEMMA WriteFailsInv == LoopInv /\ WriteFails => LoopInv'
<1> SUFFICES ASSUME LoopInv, WriteFails PROVE LoopInv'
  OBVIOUS
<1>1. /\ phase = "write"
      /\ UNCHANGED <<conn, must, upCur, upMax, dnMax, idle, life, needed, left, inq,
                     room, hungup, sinceTick, quiet>>
  BY DEF WriteFails, counts, history, client
<1>2. CASE phase' \in {"killed", "exited"} /\ UNCHANGED <<gap, fds, writing, dnCur>>
  <2>1. UNCHANGED <<gap, fds, out, todo, sent, dnCur>>
    BY <1>2 DEF writing
  <2>2. TypeOK'
    BY <1>1, <1>2, <2>1 DEF LoopInv, TypeOK, Phases
  <2>3. TimerInv'
    BY <1>1, <1>2, <2>1 DEF LoopInv, TimerInv
  <2>4. QuotaInv'
    BY <1>1, <1>2, <2>1 DEF LoopInv, QuotaInv, May, Ended
  <2>5. QED
    BY <2>2, <2>3, <2>4 DEF LoopInv
<1>3. CASE EndWrite(sent)
  <2>1. sent \in 0 .. todo /\ room' \in 0 .. Room /\ must' \in BOOLEAN
    BY <1>1 DEF LoopInv, TypeOK, QuotaInv
  <2>2. QED
    BY <1>1, <1>3, <2>1, EndWriteInv
<1>4. QED
  BY <1>2, <1>3 DEF WriteFails

\* A signal leaves the process where it is, or ends its select() or write().
LEMMA SignalInv == LoopInv /\ Signal => LoopInv'
<1> SUFFICES ASSUME LoopInv, Signal PROVE LoopInv'
  OBVIOUS
<1>1. /\ must' \in BOOLEAN
      /\ UNCHANGED <<conn, upCur, upMax, dnMax, idle, life, needed, left, inq,
                     room, hungup, sinceTick, quiet>>
  BY DEF Signal, counts, history, client, LoopInv, TypeOK
<1>2. CASE /\ \/ UNCHANGED <<phase, gap, fds>>
              \/ phase = "select" /\ phase' = "top" /\ gap' = 0 /\ fds' = {}
           /\ UNCHANGED <<writing, dnCur>>
  <2>1. UNCHANGED <<out, todo, sent, dnCur>>
    BY <1>2 DEF writing
  <2>2. TypeOK'
    <3>1. CASE UNCHANGED <<phase, gap, fds>>
      BY <1>1, <2>1, <3>1 DEF LoopInv, TypeOK
    <3>2. CASE phase' = "top" /\ gap' = 0 /\ fds' = {}
      <4>1. phase' \in Phases /\ gap' \in 0 .. Second + 1 /\ fds' \subseteq {"in", "out"}
        BY <3>2, TimeAssumption DEF Phases
      <4>2. QED
        BY <1>1, <2>1, <4>1 DEF LoopInv, TypeOK
    <3>3. QED
      BY <1>2, <3>1, <3>2
  <2>3. TimerInv'
    BY <1>1, <1>2, <2>1 DEF LoopInv, TypeOK, TimerInv
  <2>4. QuotaInv'
    BY <1>1, <1>2, <2>1 DEF LoopInv, QuotaInv, May, Ended
  <2>5. QED
    BY <2>2, <2>3, <2>4 DEF LoopInv
<1>3. CASE phase = "write" /\ EndWrite(sent)
  <2>1. sent \in 0 .. todo /\ room' \in 0 .. Room
    BY <1>1, <1>3 DEF LoopInv, TypeOK, QuotaInv
  <2>2. QED
    BY <1>1, <1>3, <2>1, EndWriteInv
<1>4. QED
  BY <1>2, <1>3 DEF Signal, NextTurn

\* What the client does.
LEMMA ClientInv == LoopInv /\ (Send \/ Receive \/ Hangup) => LoopInv'
<1> SUFFICES ASSUME LoopInv, Send \/ Receive \/ Hangup PROVE LoopInv'
  OBVIOUS
<1>1. UNCHANGED <<phase, fds, conn, must, upCur, dnCur, upMax, dnMax, idle, life,
                  needed, gap, left, out, todo, sent, sinceTick, quiet>>
  BY DEF Send, Receive, Hangup, quota, counts, timer, writing, history
<1>2. inq' \in Nat /\ room' \in 0 .. Room /\ hungup' \in BOOLEAN
  <2>1. inq \in Nat /\ room \in 0 .. Room /\ hungup \in BOOLEAN /\ Room \in Nat
    BY SizeAssumption DEF LoopInv, TypeOK
  <2>2. CASE inq' = inq + 1 /\ UNCHANGED <<room, hungup>>
    BY <2>1, <2>2
  <2>3. CASE room < Room /\ room' = room + 1 /\ UNCHANGED <<inq, hungup>>
    BY <2>1, <2>3
  <2>4. CASE hungup' = TRUE /\ UNCHANGED <<inq, room>>
    BY <2>1, <2>4
  <2>5. QED
    BY <2>2, <2>3, <2>4 DEF Send, Receive, Hangup
<1>3. TypeOK'
  BY <1>1, <1>2 DEF LoopInv, TypeOK
<1>4. TimerInv'
  BY <1>1 DEF LoopInv, TimerInv
<1>5. QuotaInv'
  BY <1>1 DEF LoopInv, QuotaInv, May, Ended
<1>6. QED
  BY <1>3, <1>4, <1>5 DEF LoopInv

\* A sum that covers another still does when both grow by one at most.
LEMMA StillCovered ==
  ASSUME NEW s \in Nat, NEW n \in Nat, NEW d \in Nat, NEW g \in Nat, NEW h \in Nat,
         s + n >= d + g, h <= g + 1
  PROVE  (s + 1) + n >= d + h
  OBVIOUS

\* Time passes: a gap grows no faster than the time since the last tick, and
\* a timeout shrinks no faster.
LEMMA ElapseInv == LoopInv /\ Elapse => LoopInv'
<1> SUFFICES ASSUME LoopInv, Elapse PROVE LoopInv'
  OBVIOUS
<1>1. UNCHANGED <<phase, fds, conn, must, upCur, dnCur, upMax, dnMax, idle, life,
                  needed, out, todo, sent, inq, room, hungup>>
  BY DEF Elapse, quota, counts, writing, client
<1>2. /\ sinceTick' = (IF sinceTick < Second THEN sinceTick + 1 ELSE Second)
      /\ sinceTick' \in 0 .. Second
  BY TimeAssumption DEF Elapse, Least, LoopInv, TypeOK
<1>3. quiet' \in 0 .. MaxIdle * Second
  <2>1. MaxIdle * Second \in Nat
    BY TimeAssumption
  <2>2. QED
    BY <2>1 DEF Elapse, Least, LoopInv, TypeOK
<1>4. /\ gap' \in 0 .. Second + 1 /\ gap' <= gap + 1
      /\ phase # "top" => gap' = gap
  BY TimeAssumption DEF Elapse, Least, LoopInv, TypeOK
<1>5. left' \in 0 .. Second /\ left' >= left - 1
  BY TimeAssumption DEF Elapse, LoopInv, TypeOK
<1>6. TypeOK'
  BY <1>1, <1>2, <1>3, <1>4, <1>5 DEF LoopInv, TypeOK
<1>7. TimerInv'
  <2>1. /\ Second \in Nat /\ sinceTick \in 0 .. Second /\ needed \in 0 .. Second
        /\ left \in 0 .. Second /\ gap \in 0 .. Second + 1
    BY TimeAssumption DEF LoopInv, TypeOK
  <2>2. /\ sinceTick = Second \/ sinceTick + needed >= Second + gap
        /\ phase = "select" => sinceTick + left >= Second
        /\ phase # "top" => gap = 0
    BY DEF LoopInv, TimerInv
  <2>3. sinceTick' = Second \/ sinceTick' = sinceTick + 1
    BY <1>2
  <2>4. gap' \in Nat /\ gap' <= gap + 1 /\ left' \in Nat /\ left' >= left - 1
    BY <1>4, <1>5, <2>1
  <2>5. sinceTick' = Second \/ sinceTick' + needed >= Second + gap'
    <3>1. CASE sinceTick = Second
      BY <1>2, <2>1, <3>1
    <3>2. CASE sinceTick # Second
      <4>1. sinceTick + needed >= Second + gap
        BY <2>2, <3>2
      <4>2. CASE sinceTick' = sinceTick + 1
        <5>1. /\ sinceTick \in Nat /\ needed \in Nat /\ gap \in Nat
              /\ gap' \in Nat /\ Second \in Nat /\ gap' <= gap + 1
          BY <2>1, <2>4
        <5>2. (sinceTick + 1) + needed >= Second + gap'
          BY <4>1, <5>1, StillCovered
        <5>3. QED
          BY <4>2, <5>2
      <4>3. QED
        BY <2>3, <4>2
    <3>3. QED
      BY <3>1, <3>2
  <2>6. phase = "select" => sinceTick' + left' >= Second
    BY <2>1, <2>2, <2>3, <2>4
  <2>7. QED
    BY <1>1, <1>4, <2>2, <2>5, <2>6 DEF TimerInv
<1>8. QuotaInv'
  BY <1>1 DEF LoopInv, QuotaInv, May, Ended
<1>9. QED
  BY <1>6, <1>7, <1>8 DEF LoopInv

\* The invariant holds initially.
LEMMA InitInv == Init => LoopInv
<1> SUFFICES ASSUME Init PROVE LoopInv
  OBVIOUS
<1>1. TypeOK
  <2>1. /\ Upload \in Nat /\ Download \in Nat /\ Room \in 0 .. Room
        /\ MaxLife \in 0 .. MaxLife /\ 0 \in 0 .. MaxIdle
        /\ Second \in 0 .. Second /\ 0 \in 0 .. Second
    BY TimeAssumption, QuotaAssumption, SizeAssumption
  <2>2. MaxIdle \in Nat /\ Second \in Nat
    BY TimeAssumption
  <2>3. MaxIdle * Second \in Nat
    BY <2>2
  <2> DEFINE Longest == MaxIdle * Second
  <2> HIDE DEF Longest
  <2>4. 0 \in 0 .. Longest /\ 0 \in 0 .. Second + 1
    BY <2>2, <2>3 DEF Longest
  <2>5. /\ phase \in Phases /\ fds \subseteq {"in", "out"}
        /\ conn \in {"init", "sftp", "admin"} /\ must \in BOOLEAN /\ hungup \in BOOLEAN
    BY DEF Init, Phases
  <2>6. quiet \in 0 .. Longest /\ room \in 0 .. Room /\ life \in 0 .. MaxLife
        /\ upMax \in Nat /\ dnMax \in Nat
    BY <2>1, <2>4 DEF Init
  <2>7. /\ idle \in 0 .. MaxIdle /\ needed \in 0 .. Second /\ left \in 0 .. Second
        /\ gap \in 0 .. Second + 1 /\ sinceTick \in 0 .. Second
    BY <2>1, <2>4 DEF Init
  <2>8. QED
    BY <2>5, <2>6, <2>7 DEF Init, TypeOK, Longest
<1>2. TimerInv
  BY TimeAssumption DEF Init, TimerInv
<1>3. QuotaInv
  BY QuotaAssumption DEF Init, QuotaInv, Ended
<1>4. QED
  BY <1>1, <1>2, <1>3 DEF LoopInv

\* Every step keeps it.
LEMMA StepInv == LoopInv /\ [Next]_vars => LoopInv'
<1> SUFFICES ASSUME LoopInv, [Next]_vars PROVE LoopInv'
  OBVIOUS
<1>1. CASE UNCHANGED vars
  BY <1>1 DEF vars, quota, counts, timer, writing, client, history,
              LoopInv, TypeOK, TimerInv, QuotaInv, May, Ended
<1>2. CASE Next
  BY <1>2, LookInv, SelectReadyInv, TickInv, ReadInv, WriteSomeInv, WriteFailsInv,
     SignalInv, ClientInv, ElapseInv DEF Next, Step
<1>3. QED
  BY <1>1, <1>2

-----------------------------------------------------------------------------
(* The theorems.                                                           *)

\* The types of the session loop: no length, count or time becomes negative.
THEOREM LoopTypes == Spec => []TypeOK
<1>1. LoopInv => TypeOK
  BY DEF LoopInv
<1>2. QED
  BY InitInv, StepInv, <1>1, PTL DEF Spec

\* No session moves more than its quota in a period, for all quotas, shares
\* and sizes of packets.
THEOREM QuotasHold == Spec => []QuotaHeld
<1>1. LoopInv => QuotaHeld
  BY DEF LoopInv, QuotaInv, QuotaHeld
<1>2. QED
  BY InitInv, StepInv, <1>1, PTL DEF Spec

\* Two ticks are a second apart: tmNeeded never promises too little.
THEOREM PeriodsLast == Spec => TicksApart
<1>1. LoopInv /\ [Next]_vars => [Tick => sinceTick = Second]_vars
  <2>1. LoopInv /\ Tick => sinceTick = Second
    BY TimeAssumption DEF LoopInv, TypeOK, TimerInv, Tick
  <2>2. QED
    BY <2>1
<1>2. QED
  BY InitInv, StepInv, <1>1, PTL DEF Spec, TicksApart
-----------------------------------------------------------------------------
(* The idle time.                                                          *)

(* time_idle counts whole periods without traffic, and what it says has    *)
(* gone by since the last event. Between the return of select() and the    *)
(* end of the turn it is 0, and a turn moves something: what was watched   *)
(* is there to be moved, and the quota allows some of it.                  *)
IdleCounted ==
  IF upCur = 0 /\ dnCur = 0
  THEN quiet >= idle * Second + sinceTick \/ quiet = MaxIdle * Second
  ELSE idle = 0

IdleInv ==
  /\ "out" \in fds => out > 0
  /\ phase = "write" => todo > 0
  /\ ~IsAdmin => /\ phase \in {"read", "write"} => idle = 0
                 /\ phase \in {"top", "select"} => IdleCounted

\* Something is allowed of what is there, if there is quota left.
LEMMA AllowedSome ==
  ASSUME NEW max \in Nat, NEW cur \in Nat, NEW n \in Nat \ {0}, May(max, cur)
  PROVE  Allowed(max, cur, n) \in Nat \ {0}
  BY DEF May, Allowed, Least

\* Something counted leaves a trace, with a quota and without.
LEMMA PlusSome ==
  ASSUME NEW max \in Nat, NEW cur \in Nat, NEW n \in Nat \ {0}
  PROVE  Plus(max, cur, n) > 0
  BY DEF Plus, Least

\* Products of seconds.
LEMMA Seconds ==
  ASSUME NEW m \in Nat, NEW n \in Nat
  PROVE  /\ m * Second \in Nat
         /\ (m + 1) * Second = m * Second + Second
         /\ m <= n => m * Second <= n * Second
<1>1. Second \in Nat
  BY TimeAssumption
<1>2. m * Second \in Nat /\ (m + 1) * Second = m * Second + Second
  BY <1>1
<1>3. ASSUME m <= n PROVE m * Second <= n * Second
  <2>1. PICK d \in Nat : n = m + d
    <3>1. n - m \in Nat /\ n = m + (n - m)
      BY <1>3
    <3>2. QED
      BY <3>1
  <2>2. n * Second = m * Second + d * Second /\ d * Second \in Nat
    BY <1>1, <2>1
  <2>3. QED
    BY <1>2, <2>2
<1>4. QED
  BY <1>2, <1>3

\* A session that writes goes on with a count that is not 0, and idle at 0.
LEMMA EndWriteIdle ==
  ASSUME LoopInv, IdleInv, phase = "write", NEW n \in 1 .. todo, EndWrite(n),
         UNCHANGED <<conn, idle>>
  PROVE  IdleInv'
<1>1. /\ dnCur' = IF IsAdmin THEN dnCur ELSE Plus(dnMax, dnCur, n)
      /\ phase' = "top" /\ fds' = {}
  BY DEF EndWrite, Written, NextTurn
<1>2. dnMax \in Nat /\ dnCur \in Nat /\ n \in Nat \ {0}
  BY DEF LoopInv, TypeOK
<1>3. ~IsAdmin => dnCur' > 0 /\ idle' = 0
  BY <1>1, <1>2, PlusSome DEF IdleInv
<1>4. ~IsAdmin' => ~IsAdmin
  BY DEF IsAdmin
<1>5. ~IsAdmin' => IdleCounted'
  BY <1>3, <1>4, <1>2, <1>1 DEF IdleCounted
<1>6. QED
  BY <1>1, <1>5 DEF IdleInv

\* The head of the loop watches descriptor 1 only with something to write.
LEMMA LookIdle == LoopInv /\ IdleInv /\ Look => IdleInv'
<1> SUFFICES ASSUME LoopInv, IdleInv, Look PROVE IdleInv'
  OBVIOUS
<1>1. /\ phase = "top"
      /\ phase' \in {"exited", "select"} /\ fds' \in {fds, Watched}
      /\ UNCHANGED <<conn, upCur, dnCur, idle, out, sinceTick, quiet>>
  BY DEF Look, quota, counts, writing, history
<1>2. "out" \in fds' => out' > 0
  BY <1>1 DEF IdleInv, Watched
<1>3. IsAdmin' = IsAdmin /\ (IdleCounted => IdleCounted')
  BY <1>1 DEF IsAdmin, IdleCounted
<1>4. QED
  BY <1>1, <1>2, <1>3 DEF IdleInv

\* An event sets idle to 0.
LEMMA SelectReadyIdle == LoopInv /\ IdleInv /\ SelectReady => IdleInv'
<1> SUFFICES ASSUME LoopInv, IdleInv, SelectReady PROVE IdleInv'
  OBVIOUS
<1>1. /\ phase = "select" /\ fds' = Ready /\ Ready \subseteq fds /\ Ready # {}
      /\ fds \subseteq {"in", "out"}
      /\ idle' = (IF IsAdmin THEN idle ELSE 0)
      /\ UNCHANGED <<conn, out, dnMax, dnCur>>
  BY DEF SelectReady, Ready, LoopInv, TypeOK, quota
<1>2. \/ phase' = "read"
      \/ phase' = "write" /\ "out" \in fds /\ todo' = Allowed(dnMax, dnCur, out)
  BY <1>1 DEF SelectReady, BeginWrite
<1>3. "out" \in fds' => out' > 0
  BY <1>1 DEF IdleInv
<1>4. phase' = "write" => todo' > 0
  <2> SUFFICES ASSUME phase' = "write" PROVE todo' > 0
    OBVIOUS
  <2>1. "out" \in fds /\ todo' = Allowed(dnMax, dnCur, out)
    BY <1>2
  <2>2. out \in Nat \ {0} /\ dnMax \in Nat /\ dnCur \in Nat /\ May(dnMax, dnCur)
    BY <2>1 DEF IdleInv, LoopInv, TypeOK, QuotaInv
  <2>3. Allowed(dnMax, dnCur, out) \in Nat \ {0}
    BY <2>2, AllowedSome
  <2>4. QED
    BY <2>1, <2>3
<1>5. ~IsAdmin' => idle' = 0
  BY <1>1 DEF IsAdmin
<1>6. QED
  BY <1>2, <1>3, <1>4, <1>5 DEF IdleInv

\* A tick without traffic is a second more, and one second has gone by.
LEMMA TickIdle == LoopInv /\ IdleInv /\ Tick => IdleInv'
<1> SUFFICES ASSUME LoopInv, IdleInv, Tick PROVE IdleInv'
  OBVIOUS
<1>1. /\ phase = "select" /\ phase' \in {"top", "exited"} /\ fds' = {}
      /\ sinceTick' = 0 /\ UNCHANGED <<conn, out, todo, quiet>>
  BY DEF Tick, TickOfSession, writing
<1>2. sinceTick = Second
  BY TimeAssumption DEF LoopInv, TypeOK, TimerInv, Tick
<1>3. ASSUME ~IsAdmin' PROVE IdleCounted'
  <2>1. ~IsAdmin
    BY <1>1, <1>3 DEF IsAdmin
  <2>2. upCur' = 0 /\ dnCur' = 0 /\ idle' = IdleSecond
    BY <2>1 DEF Tick, TickOfSession, NewPeriod
  <2>3. idle \in Nat /\ MaxIdle \in Nat /\ idle <= MaxIdle /\ quiet \in Nat
        /\ quiet <= MaxIdle * Second /\ Second \in Nat
    <3>1. MaxIdle * Second \in Nat
      BY TimeAssumption, Seconds
    <3>2. QED
      BY <3>1, TimeAssumption DEF LoopInv, TypeOK
  <2>4. IdleCounted
    BY <1>1, <2>1 DEF IdleInv
  <2>5. CASE upCur > 0 \/ dnCur > 0
    <3>1. idle' = 0
      BY <2>2, <2>4, <2>5 DEF IdleSecond, IdleCounted
    <3>2. 0 * Second = 0
      BY <2>3
    <3>3. quiet' >= idle' * Second + sinceTick'
      BY <1>1, <2>3, <3>1, <3>2
    <3>4. QED
      BY <2>2, <3>3 DEF IdleCounted
  <2>6. CASE ~(upCur > 0 \/ dnCur > 0)
    <3>1. idle' = Least(idle + 1, MaxIdle)
      BY <2>2, <2>6 DEF IdleSecond
    <3>2. idle' \in Nat /\ idle' <= idle + 1 /\ idle' <= MaxIdle
      BY <2>3, <3>1, LeastIs
    <3>3. upCur = 0 /\ dnCur = 0
      BY <2>6 DEF LoopInv, TypeOK
    <3>4. quiet >= (idle + 1) * Second \/ quiet = MaxIdle * Second
      <4>1. (idle + 1) * Second = idle * Second + Second
        BY <2>3, Seconds
      <4>2. QED
        BY <1>2, <2>4, <3>3, <4>1 DEF IdleCounted
    <3>5. /\ idle' * Second \in Nat
          /\ idle' * Second <= (idle + 1) * Second
          /\ idle' * Second <= MaxIdle * Second
          /\ (idle + 1) * Second \in Nat /\ MaxIdle * Second \in Nat
      <4>1. idle + 1 \in Nat
        BY <2>3
      <4>2. QED
        BY <2>3, <3>2, <4>1, Seconds
    <3> DEFINE p == idle' * Second
               q == (idle + 1) * Second
               r == MaxIdle * Second
    <3>6. p \in Nat /\ q \in Nat /\ r \in Nat /\ p <= q /\ p <= r /\ (quiet >= q \/ quiet = r)
      BY <3>4, <3>5
    <3>7. quiet' >= p + sinceTick'
      <4> HIDE DEF p, q, r
      <4>1. QED
        BY <1>1, <2>3, <3>6
    <3>8. QED
      BY <2>2, <3>7 DEF IdleCounted
  <2>7. QED
    BY <2>5, <2>6
<1>4. QED
  BY <1>1, <1>3 DEF IdleInv

\* A read moves something: the count of what is read is not 0 after it.
LEMMA ReadIdle == LoopInv /\ IdleInv /\ Read => IdleInv'
<1> SUFFICES ASSUME LoopInv, IdleInv, Read PROVE IdleInv'
  OBVIOUS
<1> DEFINE n == Least(inq, Allowed(upMax, upCur, MaxPacket))
<1>1. /\ phase = "read" /\ fds' = fds \ {"in"}
      /\ UNCHANGED <<dnCur, upMax, dnMax, idle>>
  BY DEF Read, counts
<1>2. ~IsAdmin' => ~IsAdmin /\ idle' = 0
  <2>1. conn' = conn \/ conn' \in NextConn
    BY DEF Read
  <2>2. QED
    BY <1>1, <2>1 DEF IdleInv, IsAdmin, NextConn
<1>3. CASE inq = 0
  <2>1. phase' = "exited" /\ out' = out
    BY <1>3 DEF Read, EndOfInput, writing
  <2>2. QED
    BY <1>1, <2>1 DEF IdleInv
<1>4. CASE inq # 0
  <2>1. n \in Nat \ {0}
    <3>1. May(upMax, upCur) /\ upMax \in Nat /\ upCur \in Nat /\ inq \in Nat \ {0}
      BY <1>1, <1>4 DEF LoopInv, TypeOK, QuotaInv
    <3>2. Allowed(upMax, upCur, MaxPacket) \in Nat \ {0}
      BY <3>1, AllowedSome, SizeAssumption
    <3>3. QED
      BY <3>1, <3>2 DEF Least
  <2> HIDE DEF n
  <2>2. upCur' = IF IsAdmin THEN upCur ELSE Plus(upMax, upCur, n)
    BY <1>4 DEF Read, n
  <2>3. ~IsAdmin' => upCur' > 0
    BY <1>2, <2>1, <2>2, PlusSome DEF LoopInv, TypeOK
  <2>4. CASE phase' = "exited" /\ UNCHANGED <<conn, gap, writing>>
    BY <1>1, <2>4 DEF IdleInv, writing
  <2>5. CASE /\ conn' \in NextConn
             /\ out' \in out + n .. out + n * MaxReply
             /\ IF "out" \in fds
                THEN BeginWrite(out') /\ UNCHANGED gap
                ELSE NextTurn /\ UNCHANGED <<todo, sent>>
    <3>1. out' \in Nat \ {0}
      BY <2>1, <2>5, SizeAssumption DEF LoopInv, TypeOK
    <3>2. /\ phase' \in {"top", "write"}
          /\ phase' = "write" => "out" \in fds /\ todo' = Allowed(dnMax, dnCur, out')
      BY <2>5 DEF BeginWrite, NextTurn
    <3>3. phase' = "write" => todo' > 0
      <4> SUFFICES ASSUME phase' = "write" PROVE todo' > 0
        OBVIOUS
      <4>1. dnMax \in Nat /\ dnCur \in Nat /\ May(dnMax, dnCur)
        BY <3>2 DEF LoopInv, TypeOK, QuotaInv
      <4>2. Allowed(dnMax, dnCur, out') \in Nat \ {0}
        BY <3>1, <4>1, AllowedSome
      <4>3. QED
        BY <3>2, <4>2
    <3>4. ~IsAdmin' => IdleCounted'
      BY <1>2, <2>3 DEF IdleCounted
    <3>5. QED
      BY <1>2, <3>1, <3>2, <3>3, <3>4 DEF IdleInv
  <2>6. QED
    BY <1>4, <2>4, <2>5 DEF Read, n
<1>5. QED
  BY <1>3, <1>4

\* The write ends with something written, or the session ends.
LEMMA WriteIdle == LoopInv /\ IdleInv /\ (WriteSome \/ WriteFails) => IdleInv'
<1> SUFFICES ASSUME LoopInv, IdleInv, WriteSome \/ WriteFails PROVE IdleInv'
  OBVIOUS
<1>1. /\ phase = "write" /\ todo > 0 /\ UNCHANGED <<conn, idle>>
      /\ todo \in Nat /\ sent \in Nat /\ sent <= todo
  BY DEF WriteSome, WriteFails, counts, IdleInv, LoopInv, TypeOK, QuotaInv
<1>2. CASE EndWrite(todo) \/ (sent > 0 /\ EndWrite(sent))
  <2>1. todo \in 1 .. todo /\ (sent > 0 => sent \in 1 .. todo)
    BY <1>1
  <2>2. QED
    BY <1>1, <1>2, <2>1, EndWriteIdle
<1>3. CASE UNCHANGED <<fds, out, todo>> /\ phase' \in {"write", "killed", "exited"}
  BY <1>1, <1>3 DEF IdleInv, IsAdmin
<1>4. CASE WriteSome
  <2>1. CASE EndWrite(todo)
    BY <1>2, <2>1
  <2>2. CASE UNCHANGED <<phase, fds, out, todo>>
    BY <1>1, <1>3, <2>2
  <2>3. QED
    BY <1>4, <2>1, <2>2 DEF WriteSome
<1>5. CASE WriteFails
  BY <1>2, <1>3, <1>5 DEF WriteFails, writing
<1>6. QED
  BY <1>4, <1>5

\* A signal is no event for select(): the time goes on.
LEMMA SignalIdle == LoopInv /\ IdleInv /\ Signal => IdleInv'
<1> SUFFICES ASSUME LoopInv, IdleInv, Signal PROVE IdleInv'
  OBVIOUS
<1>1. UNCHANGED <<conn, idle, upCur, sinceTick, quiet>>
  BY DEF Signal, counts, history
<1>2. CASE UNCHANGED <<phase, fds, writing, dnCur>>
  <2>1. UNCHANGED <<out, todo>> /\ IsAdmin' = IsAdmin /\ IdleCounted' = IdleCounted
    BY <1>1, <1>2 DEF writing, IsAdmin, IdleCounted
  <2>2. QED
    BY <1>1, <1>2, <2>1 DEF IdleInv
<1>3. CASE phase = "select" /\ NextTurn /\ fds' = {} /\ UNCHANGED <<writing, dnCur>>
  <2>1. IsAdmin' = IsAdmin /\ IdleCounted' = IdleCounted
    BY <1>1, <1>3 DEF IsAdmin, IdleCounted
  <2>2. QED
    BY <1>3, <2>1 DEF IdleInv, NextTurn
<1>4. CASE phase = "write" /\ sent > 0 /\ EndWrite(sent)
  <2>1. sent \in 1 .. todo
    BY <1>4 DEF LoopInv, TypeOK, QuotaInv
  <2>2. QED
    BY <1>1, <1>4, <2>1, EndWriteIdle
<1>5. QED
  BY <1>2, <1>3, <1>4 DEF Signal

\* Two numbers that grow together.
LEMMA BothGrow ==
  ASSUME NEW q \in Nat, NEW p \in Nat, NEW s \in Nat, NEW t \in Nat, NEW r \in Nat,
         q >= p + s \/ q = r, t <= s + 1, q <= r
  PROVE  Least(q + 1, r) >= p + t \/ Least(q + 1, r) = r
  BY DEF Least

\* The time without events grows no slower than the time since the tick.
LEMMA ElapseIdle == LoopInv /\ IdleInv /\ Elapse => IdleInv'
<1> SUFFICES ASSUME LoopInv, IdleInv, Elapse PROVE IdleInv'
  OBVIOUS
<1>1. /\ UNCHANGED <<phase, fds, conn, upCur, dnCur, idle, out, todo>>
      /\ quiet' = Least(quiet + 1, MaxIdle * Second)
      /\ sinceTick' = Least(sinceTick + 1, Second)
  BY DEF Elapse, quota, counts, writing
<1> DEFINE p == idle * Second
           r == MaxIdle * Second
<1>2. p \in Nat /\ r \in Nat
  BY TimeAssumption, Seconds DEF LoopInv, TypeOK
<1>3. /\ quiet \in Nat /\ quiet <= r /\ sinceTick \in Nat
      /\ sinceTick' \in Nat /\ sinceTick' <= sinceTick + 1
  BY <1>1, <1>2, TimeAssumption, LeastIs DEF LoopInv, TypeOK
<1>4. IdleCounted <=> (IF upCur = 0 /\ dnCur = 0
                       THEN quiet >= p + sinceTick \/ quiet = r ELSE idle = 0)
  BY DEF IdleCounted
<1>5. IdleCounted' <=> (IF upCur = 0 /\ dnCur = 0
                        THEN quiet' >= p + sinceTick' \/ quiet' = r ELSE idle = 0)
  BY <1>1 DEF IdleCounted
<1>6. quiet' = Least(quiet + 1, r)
  BY <1>1
<1> HIDE DEF p, r
<1>7. quiet >= p + sinceTick \/ quiet = r => quiet' >= p + sinceTick' \/ quiet' = r
  BY <1>2, <1>3, <1>6, BothGrow
<1>8. IdleCounted => IdleCounted'
  BY <1>4, <1>5, <1>7
<1>9. IsAdmin' = IsAdmin
  BY <1>1 DEF IsAdmin
<1>10. QED
  BY <1>1, <1>8, <1>9 DEF IdleInv

\* Every other step leaves the times and the counts alone.
LEMMA OtherIdle == LoopInv /\ IdleInv /\ (Send \/ Receive \/ Hangup \/ UNCHANGED vars) => IdleInv'
<1> SUFFICES ASSUME LoopInv, IdleInv, Send \/ Receive \/ Hangup \/ UNCHANGED vars
             PROVE IdleInv'
  OBVIOUS
<1>1. UNCHANGED <<phase, fds, conn, upCur, dnCur, idle, out, todo, sinceTick, quiet>>
  BY DEF Send, Receive, Hangup, vars, quota, counts, writing, history
<1>2. IsAdmin' = IsAdmin /\ IdleCounted' = IdleCounted
  BY <1>1 DEF IsAdmin, IdleCounted
<1>3. QED
  BY <1>1, <1>2 DEF IdleInv

\* Both invariants together.
LEMMA IdleAlways == Spec => [](LoopInv /\ IdleInv)
<1>1. Init => LoopInv /\ IdleInv
  <2>1. Init => IdleInv
    <3> SUFFICES ASSUME Init PROVE IdleInv
      OBVIOUS
    <3>1. 0 * Second = 0
      BY TimeAssumption
    <3>2. quiet >= idle * Second + sinceTick
      BY <3>1 DEF Init
    <3>3. IdleCounted
      BY <3>2 DEF Init, IdleCounted
    <3>4. QED
      BY <3>3 DEF Init, IdleInv
  <2>2. QED
    BY <2>1, InitInv
<1>2. LoopInv /\ IdleInv /\ [Next]_vars => (LoopInv /\ IdleInv)'
  BY StepInv, LookIdle, SelectReadyIdle, TickIdle, ReadIdle, WriteIdle, SignalIdle,
     ElapseIdle, OtherIdle DEF Next, Step
<1>3. QED
  BY <1>1, <1>2, PTL DEF Spec

\* A session that IdleTimeOut ends has had no event for as long, for all
\* timeouts, quotas and sizes.
THEOREM IdleSessionsOnly == Spec => IdleMeansIdle
<1>1. LoopInv /\ IdleInv =>
        (Tick /\ phase' = "exited" /\ life # 1 => quiet = MaxIdle * Second)
  <2> SUFFICES ASSUME LoopInv, IdleInv, Tick, phase' = "exited", life # 1
               PROVE  quiet = MaxIdle * Second
    OBVIOUS
  <2>1. ~IsAdmin /\ phase = "select"
    BY DEF Tick
  <2>2. MaxIdle > 0 /\ idle' >= MaxIdle /\ idle' = IdleSecond
    BY <2>1 DEF Tick, TickOfSession
  <2>3. IdleCounted /\ sinceTick = Second
    BY <2>1, TimeAssumption DEF IdleInv, LoopInv, TypeOK, TimerInv, Tick
  <2>4. /\ idle \in Nat /\ MaxIdle \in Nat /\ idle <= MaxIdle /\ MaxIdle * Second \in Nat
        /\ quiet \in Nat /\ quiet <= MaxIdle * Second /\ Second \in Nat
    <3>1. MaxIdle * Second \in Nat
      BY TimeAssumption, Seconds
    <3>2. QED
      BY <3>1, TimeAssumption DEF LoopInv, TypeOK
  <2>5. upCur = 0 /\ dnCur = 0
    BY <2>2, <2>3, <2>4 DEF IdleCounted, IdleSecond, LoopInv, TypeOK
  <2>6. idle' = Least(idle + 1, MaxIdle)
    BY <2>2, <2>5 DEF IdleSecond
  <2>7. MaxIdle <= idle + 1
    BY <2>2, <2>4, <2>6 DEF Least
  <2>8. (idle + 1) * Second = idle * Second + Second /\ MaxIdle * Second <= (idle + 1) * Second
    <3>1. idle + 1 \in Nat
      BY <2>4
    <3>2. QED
      BY <2>4, <2>7, <3>1, Seconds
  <2>9. quiet >= (idle + 1) * Second \/ quiet = MaxIdle * Second
    BY <2>3, <2>5, <2>8 DEF IdleCounted
  <2> DEFINE q == (idle + 1) * Second
             r == MaxIdle * Second
  <2>10. q \in Nat /\ r \in Nat /\ r <= q /\ quiet <= r /\ (quiet >= q \/ quiet = r)
    <3>1. q \in Nat
      BY <2>4
    <3>2. QED
      BY <2>4, <2>8, <2>9, <3>1
  <2>11. quiet = r
    <3> HIDE DEF q, r
    <3>1. QED
      BY <2>4, <2>10
  <2>12. QED
    BY <2>11
<1>2. LoopInv /\ IdleInv /\ [Next]_vars =>
        [Tick /\ phase' = "exited" /\ life # 1 => quiet = MaxIdle * Second]_vars
  BY <1>1
<1>3. Spec => [][Tick /\ phase' = "exited" /\ life # 1 => quiet = MaxIdle * Second]_vars
  BY IdleAlways, <1>2, PTL DEF Spec
<1>4. QED
  BY <1>3 DEF IdleMeansIdle

=============================================================================
