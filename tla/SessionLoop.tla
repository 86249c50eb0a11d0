---------------------------- MODULE SessionLoop ----------------------------
(***************************************************************************)
(* SftpMain: the loop of one session around select().  It reads requests   *)
(* from descriptor 0 and writes answers to descriptor 1, each as far as    *)
(* the quota of the current period allows; when nothing has happened for   *)
(* the timeout a "tick" opens the next period, counts idle seconds and the *)
(* seconds left to live, and takes over new quotas.  A signal only sets a  *)
(* flag that the head of the loop reads.                                   *)
(*                                                                         *)
(* Descriptor 1 is blocking: a write of more than the client's side can    *)
(* take sleeps until the client has read, or until a signal ends it with   *)
(* what has been written.                                                  *)
(*                                                                         *)
(* Data are counted in units; a unit read is a request, and its answer is  *)
(* one or more units. Time is counted in units of which Second make one    *)
(* second.                                                                 *)
(***************************************************************************)
EXTENDS Naturals

CONSTANTS
  Second,     \* 1000000 in the code
  MaxPacket,  \* SSH2_MAX_PACKET, the most one read takes
  Upload,     \* the upload quota of the profile, for one period; 0 for none
  Download,   \* the download quota
  UpShares,   \* what upload_by_client can be, 0 for none
  DnShares,   \* what download_by_client can be
  MaxIdle,    \* IdleTimeOut in seconds, 0 for none
  MaxLife,    \* ConnectionMaxLife in seconds, 0 for none
  CanAdmin,   \* the profile has IsAdmin or IsSimpleAdmin
  Room,       \* what the client's side of descriptor 1 can take
  MaxReply,   \* the longest answer
  Window      \* bound: how much a client has under way before it waits

ASSUME TimeAssumption == Second \in Nat \ {0} /\ {MaxIdle, MaxLife} \subseteq Nat
ASSUME QuotaAssumption ==
  {Upload, Download} \cup UpShares \cup DnShares \subseteq Nat
ASSUME SizeAssumption ==
  {MaxPacket, Room, MaxReply, Window} \subseteq Nat \ {0} /\ CanAdmin \in BOOLEAN

VARIABLES
  phase,      \* where the process is in the loop
  fds,        \* the descriptors given to select(), then those it returns
  conn,       \* connectionStatus; in "admin" the session has no slot
  must,       \* must_shutdown
  upCur, dnCur,   \* upload_current, download_current
  upMax, dnMax,   \* upload_max, download_max
  idle,       \* time_idle, up to MaxIdle
  life,       \* time_maxlife
  out,        \* what bOut holds
  todo, sent, \* of a write: how much it is to write, how much it has written
  needed,     \* tmNeeded
  gap,        \* time since tmLast was set
  left,       \* what is left of the timeout of select()
  inq,        \* what the client has sent and the session has not read
  room,       \* what descriptor 1 can take without blocking
  hungup,     \* the client is gone
  sinceTick,  \* history: time since the last tick, up to Second
  quiet       \* history: time since the last event, up to MaxIdle seconds

quota == <<upCur, dnCur, upMax, dnMax>>
counts == <<idle, life>>
timer == <<needed, gap, left>>
writing == <<out, todo, sent>>
client == <<inq, room, hungup>>
history == <<sinceTick, quiet>>
vars == <<phase, fds, conn, must, quota, counts, timer, writing, client, history>>

Phases == {"top", "select", "read", "write", "exited", "killed"}
Ended == phase \in {"exited", "killed"}
IsAdmin == conn = "admin"

TypeOK ==
  /\ phase \in Phases
  /\ fds \subseteq {"in", "out"}
  /\ conn \in {"init", "sftp", "admin"}
  /\ must \in BOOLEAN
  /\ upCur \in Nat /\ dnCur \in Nat /\ upMax \in Nat /\ dnMax \in Nat
  /\ out \in Nat /\ todo \in Nat /\ sent \in Nat
  /\ gap \in 0 .. Second + 1
  /\ inq \in Nat
  /\ idle \in 0 .. MaxIdle
  /\ life \in 0 .. MaxLife
  /\ needed \in 0 .. Second
  /\ left \in 0 .. Second
  /\ room \in 0 .. Room
  /\ hungup \in BOOLEAN
  /\ sinceTick \in 0 .. Second
  /\ quiet \in 0 .. MaxIdle * Second

Least(m, n) == IF m <= n THEN m ELSE n

Init ==
  /\ phase = "top"
  /\ fds = {}
  /\ conn = "init"
  /\ must = FALSE
  /\ upCur = 0 /\ dnCur = 0
  /\ upMax = Upload /\ dnMax = Download
  /\ idle = 0
  /\ life = MaxLife
  /\ out = 0 /\ todo = 0 /\ sent = 0
  /\ needed = Second /\ gap = 0 /\ left = 0
  /\ inq = 0 /\ room = Room /\ hungup = FALSE
  /\ sinceTick = 0 /\ quiet = 0

-----------------------------------------------------------------------------
(* The head of the loop.                                                   *)

\* Is there quota left?
May(max, cur) == max = 0 \/ cur < max

\* Mutation of Allowed: what has been moved already is not subtracted.
AllowedWhole(max, cur, n) == IF max = 0 THEN n ELSE Least(n, max)

\* How much of n the quota allows.
Allowed(max, cur, n) == IF max = 0 THEN n ELSE Least(n, max - cur)

\* The count after n more. Without a quota only a count of 0 matters, and the
\* count stops at 1 (in the code it wraps around at 2^32).
Plus(max, cur, n) == IF max = 0 THEN Least(cur + n, 1) ELSE cur + n

Watched ==
  {f \in {"in", "out"} : IF f = "in" THEN May(upMax, upCur)
                                     ELSE out > 0 /\ May(dnMax, dnCur)}

\* Mutation of SetTimeout: a gap longer than what is needed is not noticed.
SetTimeoutUnchecked ==
  \/ gap = 0 /\ left' = Second /\ UNCHANGED needed
  \/ gap > 0 /\ needed' = needed - gap /\ left' = needed'

\* Mutation of SetTimeout: the gap is subtracted twice.
SetTimeoutTwice ==
  \/ gap + gap > needed /\ left' = 0 /\ UNCHANGED needed
  \/ gap = 0 /\ left' = Second /\ UNCHANGED needed
  \/ gap > 0 /\ gap + gap <= needed /\ needed' = needed - gap /\ left' = needed' - gap

\* The time between the end of a turn and here shortens the timeout.
SetTimeout ==
  \/ gap > needed /\ left' = 0 /\ UNCHANGED needed
  \/ gap = 0 /\ left' = Second /\ UNCHANGED needed
  \/ gap > 0 /\ gap <= needed /\ needed' = needed - gap /\ left' = needed'

\* Mutation of Look: the answers are written before the process ends.
LookWhenWritten ==
  /\ phase = "top"
  /\ IF must /\ out = 0
     THEN phase' = "exited" /\ UNCHANGED <<fds, needed, left>>
     ELSE phase' = "select" /\ fds' = Watched /\ SetTimeout
  /\ gap' = 0
  /\ UNCHANGED <<conn, must, quota, counts, writing, client, history>>

\* must_shutdown is read, then the descriptors and the timeout are set.
Look ==
  /\ phase = "top"
  /\ IF must
     THEN phase' = "exited" /\ UNCHANGED <<fds, needed, left>>
     ELSE phase' = "select" /\ fds' = Watched /\ SetTimeout
  /\ gap' = 0
  /\ UNCHANGED <<conn, must, quota, counts, writing, client, history>>

\* The end of a turn: tmLast is set.
NextTurn == phase' = "top" /\ gap' = 0

-----------------------------------------------------------------------------
(* select().                                                               *)

Ready == {f \in fds : \/ hungup
                      \/ f = "in" /\ inq > 0
                      \/ f = "out" /\ room > 0}

\* Go on with the write of what the quota allows of o.
BeginWrite(o) ==
  /\ phase' = "write"
  /\ todo' = Allowed(dnMax, dnCur, o)
  /\ sent' = 0

SelectReady ==
  /\ phase = "select"
  /\ Ready # {}
  /\ fds' = Ready
  /\ idle' = IF IsAdmin THEN idle ELSE 0
  /\ quiet' = 0
  /\ IF "in" \in Ready
     THEN phase' = "read" /\ UNCHANGED <<todo, sent>>
     ELSE BeginWrite(out)
  /\ UNCHANGED <<conn, must, quota, life, timer, out, client, sinceTick>>

\* The quota of the profile, lowered to the share of the global one.
Lowered(max, share) == IF share > 0 /\ (share < max \/ max = 0) THEN share ELSE max

\* Mutation of NewPeriod: what has been read still counts.
NewPeriodKeepsUpload == dnCur' = 0 /\ UNCHANGED upCur

NewPeriod == upCur' = 0 /\ dnCur' = 0

\* Mutation of IdleSecond: a second with traffic counts too.
IdleSecondAlways == Least(idle + 1, MaxIdle)

\* time_idle after the tick: a second with traffic is none.
IdleSecond == IF upCur > 0 \/ dnCur > 0 THEN idle ELSE Least(idle + 1, MaxIdle)

\* What the tick does for a session with a slot.
TickOfSession ==
  /\ idle' = IdleSecond
  /\ NewPeriod
  /\ IF MaxIdle > 0 /\ idle' >= MaxIdle
     THEN phase' = "exited" /\ UNCHANGED <<upMax, dnMax, life>>
     ELSE /\ \E s \in UpShares : upMax' = Lowered(Upload, s)
          /\ \E s \in DnShares : dnMax' = Lowered(Download, s)
          /\ life' = IF life > 0 THEN life - 1 ELSE 0
          /\ phase' = IF life = 1 THEN "exited" ELSE "top"

\* select() returns 0.
Tick ==
  /\ phase = "select"
  /\ Ready = {} /\ left = 0
  /\ IF IsAdmin THEN phase' = "top" /\ UNCHANGED <<quota, counts>> ELSE TickOfSession
  /\ needed' = Second
  /\ gap' = 0
  /\ sinceTick' = 0
  /\ fds' = {}
  /\ UNCHANGED <<conn, must, left, writing, client, quiet>>

-----------------------------------------------------------------------------
(* Reading and writing.                                                    *)

\* connectionStatus after some requests.
NextConn == IF conn # "init" THEN {conn}
            ELSE {"init", "sftp"} \cup IF CanAdmin THEN {"admin"} ELSE {}

\* Mutation of EndOfInput: it is taken for a read of nothing.
EndOfInputIgnored == NextTurn

\* read() returns 0.
EndOfInput == phase' = "exited" /\ UNCHANGED gap

\* read(), then DoSFTPProtocol, which answers into bOut. On an
\* error and on a message that is too long the process exits.
Read ==
  /\ phase = "read"
  /\ IF inq = 0
     THEN EndOfInput /\ UNCHANGED <<conn, upCur, writing, inq>>
     ELSE LET n == Least(inq, Allowed(upMax, upCur, MaxPacket))
          IN  /\ inq' = inq - n
              /\ upCur' = IF IsAdmin THEN upCur ELSE Plus(upMax, upCur, n)
              /\ \/ phase' = "exited" /\ UNCHANGED <<conn, gap, writing>>
                 \/ /\ conn' \in NextConn
                    /\ out' \in out + n .. out + n * MaxReply
                    /\ IF "out" \in fds
                       THEN BeginWrite(out') /\ UNCHANGED gap
                       ELSE NextTurn /\ UNCHANGED <<todo, sent>>
  /\ fds' = fds \ {"in"}
  /\ UNCHANGED <<must, dnCur, upMax, dnMax, counts, needed, left, room, hungup, history>>

\* write() returns n.
Written(n) ==
  /\ out' = out - n /\ todo' = 0 /\ sent' = 0
  /\ dnCur' = IF IsAdmin THEN dnCur ELSE Plus(dnMax, dnCur, n)

EndWrite(n) == Written(n) /\ NextTurn /\ fds' = {}

\* write() copies what the descriptor can take; if that is not all it sleeps.
WriteSome ==
  /\ phase = "write"
  /\ ~hungup /\ room > 0
  /\ LET n == Least(todo - sent, room)
     IN  /\ room' = room - n
         /\ IF sent + n = todo
            THEN EndWrite(todo)
            ELSE /\ sent' = sent + n
                 /\ UNCHANGED <<phase, gap, fds, out, todo, dnCur>>
  /\ UNCHANGED <<conn, must, upCur, upMax, dnMax, counts, needed, left, inq, hungup, history>>

\* The client is gone: SIGPIPE, whose action is the default one, or EPIPE
\* where the parent ignored it, or what was written before.
WriteFails ==
  /\ phase = "write"
  /\ hungup
  /\ \/ /\ phase' \in {"killed", "exited"}
        /\ UNCHANGED <<gap, fds, writing, dnCur>>
     \/ sent > 0 /\ EndWrite(sent)
  /\ UNCHANGED <<conn, must, upCur, upMax, dnMax, counts, needed, left, client, history>>

-----------------------------------------------------------------------------
(* Signals, the client and the clock.                                      *)

\* SIGHUP, SIGINT or SIGTERM set the flag, SIGUSR1 and SIGUSR2 do not. Any of
\* them interrupts a select() that has begun and a write that has begun.
Signal ==
  /\ ~Ended
  /\ must' \in {must, TRUE}
  /\ \/ /\ ~(phase = "write" /\ sent > 0)
        /\ UNCHANGED <<phase, gap, fds, writing, dnCur>>
     \/ phase = "select" /\ NextTurn /\ fds' = {} /\ UNCHANGED <<writing, dnCur>>
     \/ phase = "write" /\ sent > 0 /\ EndWrite(sent)
  /\ UNCHANGED <<conn, upCur, upMax, dnMax, counts, needed, left, client, history>>

\* The client sends a request, if it does not wait for too many answers.
Send ==
  /\ ~hungup /\ ~Ended
  /\ inq + out + (Room - room) < Window
  /\ inq' = inq + 1
  /\ UNCHANGED <<phase, fds, conn, must, quota, counts, timer, writing, room, hungup, history>>

\* The client reads.
Receive ==
  /\ ~hungup /\ room < Room
  /\ room' = room + 1
  /\ UNCHANGED <<phase, fds, conn, must, quota, counts, timer, writing, inq, hungup, history>>

Hangup ==
  /\ ~hungup
  /\ hungup' = TRUE
  /\ UNCHANGED <<phase, fds, conn, must, quota, counts, timer, writing, inq, room, history>>

\* Time passes. A gap beyond Second is no different from a longer one.
Elapse ==
  /\ ~Ended
  /\ sinceTick' = Least(sinceTick + 1, Second)
  /\ quiet' = Least(quiet + 1, MaxIdle * Second)
  /\ gap' = IF phase = "top" THEN Least(gap + 1, Second + 1) ELSE gap
  /\ left' = IF phase = "select" /\ left > 0 THEN left - 1 ELSE left
  /\ UNCHANGED <<phase, fds, conn, must, quota, counts, needed, writing, client>>

Step == Look \/ SelectReady \/ Tick \/ Read \/ WriteSome \/ WriteFails

Next == Step \/ Signal \/ Send \/ Receive \/ Hangup \/ Elapse

Spec == Init /\ [][Next]_vars

\* The process is scheduled and the clock runs. Of the client and of signals
\* nothing is assumed: the liveness properties say what they need.
FairSpec == Spec /\ WF_vars(Step) /\ WF_vars(Elapse)

-----------------------------------------------------------------------------
(* Properties.                                                             *)

\* In one period a session never moves more than its quota, however the
\* profile's quota and the session's share change (the tests before select()
\* and the sizes of read() and write()).
QuotaHeld ==
  /\ upMax > 0 => upCur <= upMax
  /\ dnMax > 0 => dnCur + sent <= dnMax

\* A period lasts a second at least, although the timeout of select() is
\* computed from the time spent outside it: with QuotaHeld, Upload and
\* Download are limits for each second.
TicksApart == [][Tick => sinceTick = Second]_vars

\* IdleTimeOut never ends a session that has done something within the last
\* MaxIdle seconds: the first tick after some traffic does not count.
IdleMeansIdle ==
  [][Tick /\ phase' = "exited" /\ life # 1 => quiet = MaxIdle * Second]_vars

ClientReads == []<>(room = Room)
ClientWaits == <>[][~Send /\ ~Signal]_vars
NoMoreSignals == <>[][~Signal]_vars

\* A session told to stop does (must_shutdown), even if the signal comes
\* between the test and select(), and whatever its quotas, if its client
\* reads what it writes.
StopEnds == ClientReads => (must ~> Ended)

\* An administrator who became one with the upload quota used up.
Starved == IsAdmin /\ ~May(upMax, upCur)

\* The process ends when its client is gone, even if its quota keeps it from
\* reading the end of the input.
HangupEnds == NoMoreSignals => (hungup /\ ~Starved ~> Ended \/ Starved)

\* idletimeout.rst, "disconnects users when the maximum idle time has been
\* reached": a client that only reads its answers is disconnected.
IdleEnds ==
  MaxIdle > 0 /\ ClientReads /\ ClientWaits => <>(Ended \/ IsAdmin)

\* A session that has used up a quota goes on, as its client waits for
\* answers sooner or later.
QuotaLifts ==
  ClientReads /\ NoMoreSignals =>
    /\ ~May(upMax, upCur) ~> May(upMax, upCur) \/ IsAdmin \/ Ended
    /\ ~May(dnMax, dnCur) ~> May(dnMax, dnCur) \/ IsAdmin \/ Ended

=============================================================================
