---------------------------- MODULE SessionTable ----------------------------
(***************************************************************************)
(* The session table of MySecureShell: an array of t_sftpwho records in a  *)
(* System V shared memory segment, one record ("slot") per connected SFTP  *)
(* session, used by every server process with no lock at all.              *)
(*                                                                         *)
(* A connection is one process.  It attaches the segment, empties the      *)
(* slots of dead sessions, looks for an empty slot, claims it, fills it,   *)
(* compares the numbers of occupied slots with the LimitConnection         *)
(* directives, and then serves SFTP requests.  While it serves, it writes  *)
(* its activity to its slot; each time select() times out it refreshes its *)
(* time_total and empties, again, the slots of dead sessions.              *)
(*                                                                         *)
(* One step of the model is at most one read or one write of the shared    *)
(* segment (the memset of a slot and the store of its status count as one, *)
(* the fields main() fills as another). The variables of a loop return to  *)
(* their first values when the loop ends.                                  *)
(***************************************************************************)
EXTENDS Naturals, FiniteSets

CONSTANTS
  Procs,        \* the connections, one process each
  NSlots,       \* number of slots, SFTPWHO_MAXCLIENT
  Tries,        \* passes over the table before a joining process gives up
  Grace,        \* seconds without a refresh before a session counts as dead
  UserOf,       \* the user name of a connection
  IpOf,         \* the client address of a connection
  Admins,       \* connections with IsAdmin or IsSimpleAdmin
  Flagged,      \* connections whose profile sets a bit of flagsGlobals
  LimitByUser,  \* LimitConnectionByUser, 0 for none
  LimitByIP,    \* LimitConnectionByIP, 0 for none
  Limit,        \* LimitConnection, 0 for none
  Activity,     \* what sessions do with files: a subset of IDLE, GET, PUT
  NoName,       \* the user field of a slot no process has filled
  Mixed         \* the user field of a slot two processes have filled

ASSUME SlotsAssumption == NSlots \in Nat \ {0}
ASSUME TriesAssumption == Tries \in Nat \ {0}
ASSUME GraceAssumption == Grace \in Nat
ASSUME NamesAssumption == NoName \notin Procs /\ Mixed \notin Procs
ASSUME ActivityAssumption == Activity \subseteq {"IDLE", "GET", "PUT"}
ASSUME LimitsAssumption == {LimitByUser, LimitByIP, Limit} \subseteq Nat

VARIABLES
  slot,    \* the shared table
  pc,      \* where each process is
  mine,    \* the slot a process believes to be its own, 0 for none
  pos,     \* the slot a process is looking at in a loop over the table
  pass,    \* which pass of the search for an empty slot it is in
  rule,    \* which of the three limits it is checking
  nb,      \* how many slots it has counted for that limit
  ret,     \* where it goes on after SftpWhoCleanBuggedClient
  disturbed  \* history: the slots that, since a process holds them, were claimed
             \* over its claim or emptied by a cleaning

local == <<pos, pass, rule, nb, ret>>
vars == <<slot, pc, mine, pos, pass, rule, nb, ret, disturbed>>

Slots == 1 .. NSlots
NoSlot == 0
Rules == {"start", "user", "ip", "server"}
Status == {"EMPTY", "IDLE", "GET", "PUT"}
Names == Procs \cup {NoName, Mixed}

(* age is time(0) - (time_begin + time_total), 0 at a refresh, and capped   *)
(* just past Grace: nothing distinguishes the larger values.                *)
Ages == 0 .. Grace + 1
SlotRecord == [st : Status, fl : BOOLEAN, name : Names, age : Ages]

Joining == {"scan", "nap", "claim"}
Cleaning == {"clean", "reap"}
Entering == {"fill", "count", "flags"}
Serving == {"init", "run"}
Pcs == {"out", "admin", "exit"} \cup Joining \cup Cleaning \cup Entering \cup Serving

TypeOK ==
  /\ slot \in [Slots -> SlotRecord]
  /\ pc \in [Procs -> Pcs]
  /\ mine \in [Procs -> Slots \cup {NoSlot}]
  /\ pos \in [Procs -> Slots]
  /\ pass \in [Procs -> 1 .. Tries]
  /\ rule \in [Procs -> Rules]
  /\ nb \in [Procs -> 0 .. NSlots]
  /\ ret \in [Procs -> {"scan"} \cup Serving]
  /\ disturbed \subseteq Slots

-----------------------------------------------------------------------------
(* The status word and what the code reads in it.                          *)

\* The whole word is zero: the test of the search for an empty place, which
\* does not mask the flag bits.
WordEmpty(s) == slot[s].st = "EMPTY" /\ ~slot[s].fl

\* The test under SFTPWHO_STATUS_MASK, of the cleaning and of the counts.
Occupied(s) == slot[s].st # "EMPTY"

\* time_begin + time_total + 60 < time(0)
Stale(s) == slot[s].age > Grace

\* status = SFTPWHO_EMPTY: the flag bits go too.
Emptied(r) == [r EXCEPT !.st = "EMPTY", !.fl = FALSE]

\* memset of the slot, then status = SFTPWHO_IDLE. time_begin is 0: the slot
\* is older than any grace.
Wiped == [st |-> "IDLE", fl |-> FALSE, name |-> NoName, age |-> Grace + 1]

\* strncat appends to what the user field holds.
NamedBy(p, r) ==
  [r EXCEPT !.name = IF @ = NoName THEN p ELSE Mixed, !.age = 0]

\* A live process uses the slot.
Held(s) == \E p \in Procs : mine[p] = s

Goto(p, l) == pc' = [pc EXCEPT ![p] = l]

-----------------------------------------------------------------------------
Init ==
  /\ slot = [s \in Slots |-> [st |-> "EMPTY", fl |-> FALSE,
                              name |-> NoName, age |-> Grace + 1]]
  /\ pc = [p \in Procs |-> "out"]
  /\ mine = [p \in Procs |-> NoSlot]
  /\ pos = [p \in Procs |-> 1]
  /\ pass = [p \in Procs |-> 1]
  /\ rule = [p \in Procs |-> "start"]
  /\ nb = [p \in Procs |-> 0]
  /\ ret = [p \in Procs |-> "scan"]
  /\ disturbed = {}

-----------------------------------------------------------------------------
(* SftpWhoCleanBuggedClient, run when a process attaches the segment and   *)
(* at each tick of a session.                                              *)

\* A new connection attaches the table and first cleans it. (sftp-who does
\* the same and ends there: an Attach, the cleaning, and a Crash.)
Attach(p) ==
  /\ pc[p] = "out"
  /\ Goto(p, "clean")
  /\ UNCHANGED <<slot, mine, local, disturbed>>

\* Mutation of NextToClean: the loop runs one slot too far.
NextToCleanTooFar(p) ==
  IF pos[p] <= NSlots
  THEN Goto(p, "clean") /\ pos' = [pos EXCEPT ![p] = @ + 1] /\ UNCHANGED ret
  ELSE Goto(p, ret[p]) /\ pos' = [pos EXCEPT ![p] = 1] /\ UNCHANGED ret

\* Go on with the next slot, or end the loop. A tick of a session that ends
\* here may find that time_maxlife has reached 0.
NextToClean(p) ==
  IF pos[p] < NSlots
  THEN Goto(p, "clean") /\ pos' = [pos EXCEPT ![p] = @ + 1] /\ UNCHANGED ret
  ELSE /\ \/ Goto(p, ret[p])
          \/ ret[p] \in Serving /\ Goto(p, "exit")
       /\ pos' = [pos EXCEPT ![p] = 1]
       /\ ret' = [ret EXCEPT ![p] = "scan"]

\* The test of one slot.
CleanTest(p) ==
  /\ pc[p] = "clean"
  /\ IF Occupied(pos[p]) /\ Stale(pos[p])
     THEN Goto(p, "reap") /\ UNCHANGED <<pos, ret>>
     ELSE NextToClean(p)
  /\ UNCHANGED <<slot, mine, pass, rule, nb, disturbed>>

\* The store that follows a positive test.
CleanStore(p) ==
  /\ pc[p] = "reap"
  /\ slot' = [slot EXCEPT ![pos[p]] = Emptied(@)]
  /\ disturbed' = IF Held(pos[p]) THEN disturbed \cup {pos[p]} ELSE disturbed
  /\ NextToClean(p)
  /\ UNCHANGED <<mine, pass, rule, nb>>

-----------------------------------------------------------------------------
(* SftpWhoGetStruct: the search for an empty slot.                         *)

\* The for loops: next slot, next pass, or no place, which ends the process.
NextToScan(p) ==
  \/ /\ pos[p] < NSlots
     /\ pos' = [pos EXCEPT ![p] = @ + 1]
     /\ Goto(p, "scan")
     /\ UNCHANGED pass
  \/ /\ pos[p] = NSlots /\ pass[p] < Tries
     /\ pos' = [pos EXCEPT ![p] = 1]
     /\ pass' = [pass EXCEPT ![p] = @ + 1]
     /\ Goto(p, "scan")
  \/ /\ pos[p] = NSlots /\ pass[p] = Tries
     /\ Goto(p, "out")
     /\ pos' = [pos EXCEPT ![p] = 1]
     /\ pass' = [pass EXCEPT ![p] = 1]

\* First test; on success the process sleeps for 100 microseconds.
ScanTest(p) ==
  /\ pc[p] = "scan"
  /\ IF WordEmpty(pos[p])
     THEN Goto(p, "nap") /\ UNCHANGED <<pos, pass>>
     ELSE NextToScan(p)
  /\ UNCHANGED <<slot, mine, rule, nb, ret, disturbed>>

\* Second test, after the sleep.
ScanRetest(p) ==
  /\ pc[p] = "nap"
  /\ IF WordEmpty(pos[p])
     THEN Goto(p, "claim") /\ UNCHANGED <<pos, pass>>
     ELSE NextToScan(p)
  /\ UNCHANGED <<slot, mine, rule, nb, ret, disturbed>>

\* memset and status = SFTPWHO_IDLE: from here on the process uses the slot.
Claim(p) ==
  /\ pc[p] = "claim"
  /\ slot' = [slot EXCEPT ![pos[p]] = Wiped]
  /\ mine' = [mine EXCEPT ![p] = pos[p]]
  /\ disturbed' = IF ~Held(pos[p]) THEN disturbed \ {pos[p]}
                  ELSE IF Occupied(pos[p]) THEN disturbed \cup {pos[p]}
                  ELSE disturbed
  /\ Goto(p, "fill")
  /\ pos' = [pos EXCEPT ![p] = 1]
  /\ pass' = [pass EXCEPT ![p] = 1]
  /\ UNCHANGED <<rule, nb, ret>>

-----------------------------------------------------------------------------
(* main(): the process enters the server.                                  *)

LimitFor(r) == CASE r = "user"   -> LimitByUser
                 [] r = "ip"     -> LimitByIP
                 [] r = "server" -> Limit

\* The limit checked after r: those that are 0 are passed over.
NextRule(r) ==
  IF r = "start" /\ LimitByUser > 0 THEN "user"
  ELSE IF r \in {"start", "user"} /\ LimitByIP > 0 THEN "ip"
  ELSE IF r # "server" /\ Limit > 0 THEN "server"
  ELSE "start"

\* Rule r is satisfied: check the next one, or go on to the flags.
CheckAfter(p, r) ==
  /\ rule' = [rule EXCEPT ![p] = NextRule(r)]
  /\ Goto(p, IF NextRule(r) = "start" THEN "flags" ELSE "count")

\* time_begin, pid, home, user, ip. Then the process ends if SHUTDOWN_FILE is
\* there, unless it is an administrator.
Fill(p) ==
  /\ pc[p] = "fill"
  /\ slot' = [slot EXCEPT ![mine[p]] = NamedBy(p, @)]
  /\ \/ CheckAfter(p, "start")
     \/ p \notin Admins /\ Goto(p, "exit") /\ UNCHANGED rule
  /\ UNCHANGED <<mine, pos, pass, nb, ret, disturbed>>

\* Does count_program_for_uid or count_program_for_ip count the slot?
Counts(p, s) ==
  /\ Occupied(s)
  /\ \/ rule[p] = "server"
     \/ slot[s].name \in Procs /\ rule[p] = "user" /\ UserOf[slot[s].name] = UserOf[p]
     \/ slot[s].name \in Procs /\ rule[p] = "ip" /\ IpOf[slot[s].name] = IpOf[p]

\* Mutation of TooMany: the process does not count itself.
TooManyOthers(p, n) == n - 1 > LimitFor(rule[p])

TooMany(p, n) == n > LimitFor(rule[p])

\* One slot of the loop of count_program_for_uid or count_program_for_ip, and,
\* after the last one, the comparison with the limit.
CountSlot(p) ==
  LET n == IF Counts(p, pos[p]) THEN nb[p] + 1 ELSE nb[p]
  IN  /\ pc[p] = "count"
      /\ \/ /\ pos[p] < NSlots
            /\ pos' = [pos EXCEPT ![p] = @ + 1]
            /\ nb' = [nb EXCEPT ![p] = n]
            /\ UNCHANGED <<pc, rule>>
         \/ /\ pos[p] = NSlots
            /\ pos' = [pos EXCEPT ![p] = 1]
            /\ nb' = [nb EXCEPT ![p] = 0]
            /\ IF TooMany(p, n)
               THEN Goto(p, "exit") /\ rule' = [rule EXCEPT ![p] = "start"]
               ELSE CheckAfter(p, rule[p])
      /\ UNCHANGED <<slot, mine, pass, ret, disturbed>>

\* All limits hold. With DisableAccount the process ends. Else
\* status |= flagsGlobals, whatever the low byte has become; then the process
\* ends if its ExpireDate has passed, else SftpMain starts.
SetFlags(p) ==
  /\ pc[p] = "flags"
  /\ \/ Goto(p, "exit") /\ UNCHANGED slot
     \/ /\ slot' = [slot EXCEPT ![mine[p]].fl = @ \/ p \in Flagged]
        /\ Goto(p, "init") \/ Goto(p, "exit")
  /\ UNCHANGED <<mine, local, disturbed>>

-----------------------------------------------------------------------------
(* SftpMain: what a session does to the table.                             *)

\* SSH2_FXP_INIT with a protocol version of the SFTP client.
InitSftp(p) ==
  /\ pc[p] = "init"
  /\ Goto(p, "run")
  /\ UNCHANGED <<slot, mine, local, disturbed>>

\* Mutation of InitAdmin: the session keeps its pointer to the slot.
InitAdminKeepsWho(p) ==
  /\ pc[p] = "init" /\ p \in Admins
  /\ slot' = [slot EXCEPT ![mine[p]] = Emptied(@)]
  /\ Goto(p, "admin")
  /\ UNCHANGED <<mine, local, disturbed>>

\* SSH2_FXP_INIT with the admin version: the session leaves the table.
InitAdmin(p) ==
  /\ pc[p] = "init" /\ p \in Admins
  /\ slot' = [slot EXCEPT ![mine[p]] = Emptied(@)]
  /\ mine' = [mine EXCEPT ![p] = NoSlot]
  /\ Goto(p, "admin")
  /\ UNCHANGED <<local, disturbed>>

\* Mutation of UpdateInfo: with no file open the status is cleared.
UpdateInfoClears(p, a) ==
  /\ pc[p] = "run"
  /\ slot' = [slot EXCEPT ![mine[p]].st = IF a = "IDLE" THEN "EMPTY" ELSE a]
  /\ UNCHANGED <<pc, mine, local, disturbed>>

\* UpdateInfoForOpenFiles after an open, a read, a write or a close.
UpdateInfo(p, a) ==
  /\ pc[p] = "run"
  /\ slot' = [slot EXCEPT ![mine[p]].st = a]
  /\ UNCHANGED <<pc, mine, local, disturbed>>

\* Mutation of Tick: the table is not cleaned.
TickOnly(p) ==
  /\ pc[p] \in Serving
  /\ slot' = [slot EXCEPT ![mine[p]].age = 0]
  /\ UNCHANGED <<pc, mine, local, disturbed>>

\* select() timed out: time_total is refreshed, then the session ends with an
\* idle timeout, or cleans the table.
Tick(p) ==
  /\ pc[p] \in Serving
  /\ slot' = [slot EXCEPT ![mine[p]].age = 0]
  /\ \/ Goto(p, "exit") /\ UNCHANGED ret
     \/ Goto(p, "clean") /\ ret' = [ret EXCEPT ![p] = pc[p]]
  /\ UNCHANGED <<mine, pos, pass, rule, nb, disturbed>>

\* End of file, an I/O error or a signal handled: exit() is called.
Quit(p) ==
  /\ pc[p] \in Serving
  /\ Goto(p, "exit")
  /\ UNCHANGED <<slot, mine, local, disturbed>>

QuitAdmin(p) ==
  /\ pc[p] = "admin"
  /\ Goto(p, "out")
  /\ UNCHANGED <<slot, mine, local, disturbed>>

\* SftpWhoReleaseStruct, from main() or from end_sftp().
Release(p) ==
  /\ pc[p] = "exit"
  /\ slot' = [slot EXCEPT ![mine[p]] = Emptied(@)]
  /\ mine' = [mine EXCEPT ![p] = NoSlot]
  /\ Goto(p, "out")
  /\ UNCHANGED <<local, disturbed>>

\* The process is killed: its slot stays as it is.
Crash(p) ==
  /\ pc[p] # "out"
  /\ Goto(p, "out")
  /\ mine' = [mine EXCEPT ![p] = NoSlot]
  /\ pos' = [pos EXCEPT ![p] = 1]
  /\ pass' = [pass EXCEPT ![p] = 1]
  /\ rule' = [rule EXCEPT ![p] = "start"]
  /\ nb' = [nb EXCEPT ![p] = 0]
  /\ ret' = [ret EXCEPT ![p] = "scan"]
  /\ UNCHANGED <<slot, disturbed>>

-----------------------------------------------------------------------------
(* The environment.                                                        *)

\* One second passes.
SecondPasses ==
  /\ slot' = [s \in Slots |->
                [slot[s] EXCEPT !.age = IF @ > Grace THEN @ ELSE @ + 1]]
  /\ UNCHANGED <<pc, mine, local, disturbed>>

Clean(p) == CleanTest(p) \/ CleanStore(p)
Join(p) == ScanTest(p) \/ ScanRetest(p) \/ Claim(p)
Enter(p) == Fill(p) \/ CountSlot(p) \/ SetFlags(p)
Serve(p) == \/ InitSftp(p) \/ InitAdmin(p) \/ Tick(p) \/ Quit(p) \/ QuitAdmin(p)
            \/ \E a \in Activity : UpdateInfo(p, a)

Next ==
  \/ \E p \in Procs : \/ Attach(p) \/ Clean(p) \/ Join(p) \/ Enter(p) \/ Serve(p)
                      \/ Release(p) \/ Crash(p)
  \/ SecondPasses

Spec == Init /\ [][Next]_vars

\* The clock runs. Nothing else is assumed of the scheduling: the liveness
\* property names the ticks it needs.
FairSpec == Spec /\ WF_vars(SecondPasses)

-----------------------------------------------------------------------------
(* Properties.                                                             *)

\* The process is past main(): it runs SftpMain, cleaning of a tick included.
InServer(p) == \/ pc[p] \in Serving
               \/ pc[p] \in Cleaning /\ ret[p] \in Serving

\* The process has found rule r satisfied and has not been refused since.
Passed(p, r) ==
  \/ InServer(p) \/ pc[p] = "flags"
  \/ /\ pc[p] = "count"
     /\ \/ r = "user" /\ rule[p] \in {"ip", "server"}
        \/ r = "ip" /\ rule[p] = "server"

\* The processes that rule r counts together with p.
Peers(p, r) == {q \in Procs : \/ r = "server"
                              \/ r = "user" /\ UserOf[q] = UserOf[p]
                              \/ r = "ip" /\ IpOf[q] = IpOf[p]}

(* Two processes use the same slot only after one of exactly two events:   *)
(* a claim stored over a claim made between the second test and the store, *)
(* or the cleaning of a slot whose process was alive. Releases, exits,     *)
(* refusals, crashes and administrators leaving the table never cause it.  *)
SharingExplained ==
  \A p, q \in Procs :
    p # q /\ mine[p] # NoSlot /\ mine[p] = mine[q] => mine[p] \in disturbed

(* As long as its slot was not disturbed in one of these two ways, a       *)
(* session is listed from its claim to its release: its slot is occupied,  *)
(* and once filled carries its own name, so the limits count it, sftp-who  *)
(* shows it and sftp-kill finds it.                                        *)
SessionsListed ==
  \A p \in Procs :
    mine[p] \in Slots \ disturbed =>
      /\ Occupied(mine[p])
      /\ slot[mine[p]].name = IF pc[p] = "fill" THEN NoName ELSE p

(* Each process enters the table before it counts, so that of several      *)
(* processes racing for the last place at least the last one to fill its   *)
(* slot sees all the others: the admitted sessions with undisturbed slots  *)
(* never exceed LimitConnectionByUser, LimitConnectionByIP or              *)
(* LimitConnection, although no two of the steps are atomic.               *)
LimitsHold ==
  \A p \in Procs, r \in {"user", "ip", "server"} :
    LimitFor(r) > 0 =>
      Cardinality({q \in Peers(p, r) : /\ Passed(q, r)
                                       /\ mine[q] \notin disturbed})
        <= LimitFor(r)

\* A slot whose process is gone and whose status is still set.
Orphan(s) == Occupied(s) /\ ~Held(s)

(* The slot of a killed session does not stay occupied for ever: as long   *)
(* as one session keeps timing out in select(), its ticks reclaim the      *)
(* slots of the dead ones.                                                 *)
OrphansReclaimed ==
  (\E p \in Procs : []<><<Tick(p)>>_vars) =>
     \A s \in Slots : []<>~Orphan(s)

(* SftpWho.c:103, "search a empty place", SftpWho.c:114, "marked structure *)
(* as occuped": the place a process gets is its own.                       *)
NoSharing ==
  \A p, q \in Procs : p # q /\ mine[p] # NoSlot => mine[p] # mine[q]

(* SftpWho.c:139, "add 60s to make sure that the session is definitively   *)
(* dead": a slot is older than the grace only when its session is dead.    *)
(* time_total is refreshed when select() times out, which a session with   *)
(* steady traffic never sees.                                              *)
StaleMeansDead ==
  \A p \in Procs :
    pc[p] \in Serving /\ mine[p] \notin disturbed => ~Stale(mine[p])

=============================================================================
