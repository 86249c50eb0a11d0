# A TLA+ model of MySecureShell

MySecureShell is an SFTP server that `sshd` starts in place of a login shell:
one process per connection, which applies the restrictions of an Apache-like
configuration file (limits of connections, of bandwidth, of open files, rights)
and then serves the SFTP protocol on its standard input and output. The
processes share one System V shared memory segment, in which each session has a
record; small tools (`sftp-who`, `sftp-kill`, `sftp-state`, `sftp-admin`) read
or change the same segment and a shutdown file.

This directory holds TLA+ models of that program, the TLC runs that check them
and the proofs of what holds for every size. Line numbers below are those of
the files under `src/`.

## 1. Inventory

| component | source | state | operations |
|---|---|---|---|
| session table | `SftpServer/SftpWho.c`, `Core/prog.c`, `Core/main.c` 187-341 | 128 records in shared memory: status word, name, address, times, counters; the global bandwidth | attach/create, clean, search and claim, fill, count, set flags, refresh, release |
| session loop | `SftpServer/Sftp.c` 1046-1204, `SftpServer.c` 45-115 | quotas used and allowed, idle and life counters, `must_shutdown` | select, read, write, tick, signals, exit |
| packet framing | `SftpServer/Sftp.c` 863-1044, `Buffer.c` | input and output buffers with read and write positions | append, parse, dispatch, skip, clean |
| handle table | `SftpServer/Handle.c`, `Sftp.c` 205-530, `SftpServer.c` 200-281 | 100 handles: unused, file or directory; descriptor, position, path | open, opendir, read, write, readdir, close, close all |
| file operations | `SftpServer/FileSystem.c`, `Sftp.c` 530-860 | root and current directory of the session; the file system | path resolution, security and rights checks, rename, remove, attributes |
| admin protocol | `SftpServer/Admin.c`, `Stats.c`, `SftpAdmin/` | the configuration file and its backup, the shutdown file, a ring of 300 load samples | kill, status, config get/set, users, log, stats |
| server state | `SftpState/Main.c`, `SftpWho.c` 47-59 | shutdown file, the segment | start, stop, fullstop |
| configuration | `Core/conf.c`, `parsing.c`, `hash.c`, `user.c`, `ip.c`, `convert.c`, `FileSpec.c` | hash table of directives, stack of open tags, access rules | parse, include, look up, check rights |
| log | `SftpServer/Log.c` | one descriptor, a flag set by a signal handler | open, print, reopen, close |
| process start | `Core/main.c`, `SftpServer.c` 116-198 | real and effective identity | force user and group, create home, chroot, revoke rights |
| helpers | `Encode.c`, `Encoding.c`, `Util.c`, `GetUsersInfos.c`, `Send.c`, `Access.c` | buffers, two caches | conversions |

How they interact:

* The session table is the only state shared by the server processes, and it
  has **no lock**. `main()` takes a slot before it reads the limits, so the
  limits count the process itself. The session loop refreshes its slot at each
  tick and writes its activity on every open, read, write and close.
  `SftpWhoCleanBuggedClient` is executed by every process on every slot.
* The handle table feeds the session table: `UpdateInfoForOpenFiles` publishes
  the last open file, and `CheckRulesAboutMaxFiles` reads the published
  activity of all sessions back.
* The session loop feeds the framing (bytes read, limited by the upload quota)
  and drains it (bytes written, limited by the download quota).
* The admin protocol runs in the same loop after a special INIT; from then on
  the session has no slot.
* `sftp-state` and the admin protocol act on the others only through the
  shutdown file, signals and, for `fullstop`, the removal of the segment.

What is hard here, and what would make each part correct:

* session table: interleavings of processes at each read and store, crashes
  between any two, a clock that turns the silence of a session into its death.
  Correct means: a slot has one user, a live session is listed and counted, the
  limits hold, the slot of a dead session comes back;
* session loop: quotas that stop reads and writes until the next tick, ticks
  that happen only when nothing else does, signals that arrive between two
  tests. Correct means: quotas are respected, a session blocked by its quota
  goes on, idle and life limits end the session, a signal ends it;
* framing: packets that arrive in pieces, several in one read, too long, or
  shorter than their handler expects. Correct means: the sequence of handled
  packets is the sequence sent, however it was cut;
* handle table: exhaustion, stale handles, a close of what is closed, the same
  descriptor closed twice. Correct means: no descriptor is lost or closed
  twice, a handle designates what was opened under it, what is published is
  what is open;
* file operations: partial failures (a rename that has removed its target),
  path normalisation against the virtual root;
* admin protocol: a configuration being replaced in several steps, any of which
  may fail; a ring buffer read while it wraps around;
* configuration: nesting of tags, inclusion depth, caches.

## 2. Modules

| component | modules | instance and runs | proofs |
|---|---|---|---|
| session table | `SessionTable` | `MCSessionTable`: `SessionTable`, `SessionTableSharing`*, `SessionTableStale`* | `SessionTableProofs` |
| handle table | `HandleTable` implements `OpenObjects` | `MCHandleTable`: `HandleTable` | `HandleTableProofs` |
| session loop | `SessionLoop` | itself: `SessionLoopQuota` | `SessionLoopProofs` |
| packet framing | `Channel` implements `Exchange` | `MCChannel`: `Channel` | `ChannelProofs` |
| file operations | `Files` on `Tree` | `MCFiles`: `Files`, `FilesOverwrite`* | `FilesProofs` |
| configuration | `Config` on `FileSpec` and `IpRange` | `MCConfig`: `Config` | `ConfigProofs` |
| server state, administration, process start | `Server` on `ConfigFile` | `MCServer`: `Server`, `ServerErase`* | `ServerProofs` |
| bandwidth shares | `Shares` | `MCShares`: `Shares` | `SharesProofs` |

(* runs that TLC must find violated: see section 5.)

Every module gives each function, handler or step of the code one action under
a name the source uses where there is one. Operators whose comment begins with
"Mutation of" are plausible slips in the definition that follows them; no
specification uses them. With one of them in the place of that definition, TLC
finds the property listed with it in `PROJECT.json` violated: the properties
do depend on the code.

How the modules fit together: `Server` is the outermost. It takes a connection
from the configuration it reads (`ConfigFile` says which text that is, `Config`
what the text means) through the segment (`SessionTable` looks at the same steps
store by store) to a session, which `Server` knows only as "serves" or
"administrates". Inside a session `SessionLoop` decides when bytes move,
`Channel` makes requests of them, `HandleTable` and `Files` execute these.
`Shares` looks at the part of the table and of the tick that divides the
bandwidth; what comes out of it is an input (`UpShares`, `DnShares`) of
`SessionLoop`.

### SessionTable

State: `slot`, the array of records (status word as `st` and `flag`, the name
of its owner, its age); for each process where it is (`pc`), the slot it takes
for its own (`mine`, `gl_var->who`) and the variables of its loops.

A step is at most one read or write of the shared segment, because nothing in
the code excludes another process in between. A connection goes through
`Attach` (`SftpWhoGetStruct`), `CleanTest`/`CleanStore`
(`SftpWhoCleanBuggedClient`), `ScanTest`/`ScanRetest`/`Claim`, `Fill`,
`CountSlot` for each of the three limits, `SetFlags`, then serves: `InitSftp`
or `InitAdmin` (an administrator leaves the table), `UpdateInfo`, `Tick`, and
leaves by `Quit`, `QuitAdmin`, `Release` or `Crash`. A process that ended may
come again as a new connection.

Abstractions: one record field stands for the fields `main` fills together;
`Mixed` is the name in a slot two processes have filled; the age is capped just
past `Grace`. `disturbed` is a history variable: the slots that were claimed
over a claim or emptied while their process was alive.

### HandleTable and OpenObjects

State for each session: the table (`handles`), what the kernel has open
(`kernel`), what its slot shows (`shown`), the request under way, the descriptor
that only `DoOpen` knows yet (`fresh`). Actions: `DoOpenDir`, `DoOpen` (which
reads the slots of all sessions one by one: `CheckSlot`), then `OpenFile`
(`open()`), `NewFile` (the entry of the table, or `TableFull`) and `Publish`
(`UpdateInfoForOpenFiles`) with the steps of other sessions in between;
`DoRead`, `DoWrite`, `DoClose` (also followed by `Publish`), and the exit step by
step: `Quit`, `CloseLastFile`, `Release`, `CloseNext`; `Crash` at any time.
`Reaped` is the cleaning of another process, which empties the slot of a session
that was killed, and that of a live one whose loop has not refreshed it for a
minute: `Busy` says which sessions may be so, the history variable `reaped`
which of them had their slots emptied while they lived.
`HandleByte`/`HandleOf` are the conversion a handle goes through on the wire.
`OpenObjects` is what a client may rely on: a handle stands for one open object
from its opening to its closing.

### SessionLoop

One turn of `SftpMain` is `Look` (the tests at its head and the timeout), then
`Ready`, `Tick` or an interruption, then `Read`, `BeginWrite`/`EndWrite` or
`WriteFails`; the client sends, receives and hangs up, signals come, and time
passes (`Elapse`) at any point. Data are counted in units and a read unit is
answered by one unit or more. The additions `upload_current + n` are done in
32 bits in the code; with a quota they stay below it, and without one their
value is read by nothing (`Plus` leaves them out). The clock only advances.

### Channel and Exchange

State: `bIn` and `bOut` with content, read position, size of the allocation and
the flag that suspends shrinking; what is on the wires; how each request was
served. `Receive` and `Transmit` move any number of bytes, `Parse` is one
iteration of the loop of `DoSFTPProtocol`: wait, give up (a request too long),
or `Serve`. A byte carries its request and its place in it, so that a wrong cut
shows.

A request (`Packets`) has the length it announces, the bytes it really has and
the number its handler reads. It is `Sound` when the three agree and the length
is positive as an `int` (`Signed`). The getters of `Buffer.c` compare with the
end of the buffer, not of the request, and `BufferGetHandle` compares with
nothing (`ReadTo`): the handler of a request that is not sound stops anywhere,
in the next request or one byte past the end (`Past`, where the unsigned
difference of line 867 wraps; one such position stands for all). From then on
the stream is `lost`: what is read as a request may have any length, any type
and any effect on the position (`Astray`). `Exchange` is what a client sees as
long as its requests are sound: requests served once, in order, each in the mode
its predecessors set, answers in the same order.

### Files and Tree

`Tree` is the file system: objects, names, links, and the system calls, each an
operator that gives the set of its results (a tree and an error). It models no
code of this repository but the kernel's, as far as the code depends on it:
POSIX semantics of rename onto an existing name, links, unlinked open files.

`Files` is one session on it: `Begin` is the head of a handler (the Disable
tags that are tested first), `Check` a `FSCheckSecurity`, `Call` and `OpenFile`
one system call each, `Send` the answer; `Others` is any step of another
process on the tree, allowed between any two steps. A path stands for what
`FSResolvePath` makes of it; path strings are not modelled. `HideNoAccess`
(whose decision depends on the owner of each file and on a stale `errno`) may
refuse any name. `TruncatesToRead` is an open for reading with a disposition
that empties the file: `DoOpen` tests its Disable tags by the access that is
asked for, and so lets it through. Sizes are "empty" and "holds data"; `chown` and `utimes` are
calls that may fail and change nothing here. `raced` is a history variable:
`chmod` met another kind of object than the `stat` before it.

### Config, FileSpec and IpRange

`Config` is what `load_config` makes of any files: `fgets()` returns any line,
so that every file, of any length, is among the behaviours. State: the files
being read, each included by the one before, with what the code keeps of each
(`opened`, the count of its open tags; `active`, whether its lines are
executed); the stack of tags, which is one for all files; the table of
parameters; the filters. Actions: `OpenConfig` (the three names that are tried),
`OpenTag`, `OpenBareTag` (a tag without argument: counted, not pushed),
`CloseTag`, `BadTag`, `SkipWords`, `SpecWords`, `ParamWords`, `Include`,
`EndOfFile`, `Settle`. `Exit` is the `exit(2)` of every error.

`FileSpec` is the list of filters: how lines add to the last one defined, which
are selected, what they refuse. A regular expression is a name, and what it
matches a constant. `IpRange` is the ten bytes a range becomes and the
comparison of an address with them, in the width and with the sign of the C
types. `ReadAs` says what the documented forms (`Documented`: `a/n` and
`a/n-b/n` of `iprange.rst`, `a-b` of `sftp_config`) are for in the eyes of that
code: each byte of the address lies between the two bytes at its place
(`Covers`), of which a size may be one (`End`).

`written` says, beside the state, what the lines say: the words of the last
applicable line for each key, the lines of each filter. It is what a reader of
the files would note down, and the properties compare the tables with it. From a
tag inside another tag on it says nothing: the code lets the innermost tag alone
decide, the documentation has no such files.

Left out: cutting a line into words, environment variables in lines, the search
of the user and his groups (`who` is its result). `_last_key` never changes the
answer of `hash_get` (elements are changed in place), so it is no variable.

### ConfigFile and Server

`ConfigFile` is the replacement of the configuration by an administrator, one
system call a step (`BackupConfig`, `CreateConfig`, `WriteConfig`,
`RestoreConfig`), each of which may fail, and the reading of the file by a
connection. A name leads to a node (an inode) and a node has a text: whose it is
and how much of it. `harm` is a history variable: two replacements overlapped,
a text was left cut, or the file was left missing. A connection that finds no
file goes on with `CONFIG_FILE2`, if there is one (it may be there or not at any
time), under which others may be administrators (`Admins2`); without both it
ends, and so it does when the text stops in the middle of a line (`Unloadable`).
A file named on the command line instead (`_custom_config_file`) is left out:
nobody replaces it.

`Server` composes it with the segment and the operator. A connection goes
through `Start` (the configuration), `FindSegment`, `CreateSegment`,
`EraseSegment`, `ClaimSlot`, `FillSlot`, `TestShutdown`, `Enter`, and then
serves or, after `InitAdmin`, administrates; `Leave` and `Crash` end it.
`Then` is the order in which `main()` goes about it. `at` says where each key
leads: nowhere, to a segment, or to one of another size (`Foreign`) that another
build left. `AttachSegment` has the flag `eraze` of the code: it is set when the
process has tried to create a segment under an earlier key.
The tools are `StateStop` and `StateStart`, `KillAttach` and `KillListed`
(`sftp-kill all`: first the list, then the signals, with connections starting in
between), `DeleteStructs` (`sftp-state fullstop` removes the segment), `Watch`
(`sftp-who` cleans before it prints). `sftp-who` loads the configuration first,
and ends when there is none: then `sftp-kill` has an empty list, and the stop
goes on without having told anybody (`KillAttach`, `tool` = "blind"). Administrators have `KillUser`,
`SftpAdmin` and `OtherClient` (server status) and `ConfigSet`. A SIGHUP ends a
process that has no handler yet and is a request (`hup`) to one that has.
A slot that is not filled yet has pid 0: killing "it" is killing the process
group of the killer, which `KillListed` and `KillUser` have.

`Server` takes and empties a slot in one step. Whether a slot is stale is any
choice among the slots of those who serve or are gone (`MayBeStale`): what a
clock can do is in `SessionTable`.

### Shares

State: what each slot shows, the share in the segment (`max`, `share`), for each
session what it counts (`at`, `nb`), its profile and its present quota.
`CountSlot` is one slot of the loop of `SftpWhoCleanBuggedClient`, `StoreShare`
the end of it, `TakeShare` the rest of the tick; `Open` and `Close` change what a
slot shows; `Age` is a minute without a tick. `recent`, `current` and `settled`
are history: which counts began after the last download did, whether such a
count stored the share, who took its quota since. `GlobalUpload` is divided by
the same code with other names, so one of the two is modelled.

`GlobalDownload` is assumed to be at least the number of sessions: below it a
share is 0, which the code takes for "no limit".

## 3. What the runs check

* **SessionTable** (820 000 states): two connections of one user, two slots,
  `LimitConnection` = 1, one possible administrator.
  `SharingExplained`: two processes use one slot only after one of two events,
  a claim over a claim or the cleaning of a live slot; nothing else (release,
  exits, refusals, crashes, administrators) does it. `SessionsListed`: a
  session whose slot was spared both is in the table under its own name.
  `LimitsHold`: of the admitted sessions with undisturbed slots there are never
  more than allowed, since each registers before it counts. `OrphansReclaimed`:
  the slots of killed sessions come back while one session keeps ticking.
* **HandleTable** (243 000 states): two sessions of a user with
  `MaxOpenFilesForUser` = 1, two handles each, the first of which may lose its
  slot while it serves: `NothingLeaked`, `ShownIsLast` (a slot that was not
  emptied tells of the last open file), `UnseenIsOpening` (whoever has a file open
  can be seen, but for the file that `DoOpen` is about to publish and the slot
  that was emptied), and the refinement of `OpenObjects` (`HandlesDesignate`).
* **SessionLoopQuota** (300 000 states): both quotas, changing shares, an idle
  time, a possible administrator: `QuotaHeld` with `TicksApart` (a period lasts
  a second at least), `IdleMeansIdle`, and that stopped, abandoned and idle
  sessions end and blocked ones go on (`StopEnds`, `HangupEnds`, `IdleEnds`,
  `QuotaLifts`).
* **Channel** (413 000 states): three requests, of which some are too long,
  unknown to the mode or switch it, or two with one that is not sound, cut in
  every way: `Fits`, `NothingWholeWaits`, `AnswersInOrder`, the refinement of
  `Exchange` (`ServedInOrder`), and `AllAnswered`. `Fits` and `AnswersInOrder`
  hold in a lost stream as well; the others say what holds until then.
* **Files** (444 000 states): every request on three paths, with
  everything allowed or everything disabled, and other processes in between:
  `FailureHarmless` (what a failed request can leave behind: three known
  cases), `OkMeansDone`, `RightsKept`, `LossExplained` (each way in which a
  session makes data disappear, under its Disable tag, and the one way that is
  under none).
* **Config** (157 000 states): any lines of any files that include one another:
  `ValueIsLastApplicable`, `FilterAsWritten` (a session is refused what the
  lines of the filters it applies say) and `RangesMatch` (what the documented
  forms of ranges are for).
* **Server** (1.4 million states): three connections, of which two may
  administrate. `AckedInForce` and `ServedWhole`: no text that was acknowledged
  is lost, it is no more than a backup for the causes that are named, and no
  session works under part of one or under `CONFIG_FILE2` but for them.
  `StopReaches`: when `sftp-kill` is through, after a stop that nobody took
  back, no session is left that was not told, in spite of those who start
  meanwhile, unless `sftp-who` found no configuration. `SplitExplained`: sessions
  are in different segments only after two processes created one at once or a
  fullstop removed one.
* **Shares** (183 000 states): two sessions with and without limits of their own:
  `SharesFit` (once a session has looked, the equal parts of those who download
  fit into `GlobalDownload`) and `ShareReturns` (who goes on alone gets all).

### Bounds

Two processes are enough for every interleaving the table's hazards need: each
involves one victim and one disturber, and a process that ends comes back as a
new connection. Two slots make "first free slot" and "the table is full"
different; one pass of the search stands for three (they only repeat), and one
activity for all: the properties ask whether a status is set, not which. `Grace` 0
lets any slot that is not refreshed become stale at once (1 in the run about
staleness, where a refresh must be able to come in time). In `HandleTable` the
first session may have three descriptors, more than its table holds, so that the
table and not the kernel is what is full, and opens files to write; its slot may
be emptied while it lives (`Busy`). The second one has one descriptor and
one position and opens files to read (`FewNums`, `FewPositions`, `FewAccesses`):
it is there to count and to be counted, and both have every action. In the loop
one unit of room, a quota of one full packet and a second of two clock units make
every comparison of the loop true and false. `MaxLife` is 0 there: a session
that ends after so many ticks cannot be waited for until it is idle; the safety
properties are proved for every `MaxLife`. Lengths of two bytes and requests of
up to three give every cut the code tells apart; three requests reach the mode
switch, a request after it and a full buffer before it. `Longest` is 3 instead of
256 KiB and `Half` 5 instead of 2^31, so that there are a request too long, and one
whose length of 6 is negative as an `int`; once a request is not sound, two
requests and two answers (`MaxStray`) are as many as there are: one that is
misread, and one that it takes with it. Two names and two inodes with paths of
one and two names reach renames onto, into and out of a directory, links that
dangle, loop or lead to directories, and removal of what is open; links are
followed once and a session has one handle, the other processes all the rest. The
one set of rights asked for is cut by `MaximumRights` of files and completed by
`MinimumRights` of directories, so that either taken for the other shows.

In `Config` two files deep (`MaxInclusions` is 10 in the code), two open tags and
a weight of six for all that was read so far: a tag around an inclusion whose
file has a tag, a tag without argument closed in another file, a filter with
three lines and the line that applies it, two definitions of a filter. In
`Server` three connections are a victim and two administrators, who can replace
the configuration at once; `MaxOrders` = 2 orders (a stop, a start, a kill, a
replacement begun) make a stop with a start after it, two replacements, or a stop during a
replacement; two keys (four in the code) have every branch of the search, and
the proofs have any number. Four nodes and four segments are one more than can
be in use. In `Shares` two sessions are one that counts and one that changes
what is counted; 5 does not divide by 2, and a limit of 4 lies between the share
of one and the share of two.

Limits that are constants here (`Window`, `MaxRequests`, `MaxOrders`, `MaxTags`,
`MaxWeight`) bound what a client, an operator or a file does, not what the code
does.

### Fairness

* `SessionTable!FairSpec`: time passes. `OrphansReclaimed` has its condition,
  a session that keeps timing out in `select()`, in the property.
* `SessionLoop!FairSpec`: the process runs (`Step`) and time passes. What the
  client must do is in the properties (`ClientReads`, `ClientWaits`,
  `NoMoreSignals`).
* `Channel!FairSpec`: `Receive`, `Transmit` and `Parse` each. `select()`
  reports both descriptors at each turn, and the loop serves both.
* `Shares!FairSpec`: counting is straight code, so a count that began ends. A
  tick comes to a session that has a quota (it is used up, and then `select()`
  times out) or does not download; nothing is assumed of one that sends without
  a limit. A slot that nobody owns gets old.
* `HandleTable`, `Files`, `Config` and `Server` use none: their properties are
  about what may never happen.

## 4. What is proved

For every value of the constants that satisfies the assumptions of the modules:

* `SessionTableProofs`: `TypeCorrect`, `TableCorrect` (`SharingExplained` and
  `SessionsListed`, the second also as `SessionsAreListed`) and `LimitsCorrect`.
  The first are inductive only with `TableInv`: besides the types (a process has
  counted no more slots than it has looked at), a process has a slot exactly
  from its claim to its release (`PcInv`), the cleaning pass included, which
  returns to where it was called from. For the limits nobody counts at one
  moment what is there, and slots fill while they are counted; `LimitInv` finds
  for every set of slots that were filled and spared one process that can answer
  for it: the one among their owners that filled its slot last. It has seen,
  in what it has passed of the table, every slot of the set, and if it is past
  the limit the set is within it. Taken for the set of all who were admitted,
  that is `LimitsHold`. It needs that two of them never have one slot
  (`SharingExplained`), so that sessions are as many as slots.
* `HandleTableProofs`: `HandleTypes`, `NoLeak`, `SlotTellsTheTruth`,
  `UnseenOnlyOpening`, `ImplementsOpenObjects`. The invariant is a conjunction for
  each session (`SessionOK`): handles and descriptors match (`Sound`), what is
  shown matches the handles in each phase (`ShownOK`). The refinement follows
  from it step by step.
* `SessionLoopProofs`: `LoopTypes`, `QuotasHold`, `PeriodsLast`,
  `IdleSessionsOnly`. `TimerInv` is the heart: the time since the last tick, and
  what `tmNeeded` still asks for, make a second and the time lost outside
  `select()`. `IdleInv` adds what the idle counter stands for: while nothing was
  counted since the last tick, a second without a byte for each unit of it and
  the time since; and a turn that `select()` woke for data moves some, as the
  quota it was watched under still allows a byte (`AllowedSome`).
* `ChannelProofs`: `ChannelTypes` and `BuffersFit`, from `GoodBuffer` (position
  within content within allocation) for each operation of `Buffer.c`, and
  `GoodInput` for `bIn`, whose position may pass its content in a lost stream;
  `WholeIsServed`, inductive by itself, since a length in the buffer names one
  request only (`OneHead`); `AnswersAreWhole`, from `AnswersInv`: what was
  received and what waits in `bOut` are the stream of the answers; and the
  refinement of `Exchange`, `ImplementsExchange`. For this `RequestsInv` says the
  same of what was served, what waits in `bIn` and what is on the wire, so that
  the length `Serve` reads is that of the oldest request (`NumberIsOldest`), and
  each step is a step of `Exchange` or none (`ServeMaps`, `NextMaps`). This holds
  while the stream is not lost; after that `Exchange` promises nothing of requests. `Seen`,
  the answers a client has whole, is a maximum, and grows by any number in one
  write.
* `FilesProofs`: `RightsBounded`, `OkIsHonest`, `TypeCorrect`, `FailuresHarmless`
  and `LossesExplained`. The first looks at kinds and
  rights only (`Shaped`, `Bounded`), and so needs nothing about names: each
  system call gives new objects rights within their bounds and leaves the
  others; for `chmod` that is so when `stat` told the kind right. The second
  follows the status from the call that fails to the answer (`StatusInv`). The
  others need where names lead. `Sound`: names lead to inodes in use, links
  somewhere, only files hold data, and an inode without a name is free unless it
  is open. Each system call keeps it and is all or nothing, and takes the data
  of no file but the one in its `Lost` (`Good`, one lemma for each call,
  `ResultsGood`). `Served` is what a request under way is known to have passed:
  its calls are among its own (`CallsOf`), its Disable tags were tested, and
  a request with one change to make has none behind it until it is done.
* `ConfigProofs`: `ValueIsLast`, `RangesAreRead`, `StackEmpty`, `ConfigTypes` and
  `FiltersAsWritten`, for any tags, words, numbers of files and of lines. `IInv` says how the one stack and the
  counts of the files fit together while nothing is nested (`Plain`): the files
  that include others are active, and a tag on the stack that is not for this
  connection, or is a filter, is on top and open in the file being read.
  With it the table agrees with
  what the lines say after each line (`LineAgrees`). `Counted` is the weaker
  fact that holds of nested tags, too: the stack is never deeper than what the
  files have counted, which is nothing at the end of the last one. The ranges
  are arithmetic: which bytes the text of each documented form leaves
  (`BytesAre`, `RangeIs`), and the order of signed bytes on either side of 128
  (`CoversIs`). `Filtered` is the invariant for the filters: the list is the
  list of the texts, filter by filter (`Defines`), a tag of a filter is open only
  where there is a filter, and what was selected is `Chosen` from the last
  line. `Reads` says what a filter has of its text: as long as Order and
  UseFullPath come first, its type, its path and its expressions are those of
  the text; a line more keeps that (`LineRead`), and a filter that has read a
  tidy text refuses what the text does (`RefusesAsWritten`).
* `ServerProofs`: `StopWorks`, `ConfigSafe`, `WholeServed`, `OneSegment` and
  `ServerTypes`, for any number of processes, segments and keys. A stop works
  because a process registers before it looks for the shutdown file: each step
  is `Mild`, that is, lets nobody past the look while the server is down, or
  happens with the file removed (`DownMeanwhile`). `ConfigInv` says, as long as
  nothing worse has happened than that the file was left missing, who replaces
  the configuration and how far.
  `KeysInv` says that the keys before the one in use lead to segments of other
  builds, so that whoever comes ends where the others are.
* `SharesProofs`: `SharesAreFit`. A count that began after the last download did
  has missed nobody (`CountInv`: what it saw is in what it counted), so what it
  stores is a part that fits (`ShareInv`), and what is taken from there does.

Every invariant, every action property and both refinements the runs check are
theorems now, but for the four that the code does not have (section 5).
Only model-checked is liveness, which with ENABLED is out of the prover's reach:
`OrphansReclaimed`, `StopEnds`, `HangupEnds`, `IdleEnds`, `QuotaLifts`,
`AllAnswered`, `ShareReturns`.

**Induction.** The induction theorems of the library take a predicate, which
cannot be given to them here. Where a proof needs induction (the folds that
convert numbers and join masks, the list of filters of a list of names, the
streams of bytes), it has it in the form of a set: the minimal element of a set
of counterexamples, from the well-foundedness of the order on natural numbers
(`WFMin`). `SetInduction` and `PartsInduction` in `ConfigProofs` are that for the
parts of a set that are left when one element after the other is taken away, and
`FoldsExist` says that the recursive function behind `FoldLeft`, `FoldRight` and
`MapThenFoldSet` exists and does what it says on each of them.

**What the proofs changed in the models.** None of this was seen by TLC, whose
runs were and are the same in their outcome:

* `SessionTable!NextRule`, `Channel!ConnAfter` and `Exchange!Serve` were CASEs
  with guards that overlap, for which TLA+ leaves open which one is taken;
* `Tree!Open` followed a link that dangles no further: `open()` with O_CREAT
  makes the file the link names (`Through`);
* `FileSpec!TextOrder` and `TextFull` compared whole lines; the code looks at the
  first two words, and a line may have more;
* assumptions that were used without being said are named: lines are sequences
  of words and not empty, digits are digits, the word "all" is no expression,
  the names of an `ApplyFileSpec` are names; and `Config!TypeOK` says which
  arguments an open tag can have instead of any string.

## 5. Where code and documents disagree

Shown by runs:

* `NoSharing` (`SftpWho.c:110`): two joining processes that test the same slot
  before either stores its status both take it.
* `StaleMeansDead` (`SftpWho.c:140`): only a tick refreshes a slot, so a session
  that transfers without a pause for 60 seconds is taken for dead and its slot
  given to another.
* `OverwriteDenied` (`Sftp.c:373`): `DisableOverwrite` refuses only to append.
* `JoinSpares` (`SftpWho.c:97`): a process that has failed to create a segment
  under one key erases the segment it finds under the next, and with it the
  records of all sessions: where another build has left a smaller segment under
  the first key, each new connection empties the table.

Met while modelling:

* the session table: a slot that keeps flag bits without a status is lost
  (`main.c:294`); `sftp-kill` prints pid 0 for a slot that is not filled yet, and
  its `kill -HUP 0` ends itself and a `fullstop` half way (`SftpWho/Main.c`,
  `sftp-kill`); `SftpWhoDeleteStructs` reports success when it found no segment;
* `MaxOpenFilesForUser` and its companions count sessions, not files
  (`SftpServer.c:208`), and a file open for reading and writing counts as read;
* the loop: `ConnectionMaxLife` counts ticks and does not end a session that
  never has one (`Sftp.c:1138`); an administrator whose upload quota is used up
  by its INIT never reads again (`Sftp.c:1170`); the clock is the time of day,
  and set back it delays ticks (`Sftp.c:1072`);
* framing: a request shorter than its handler reads, which "header too small"
  and "message not complete" (`Sftp.c:867`, 880) suggest is not possible, takes
  bytes of the next one, as the getters know only the end of the buffer
  (`Buffer.c:194-301`), and `BufferGetHandle` passes even that, after which the
  unsigned difference of line 867 wraps; what comes after is misread. One of length
  0 takes the first byte of the next as its type (`Sftp.c:886`). A length of 2^31
  or more is negative, passes the test for "message too long" (`Sftp.c:874`) and
  is waited for at line 880 while the session goes on. `bIn` grows while a client
  never pauses (`Sftp.c:869`);
* requests: a SETSTAT of a refused name is answered with OK (`Sftp.c:641`); the
  disk usage requests free a path they were refused (`SftpExt.c:73`);
  `DisableWriteFile` ("deny to the connected user to write files",
  `doc/source/tags/childs/disablewritefile.rst:8`) does not stop an open for
  reading that truncates, as `Sftp.c:374` tests only O_WRONLY and O_RDWR: the file
  is emptied;
  `TRUNCATE_EXISTING` never truncates (`Util.c:159`);
* configuration: of nested tags only the innermost decides; a tag without
  argument pushes nothing but its end pops (`parsing.c:105`); a tag of an
  unknown name applies to everybody; rules before the Order of a filter, and "all",
  are forgotten (`FileSpec.c:104`); `DefaultRights` with one value keeps an
  earlier value for directories; 4096m is 0;
* ranges: both forms of `doc/source/tags/parents/iprange.rst:16-17`, `IP/CIDR` and
  `IP/CIDR-IP/CIDR`, are not read as such, since TagParseRangeIP takes a size for
  one more byte (`parsing.c:208-222`). Of its examples, `192.168.0.1/24` (line 35)
  becomes 192.168.0.1-24.168.0.1 and is for 192.168.0.1, and for every
  x.168.0.1 with x above 191 or up to 24; `192.168.0.100/24-192.168.0.200/24`
  (line 29) becomes 192.168.0.100-24.192.168.0 and is for nobody, as its third
  byte would have to be in 0-168, an interval across 127, which is empty because
  bytes are compared as signed characters (`user.c:134`). Its last byte and size
  become one number, 20024 here, which is cut to a byte and then to 32; where it
  comes to 0 (`b` ending in 10, 74, 138 or 202 with a size of 24) the range is for
  everybody. The form `a-b` of `sftp_config:68` is read byte by byte, as written
  when the ends differ in the last one only and not across 127;
* administration: `sftp-admin` compares the argument of `server` with its blank
  still in front, so that `server start` stops the server
  (`SftpAdmin/Main.c:329`); after an `open()` that fails the configuration is
  missing until somebody renames the backup, and meanwhile, as during every
  replacement, connections start under `CONFIG_FILE2` if there is one and not at
  all otherwise (`Admin.c:183`, `conf.c:141`). At such a time `sftp-who` ends
  before it lists anybody (`SftpWho/Main.c:149`), so that `sftp-kill all`, and a
  `sftp-state stop` or `fullstop`, tell nobody to end. A short write counts as success (`Admin.c:199`); an empty file
  read during a replacement is a session without restrictions (`conf.c:141`);
* shares: `GlobalDownload` is not applied to a session without a limit of its own
  that never pauses, as it is taken only at a tick (`Sftp.c:1122`).

## 6. Not modelled

* the log (`Log.c`): a descriptor and a flag; nothing depends on it;
* of the administration: creating, changing and listing users (system commands
  with fixed arguments), reading the log and the configuration, the ring of load
  samples (`Stats.c`), which is written by an administrator's process and read by
  the same one;
* of `sftp-admin`, what encodes numbers and prints answers; of the scripts,
  what installs and checks;
* of the file operations: listing directories, real paths, reading links,
  hashing, which change nothing, and the resolution of path strings against the
  virtual root, which is a function on characters;
* of the configuration: cutting lines, environment variables, the user databases;
* identity changes, chroot and the creation of the home at the start
  (`DoInitUser`): a straight line of system calls with nothing to interleave;
* character sets, time and name formats, access lists (`Encode.c`, `Encoding.c`,
  `GetUsersInfos.c`, `Access.c`).

## 7. Plan

What is left, in this order:

1. `Listing`: pages of a directory that changes, handles that go by path;
2. the resolution of paths as sequences of names, with "..", links and the
   virtual root, in front of `Tree`;
3. the ring of load samples, with its reading across the end.
