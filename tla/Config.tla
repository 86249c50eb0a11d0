------------------------------- MODULE Config -------------------------------
(***************************************************************************)
(* How a process that starts reads its configuration (Core/conf.c,         *)
(* Core/parsing.c, Core/hash.c, Core/user.c): line by line, from the first *)
(* file that can be opened and from the files this one includes, into a    *)
(* table of parameters and a list of filters.                              *)
(*                                                                         *)
(* Nothing is assumed of the files: fgets() returns any line, or the end   *)
(* of the file. The stack of tags is one for all files, while each file    *)
(* counts its own tags and knows whether its lines are active.             *)
(*                                                                         *)
(* A line is a tag with a name and an argument, a tag without argument, a  *)
(* closing tag, a line that begins with < and does not end with >, or the  *)
(* words ParseCutString makes of it. (Blank lines and comments are gone.)  *)
(***************************************************************************)
EXTENDS Integers, Sequences, FiniteSets, FileSpec, IpRange

CONSTANTS
  Whos,          \* who may be connecting: [user, groups, ip, host, port]
  Addresses,     \* addresses compared with ranges
  Tags,          \* tags with an argument: [type, name, nums]
  Words,         \* the words of the other lines
  Params,        \* names of confParams
  KindOf,        \* their types
  Digits,        \* the digits and the letter of a word that is a number
  Resolve,       \* the address of the name of a virtual host
  ProfilesIn,    \* the names of an ApplyFileSpec, between its commas
  MaxInclusions, \* files that are open at once (10)
  MaxTags,       \* bound: tags open at once in a file
  MaxWeight,     \* bound: files, tags, parameters, filters and their lines
  None

Kinds == {"STRING", "STRING_MAYBE_EMPTY", "INT", "BOOLEAN", "SPEED", "TIME",
          "MODE", "FILE_AND_DIR", "DEPRECATED"}
TagTypes == {"GROUP", "USER", "RANGEIP", "VIRTUALHOST", "FILESPEC", "DEFAULT"}

\* FILE_AND_DIR parameters give two more keys.
Keys == Params \X {"Name", "File", "Directory"}

ASSUME KindsAssumption ==
  /\ KindOf \in [Params -> Kinds]
  /\ "Include" \notin Params
  /\ "ApplyFileSpec" \in Params /\ KindOf["ApplyFileSpec"] = "STRING"
ASSUME TagsAssumption ==
  \A t \in Tags : /\ t.type \in TagTypes
                  /\ t.type = "RANGEIP" => t.nums \in Seq(Byte)
                  /\ t.type = "VIRTUALHOST" => t.nums \in Seq(Nat)
ASSUME AddressesAssumption == \A ip \in Addresses : ip \in Seq(Byte) /\ Len(ip) = 4
ASSUME WordsAssumption ==
  \A w \in Words : /\ w \in Seq(STRING) /\ w # <<>>
                   /\ \A i \in 1 .. Len(w) : w[i] # None
ASSUME DigitsAssumption ==
  \A w \in Words : \A i \in 2 .. Len(w) :
    w[1] \in Params /\ KindOf[w[1]] \in {"INT", "SPEED", "TIME", "MODE", "FILE_AND_DIR"} =>
      Digits[w[i]].digits \in Seq(0 .. 9)
ASSUME ProfilesAssumption ==
  \A w \in Words : w[1] = "ApplyFileSpec" /\ Len(w) > 1 => ProfilesIn[w[2]] \in Seq(STRING)
ASSUME InclusionsAssumption == MaxInclusions \in Nat \ {0}
ASSUME BoundAssumption == MaxTags \in Nat

VARIABLES
  who,        \* who is connecting
  status,     \* how far load_config is
  tried,      \* the configuration file that is tried: custom, CONFIG_FILE, CONFIG_FILE2
  files,      \* the files being read, each included by the one before
  tags,       \* _tags, the innermost last
  hash,       \* _hash
  allSpecs,   \* _allSpecs
  selected,   \* _selectedSpecs
  written     \* what the lines say, for the properties

vars == <<who, status, tried, files, tags, hash, allSpecs, selected, written>>

-----------------------------------------------------------------------------
(* The table of parameters.                                                *)

Absent == [set |-> FALSE, str |-> None, num |-> 0]
EmptyHash == [k \in Keys |-> Absent]

\* An element that exists is changed in place, so _last_key, which hash_get
\* tries first, never changes an answer. A NULL string changes nothing.
hash_set(h, k, v) ==
  IF v = None THEN h ELSE [h EXCEPT ![k] = [set |-> TRUE, str |-> v, num |-> h[k].num]]
hash_set_int(h, k, n) == [h EXCEPT ![k] = [set |-> TRUE, str |-> h[k].str, num |-> n]]
hash_get(h, k) == h[k].str

\* The numbers of the configuration: one number and one letter at most, small
\* enough for an int.
Decimal(n, d) == 10 * n + d
Octal(n, d) == 8 * n + d
Converted(kind, w) ==
  LET d == Digits[w]
      n == FoldLeft(Decimal, 0, d.digits)
  IN CASE kind = "BOOLEAN" -> IF w \in {"true", "1"} THEN 1 ELSE 0
       [] kind = "MODE" -> FoldLeft(Octal, 0, d.digits)
       [] kind = "SPEED" ->
            CASE d.letter = "k" -> n * 1024 [] d.letter = "m" -> n * 1024 * 1024 [] OTHER -> n
       [] kind = "TIME" ->
            CASE d.letter = "d" -> n * 86400 [] d.letter = "h" -> n * 3600
              [] d.letter = "m" -> n * 60 [] OTHER -> n
       [] OTHER -> n

\* processLine, but for Include.
processLine(h, w) ==
  LET p == w[1]
      kind == KindOf[p]
      key == <<p, "Name">>
  IN IF p \notin Params \/ (Len(w) = 1 /\ kind # "STRING_MAYBE_EMPTY") THEN h
     ELSE IF kind \in {"STRING", "STRING_MAYBE_EMPTY"}
     THEN hash_set(h, key, IF Len(w) = 1 THEN None ELSE w[2])
     ELSE IF kind = "DEPRECATED" THEN h
     ELSE IF kind = "FILE_AND_DIR"
     THEN LET f == hash_set_int(hash_set_int(h, key, 42), <<p, "File">>, Converted("MODE", w[2]))
          IN IF Len(w) = 2 THEN f
             ELSE hash_set_int(f, <<p, "Directory">>, Converted("MODE", w[3]))
     ELSE hash_set_int(h, key, Converted(kind, w[2]))

-----------------------------------------------------------------------------
(* Tags.                                                                   *)

\* An entry of the stack.
Entry(t) ==
  [type |-> t.type,
   data1 |-> IF t.type = "VIRTUALHOST" /\ t.name # "*" /\ t.name \in DOMAIN Resolve
             THEN Resolve[t.name] ELSE t.name,
   mask |-> IF t.type = "RANGEIP" THEN TagParseRangeIP(t.nums) ELSE <<>>,
   data2 |-> IF t.type = "VIRTUALHOST" /\ t.nums # <<>> THEN t.nums[1] ELSE 0]

is_for_user(w, name) == name = "*" \/ name = w.user
is_for_group(w, name) == name = "*" \/ name \in w.groups
is_for_virtualhost(w, host, port) ==
  /\ host = w.host \/ host = "*"
  /\ w.port = 0 \/ w.port = port

\* Whether the tag of an entry is for the session of w.
IsFor(w, e) ==
  \/ e.type = "USER" /\ is_for_user(w, e.data1)
  \/ e.type = "GROUP" /\ is_for_group(w, e.data1)
  \/ e.type = "RANGEIP" /\ IsForRangeIP(e.mask, w.ip)
  \/ e.type = "VIRTUALHOST" /\ is_for_virtualhost(w, e.data1, e.data2)
  \/ e.type \in {"FILESPEC", "DEFAULT"}

TagIsActive(s) == s = <<>> \/ IsFor(who, Last(s))
TagIsOpen(s, type) == s # <<>> /\ Last(s).type = type

TagParseClose(s) == IF s = <<>> THEN s ELSE Front(s)

-----------------------------------------------------------------------------
(* What the lines say: "now" is the tag that is open in the file being     *)
(* read, "values" the words of the last applicable line for each key,      *)
(* "defined" the filters with their lines. Nothing is said any more when   *)
(* a file has a tag inside another one, which the documentation has not.   *)

NoTag == [type |-> "none"]
Nested == [nested |-> TRUE]
NothingSaid == [nested |-> FALSE, values |-> [k \in Keys |-> None], defined |-> <<>>]

\* The words a line gives to a key.
GivenTo(w, k) ==
  LET kind == KindOf[k[1]]
  IN IF \/ w[1] # k[1] \/ Len(w) = 1 \/ kind = "DEPRECATED"
        \/ k[2] # "Name" /\ kind # "FILE_AND_DIR"
        \/ k[2] = "Directory" /\ Len(w) = 2
     THEN None
     ELSE IF k[2] = "Directory" THEN w[3] ELSE w[2]

SpecNames == {"Order", "UseFullPath", "Allow", "Deny"}
TextWith(d, w) == [d EXCEPT !.lines = Append(@, w)]
WithLine(defined, w) == [defined EXCEPT ![1] = TextWith(@, w)]
SaysWord(w, tag) ==
  IF written.nested THEN written
  ELSE IF tag.type = "FILESPEC"
  THEN IF w[1] \notin SpecNames \/ Len(w) = 1 THEN written
       ELSE [written EXCEPT !.defined = WithLine(@, w)]
  ELSE IF tag # NoTag /\ ~IsFor(who, tag) THEN written
  ELSE [written EXCEPT !.values =
          [k \in Keys |-> IF GivenTo(w, k) = None THEN @[k] ELSE GivenTo(w, k)]]

SaysTag(tag, new) ==
  IF written.nested \/ tag # NoTag THEN Nested
  ELSE IF new.type = "FILESPEC"
  THEN [written EXCEPT !.defined = <<Text0(new.data1)>> \o @]
  ELSE written

-----------------------------------------------------------------------------
(* Files.                                                                  *)

NewFile == [opened |-> 0, active |-> TRUE, now |-> NoTag]

Init ==
  /\ who \in Whos
  /\ status = "start"
  /\ tried = 1
  /\ files = <<>> /\ tags = <<>>
  /\ hash = EmptyHash
  /\ allSpecs = <<>> /\ selected = <<>>
  /\ written = NothingSaid

\* exit(2), with a message: nothing is left of the process.
Exit ==
  /\ status' = "exited" /\ tried' = 1
  /\ files' = <<>> /\ tags' = <<>> /\ hash' = EmptyHash /\ allSpecs' = <<>>
  /\ written' = NothingSaid

\* init_user_info knows the user or not; then the files are tried in order.
\* (User, Home, SERVER_IP, SERVER_PORT, CanChangeRights and CanChangeTime are
\* given their first values.)
LoadConfig ==
  /\ status = "start"
  /\ \/ Exit
     \/ status' = "open" /\ UNCHANGED <<tried, files, tags, hash, allSpecs, written>>
  /\ UNCHANGED <<who, selected>>

\* fopen() of a configuration file; there may be no custom one.
OpenConfig ==
  /\ status = "open"
  /\ \/ /\ files' = <<NewFile>> /\ status' = "read" /\ tried' = 1
        /\ UNCHANGED <<tags, hash, allSpecs, written>>
     \/ /\ tried < 3 /\ tried' = tried + 1
        /\ UNCHANGED <<status, files, tags, hash, allSpecs, written>>
     \/ tried = 3 /\ Exit
  /\ UNCHANGED <<who, selected>>

Current == Last(files)
\* Mutation of AfterTag: whether lines are active is seen at the end of tags.
AfterTagKept(n, s, tag) ==
  files' = [files EXCEPT ![Len(files)] =
              [opened |-> n, active |-> IF tag = NoTag THEN TagIsActive(s) ELSE @.active,
               now |-> tag]]

\* The file being read after a tag: what it counts, whether its lines are
\* active, and the tag that is open in it.
AfterTag(n, s, tag) ==
  files' = [files EXCEPT ![Len(files)] =
              [opened |-> n, active |-> TagIsActive(s), now |-> tag]]

ReadLine ==
  /\ status = "read"
  /\ UNCHANGED <<who, selected>>
Keep == UNCHANGED <<status, tried>>

\* The bound on what the lines read so far have left behind.
Rules(sum, d) == sum + Len(d.lines)
Expressions(sum, d) == sum + Len(d.expressions)
Weight ==
  Len(files) + Len(tags) + Len(allSpecs) + Cardinality({p \in Params : hash[<<p, "Name">>].set})
  + (IF written.nested THEN 2 + FoldLeft(Expressions, 0, allSpecs)
     ELSE FoldLeft(Rules, 0, written.defined))
Room == Weight < MaxWeight

BareEntry == [type |-> "DEFAULT", data1 |-> "all", mask |-> <<>>, data2 |-> 0]

\* <Name argument>
OpenTag(t) ==
  /\ ReadLine /\ Room
  /\ Current.opened < MaxTags
  /\ tags' = Append(tags, Entry(t))
  /\ allSpecs' = IF t.type = "FILESPEC" THEN FileSpecEnter(allSpecs, t.name) ELSE allSpecs
  /\ AfterTag(Current.opened + 1, tags', Entry(t))
  /\ written' = SaysTag(Current.now, Entry(t))
  /\ UNCHANGED hash /\ Keep

\* <Name>: it is counted, and nothing is pushed.
OpenBareTag ==
  /\ ReadLine
  /\ Current.opened < MaxTags
  /\ AfterTag(Current.opened + 1, tags, BareEntry)
  /\ written' = SaysTag(Current.now, BareEntry)
  /\ UNCHANGED <<tags, hash, allSpecs>> /\ Keep

\* </Name>, whatever the name.
CloseTag ==
  /\ ReadLine
  /\ IF Current.opened = 0 THEN Exit
     ELSE /\ tags' = TagParseClose(tags)
          /\ AfterTag(Current.opened - 1, tags', NoTag)
          /\ UNCHANGED <<hash, allSpecs, written>> /\ Keep

\* A tag that does not end with >.
BadTag == ReadLine /\ Exit

\* A line of an inactive tag is skipped.
SkipWords ==
  /\ ReadLine
  /\ ~Current.active
  /\ \E w \in Words : written' = SaysWord(w, Current.now)
  /\ UNCHANGED <<files, tags, hash, allSpecs>> /\ Keep

Active == ReadLine /\ Current.active

\* A line between the tags of a filter.
SpecWords(w) ==
  /\ Active /\ TagIsOpen(tags, "FILESPEC") /\ Room
  /\ allSpecs' = FileSpecParse(allSpecs, w)
  /\ written' = SaysWord(w, Current.now)
  /\ UNCHANGED <<files, tags, hash>> /\ Keep

\* Any other one: a parameter, or a property that is not recognized.
ParamWords(w) ==
  /\ Active /\ ~TagIsOpen(tags, "FILESPEC") /\ Room
  /\ hash' = processLine(hash, w)
  /\ written' = SaysWord(w, Current.now)
  /\ UNCHANGED <<files, tags, allSpecs>> /\ Keep

\* Mutation of Include: one file too many.
IncludeOneMore ==
  /\ Active /\ ~TagIsOpen(tags, "FILESPEC") /\ Room
  /\ \/ Len(files) <= MaxInclusions /\ files' = Append(files, NewFile)
     \/ UNCHANGED files
  /\ UNCHANGED <<tags, hash, allSpecs, written>> /\ Keep

\* Include: beyond MaxInclusions, or when it cannot be opened, the file is
\* passed over. Its lines are read before the next one of this file.
Include ==
  /\ Active /\ ~TagIsOpen(tags, "FILESPEC") /\ Room
  /\ \/ Len(files) < MaxInclusions /\ files' = Append(files, NewFile)
     \/ UNCHANGED files
  /\ UNCHANGED <<tags, hash, allSpecs, written>> /\ Keep

\* fgets() returns NULL.
EndOfFile ==
  /\ status = "read"
  /\ IF Current.opened # 0 THEN Exit
     ELSE /\ files' = Front(files)
          /\ status' = IF Len(files) = 1 THEN "loaded" ELSE status
          /\ UNCHANGED <<tried, tags, hash, allSpecs, written>>
  /\ UNCHANGED <<who, selected>>

\* The end of main: the filters are selected, and the table is deleted.
Settle ==
  /\ status = "loaded"
  /\ selected' = IF hash_get(hash, <<"ApplyFileSpec", "Name">>) = None THEN <<>>
                 ELSE FileSpecActiveProfils(allSpecs, ProfilesIn[hash_get(hash, <<"ApplyFileSpec", "Name">>)])
  /\ status' = "ready"
  /\ hash' = EmptyHash
  /\ UNCHANGED <<who, tried, files, tags, allSpecs, written>>

Next ==
  \/ LoadConfig \/ OpenConfig
  \/ (\E t \in Tags : OpenTag(t)) \/ OpenBareTag \/ CloseTag \/ BadTag
  \/ SkipWords \/ (\E w \in Words : SpecWords(w) \/ ParamWords(w)) \/ Include
  \/ EndOfFile \/ Settle

Spec == Init /\ [][Next]_vars

-----------------------------------------------------------------------------
(* Properties.                                                             *)

Arguments ==
  {"all"} \cup {t.name : t \in Tags} \cup {Resolve[h] : h \in DOMAIN Resolve}
Entries == [type : TagTypes, data1 : Arguments, mask : Masks \cup {<<>>}, data2 : Nat]
Elements == [set : BOOLEAN, str : STRING \cup {None}, num : Nat]
Statuses == {"start", "open", "read", "loaded", "ready", "exited"}

TypeOK ==
  /\ who \in Whos
  /\ status \in Statuses
  /\ tried \in 1 .. 3
  /\ status = "read" => files # <<>>
  /\ Len(files) <= MaxInclusions
  /\ \A i \in DOMAIN files :
       /\ files[i].opened \in 0 .. MaxTags
       /\ files[i].active \in BOOLEAN
       /\ files[i].now # NoTag => files[i].now \in Entries
  /\ \A i \in DOMAIN tags : tags[i] \in Entries
  /\ hash \in [Keys -> Elements]

\* What the table has for a key of which v was said last.
SaidElement(k, v) ==
  LET kind == KindOf[k[1]]
  IN IF v = None THEN Absent
     ELSE IF k[2] # "Name" THEN [set |-> TRUE, str |-> None, num |-> Converted("MODE", v)]
     ELSE IF kind \in {"STRING", "STRING_MAYBE_EMPTY"} THEN [set |-> TRUE, str |-> v, num |-> 0]
     ELSE [set |-> TRUE, str |-> None,
           num |-> IF kind = "FILE_AND_DIR" THEN 42 ELSE Converted(kind, v)]

\* A parameter has the value of the last line that gives it one, among the
\* lines outside tags and those of the tags that are for the session, in all
\* the files that were included: the stack shared by the files, from which
\* tags without argument take what they did not put, never shows it
\* (load_config_file, TagIsActive, TagParse, processLine).
ValueIsLastApplicable ==
  status \in {"read", "loaded"} /\ ~written.nested =>
    \A k \in Keys : hash[k] = SaidElement(k, written.values[k])

\* The session may access the files that every filter it applies allows, as
\* the lines of the last filter of this name say, if they are tidy
\* (FileSpecParse, FileSpecActiveProfils, FileSpecCheckRights).
LastDefined(name) ==
  {d \in {written.defined[i] : i \in DOMAIN written.defined} :
     \E i \in DOMAIN written.defined :
       /\ written.defined[i] = d /\ d.name = name
       /\ \A j \in 1 .. i - 1 : written.defined[j].name # name}
Applied ==
  IF written.values[<<"ApplyFileSpec", "Name">>] = None THEN {}
  ELSE LET names == ProfilesIn[written.values[<<"ApplyFileSpec", "Name">>]]
       IN UNION {LastDefined(names[i]) : i \in DOMAIN names}
FilterAsWritten ==
  status = "ready" /\ ~written.nested /\ (\A d \in Applied : Tidy(d)) =>
    \A t \in Targets :
      FileSpecCheckRights(selected, t) <=> \A d \in Applied : ~TextRefuses(d, t)

\* No tag stays on the stack, whatever tags were closed (TagParseClose).
NothingLeftOpen == status \in {"loaded", "ready"} => tags = <<>>

\* A range of addresses on the stack is for the addresses that lie between
\* its ends byte by byte. For a-b the ends are those that are written; for the
\* forms of doc/source/tags/parents/iprange.rst:16-17 they are others than it
\* has in mind: 192.168.0.1/24 is also for 200.168.0.1, and its first example,
\* 192.168.0.100/24-192.168.0.200/24, is for nobody (TagParseRangeIP,
\* is_for_rangeip).
RangesMatch ==
  \A t \in Tags : t.type = "RANGEIP" /\ Documented(t.nums) =>
    \A i \in DOMAIN tags : tags[i] = Entry(t) =>
      \A ip \in Addresses : IsForRangeIP(tags[i].mask, ip) <=> ReadAs(t.nums, ip)
==============================================================================
