----------------------------- MODULE ConfigFile -----------------------------
(***************************************************************************)
(* The configuration file, which an administrator may replace while the    *)
(* server runs (DoAdminConfigSet) and which every new connection reads.    *)
(*                                                                         *)
(* The old file becomes the backup by rename(), a new one is created under *)
(* its name and written; if that fails the backup is renamed back.  Each   *)
(* of these is a step: connections start, and other administrators replace *)
(* the file, in between.  A name leads to a node (an inode), so that what  *)
(* a process has open may have another name by then, or none.  A text that *)
(* is whole is taken to be a valid configuration.                          *)
(***************************************************************************)
EXTENDS Naturals

CONSTANTS
  Procs,     \* the connections, one process each
  Admins,    \* those of users whose profile says IsAdmin
  Admins2,   \* and those of users whom CONFIG_FILE2 makes administrators
  Nodes,     \* the files there may be at a time, numbered
  MaxOrders  \* how many orders are given to the server (a bound)

ASSUME ProcsAssumption == Admins \subseteq Procs /\ Admins2 \subseteq Procs
ASSUME NodesAssumption == Nodes \subseteq Nat \ {0} /\ 1 \in Nodes
ASSUME OrdersAssumption == MaxOrders \in Nat

VARIABLES
  conf,   \* the node named CONFIG_FILE, NoNode if there is none
  bak,    \* the node named CONFIG_FILE".bak"
  text,   \* what each node holds: whose text it is, and how much of it
  fd,     \* the node an administrator has open to write
  orders, \* orders given: here, replacements begun
  acked,  \* whose text was acknowledged last
  harm,   \* history: what has happened that the code does not guard against
  pc,     \* where each process is
  cfg,    \* what each process has read
  admin   \* whether it found itself an administrator there

nodeVars == <<conf, bak, text, fd, acked, harm>>
fileVars == <<nodeVars, orders>>
readVars == <<cfg, admin>>

NoNode == 0
Original == "original"     \* who wrote the file that was there first
Texts == [by : Procs \cup {Original}, part : {"empty", "cut", "whole"}]
Blank(p) == [by |-> p, part |-> "empty"]
Setting == {p \in Procs : pc[p] \in {"backed", "created", "failed"}}
Harms == {"overlap", "cut", "missing"}
Readings == {"unread", "expected", "part", "other"}
Ordered == orders < MaxOrders /\ orders' = orders + 1
Whole(n) == n # NoNode /\ text[n].part = "whole"
Goto(p, l) == pc' = [pc EXCEPT ![p] = l]

FilesTypeOK ==
  /\ {conf, bak} \subseteq Nodes \cup {NoNode}
  /\ text \in [Nodes -> Texts]
  /\ fd \in [Procs -> Nodes \cup {NoNode}]
  /\ orders \in 0 .. MaxOrders
  /\ acked \in Procs \cup {Original}
  /\ harm \subseteq Harms
  /\ cfg \in [Procs -> Readings]
  /\ admin \in [Procs -> BOOLEAN]

FilesInit ==
  /\ conf = 1
  /\ bak = NoNode
  /\ text = [n \in Nodes |-> [by |-> Original, part |-> "whole"]]
  /\ fd = [p \in Procs |-> NoNode]
  /\ orders = 0
  /\ acked = Original
  /\ harm = {}
  /\ cfg = [p \in Procs |-> "unread"]
  /\ admin = [p \in Procs |-> FALSE]

-----------------------------------------------------------------------------
(* DoAdminConfigSet                                                        *)

\* A node without a name and open nowhere; the least, as they are alike.
Unused(n) == n \notin {conf, bak} /\ \A p \in Procs : fd[p] # n
NewNode(n) == Unused(n) /\ \A m \in Nodes : m < n => ~Unused(m)

\* rename(CONFIG_FILE, CONFIG_FILE".bak"): the backup before it is lost.
BackupConfig(p) ==
  /\ pc[p] = "admin" /\ Ordered
  /\ harm' = IF Setting = {} THEN harm ELSE harm \cup {"overlap"}
  /\ \/ /\ conf # NoNode
        /\ bak' = conf /\ conf' = NoNode
        /\ Goto(p, "backed")
     \/ UNCHANGED <<conf, bak, pc>>           \* it fails, and so the request
  /\ UNCHANGED <<text, fd, acked, readVars>>

\* open(CONFIG_FILE, O_WRONLY | O_TRUNC | O_CREAT). When it fails nothing
\* puts the backup back.
CreateConfig(p) ==
  /\ pc[p] = "backed"
  /\ \/ /\ Goto(p, "admin")
        /\ harm' = harm \cup {"missing"}
        /\ UNCHANGED <<conf, text, fd>>
     \/ \E n \in Nodes :
          /\ IF conf = NoNode THEN NewNode(n) ELSE n = conf
          /\ conf' = n
          /\ text' = [text EXCEPT ![n] = Blank(p)]
          /\ fd' = [fd EXCEPT ![p] = n]
          /\ Goto(p, "created")
          /\ UNCHANGED harm
  /\ UNCHANGED <<bak, orders, acked, readVars>>

\* fchown(), then write(): any count but -1 is a success. Over the text of
\* another process the new one may be the shorter, and leave a rest of it.
Written(p, part) ==
  /\ text' = [text EXCEPT ![fd[p]] = [by |-> p, part |-> part]]
  /\ harm' = IF part = "cut" THEN harm \cup {"cut"} ELSE harm
  /\ acked' = p
  /\ fd' = [fd EXCEPT ![p] = NoNode]
  /\ Goto(p, "admin")

WriteConfig(p) ==
  /\ pc[p] = "created"
  /\ \/ \E part \in {"cut", "whole"} : Written(p, part)
     \/ Goto(p, "failed") /\ UNCHANGED <<text, fd, acked, harm>>
  /\ UNCHANGED <<conf, bak, orders, readVars>>

\* Mutation of RestoreConfig: the request fails and the backup stays one.
RestoreConfigNot(p) ==
  /\ pc[p] = "failed"
  /\ fd' = [fd EXCEPT ![p] = NoNode]
  /\ Goto(p, "admin")
  /\ UNCHANGED <<conf, bak, text, orders, acked, harm, readVars>>

\* fchown() or write() failed: rename(CONFIG_FILE".bak", CONFIG_FILE). Its own
\* failure is only logged, and what was written so far stays.
RestoreConfig(p) ==
  /\ pc[p] = "failed"
  /\ \/ bak # NoNode /\ conf' = bak /\ bak' = NoNode /\ UNCHANGED harm
     \/ harm' = harm \cup {"cut"} /\ UNCHANGED <<conf, bak>>
  /\ fd' = [fd EXCEPT ![p] = NoNode]
  /\ Goto(p, "admin")
  /\ UNCHANGED <<text, orders, acked, readVars>>

\* A process that is killed between these steps leaves them undone.
Abandoned(p) ==
  /\ fd' = [fd EXCEPT ![p] = NoNode]
  /\ harm' = harm \cup (CASE pc[p] \in {"created", "failed"} -> {"cut"}
                          [] pc[p] = "backed" -> {"missing"}
                          [] OTHER -> {})
  /\ UNCHANGED <<conf, bak, text, orders, acked>>

-----------------------------------------------------------------------------
(* load_config of a new connection. One step: fopen() settles which node   *)
(* is read, and what is read there later is no less.                       *)

\* What the process finds itself to be: a text cut short may or may not
\* reach the lines about it.
Finds(p, part) ==
  {a \in BOOLEAN : /\ part = "whole" => a = (p \in Admins)
                   /\ a => p \in Admins /\ part # "empty"}

\* load_config ends the process: there is no file, or what there is of it
\* stops in the middle of a line or a tag.
Unloadable == ~Whole(conf)

\* What is read whole, or while the file is being replaced, is expected.
\* Without the file CONFIG_FILE2 is read, which nobody replaces through the
\* server; it may be there at some times. Without both, exit(2).
ReadConfig(p, next) ==
  /\ pc[p] = "out"
  /\ \/ /\ conf # NoNode
        /\ Goto(p, next)
        /\ cfg' = [cfg EXCEPT ![p] = IF Whole(conf) \/ Setting # {} THEN "expected" ELSE "part"]
        /\ \E a \in Finds(p, text[conf].part) : admin' = [admin EXCEPT ![p] = a]
     \/ /\ conf = NoNode
        /\ Goto(p, next)
        /\ cfg' = [cfg EXCEPT ![p] = IF Setting # {} THEN "expected" ELSE "other"]
        /\ admin' = [admin EXCEPT ![p] = p \in Admins2]
     \/ Unloadable /\ Goto(p, "gone") /\ UNCHANGED readVars
  /\ UNCHANGED fileVars

-----------------------------------------------------------------------------
(* Properties                                                              *)

(* Unless two replacements overlapped, a write was cut short, a process    *)
(* died while it wrote or the backup could not be renamed back, the text   *)
(* acknowledged last is there, whole, at every moment: while it is being   *)
(* replaced under the name of the backup, otherwise as the file, or as the *)
(* backup if there is no file, which takes an open() that failed, or a     *)
(* process that died before it. Any other replacement that failed has      *)
(* changed nothing. (Admin.c 174-222)                                      *)
AckedInForce ==
  harm \subseteq {"missing"} =>
    LET n == IF conf = NoNode \/ Setting # {} THEN bak ELSE conf
    IN  /\ n # NoNode /\ text[n] = [by |-> acked, part |-> "whole"]
        /\ conf = NoNode => Setting # {} \/ "missing" \in harm

(* A session works under a part of a configuration, without the            *)
(* restrictions the rest would give it, only when it started while the     *)
(* file was being replaced or after one of the four events that cut it; it *)
(* works under CONFIG_FILE2, which nobody acknowledged, only when it       *)
(* started while the file was being replaced or after one of all those     *)
(* events, which may leave none. (conf.c 141-148, Admin.c 174-222)         *)
ServedWhole ==
  \A p \in Procs : /\ cfg[p] = "part" => ~(harm \subseteq {"missing"})
                   /\ cfg[p] = "other" => harm # {}
=============================================================================
