----------------------------- MODULE FileSpec -----------------------------
(***************************************************************************)
(* The filters on files of a configuration (Core/FileSpec.c): the list of  *)
(* the filters that were defined, the last one first, the list of those    *)
(* that apply to the session, and what they refuse. A regular expression   *)
(* is a name; CompiledAs says what the ones that can be compiled match.    *)
(***************************************************************************)
EXTENDS Integers, Sequences, SequencesExt

CONSTANTS
  Targets,     \* files: [full : .., path : ..], the full path and the name
  CompiledAs   \* what each regular expression matches, full paths or names

Regexes == DOMAIN CompiledAs

\* The word "all" is never compiled.
ASSUME AllAssumption == "all" \notin Regexes

Spec0(name) ==
  [name |-> name, type |-> "DENY_ALLOW", useFullPath |-> FALSE, expressions |-> <<>>]

\* Mutation of FileSpecEnter: behind the others.
FileSpecEnterLast(all, name) == Append(all, Spec0(name))

FileSpecEnter(all, name) == <<Spec0(name)>> \o all

\* What a rule does to the filter s. The rules that the type of the filter
\* has no use for are forgotten, as well as "all".
IsRule(s, w) ==
  /\ w[2] # "all"
  /\ s.type = "ALLOW_DENY" => w[1] = "Allow"
  /\ s.type = "DENY_ALLOW" => w[1] = "Deny"

\* Mutation of Ruled: the rules that do not fit the order are kept.
RuledAny(s, w) ==
  IF w[1] = "Order"
  THEN [s EXCEPT !.type = IF w[2] = "AllowDeny" THEN "ALLOW_DENY" ELSE @]
  ELSE IF w[1] = "UseFullPath"
  THEN [s EXCEPT !.useFullPath = @ \/ w[2] = "true"]
  ELSE IF w[2] \in Regexes THEN [s EXCEPT !.expressions = Append(@, w[2])]
  ELSE s

Ruled(s, w) ==
  IF w[1] = "Order"
  THEN [s EXCEPT !.type = IF w[2] = "AllowDeny" THEN "ALLOW_DENY" ELSE @]
  ELSE IF w[1] = "UseFullPath"
  THEN [s EXCEPT !.useFullPath = @ \/ w[2] = "true"]
  ELSE IF IsRule(s, w) /\ w[2] \in Regexes
  THEN [s EXCEPT !.expressions = Append(@, w[2])]
  ELSE s

\* The words of a line go to the filter that was defined last.
FileSpecParse(all, w) ==
  IF all = <<>> \/ Len(w) < 2 THEN all ELSE [all EXCEPT ![1] = Ruled(@, w)]

\* The filter that was defined last under a name; unknown names are ignored.
FileSpecActiveProfil(all, name, selected) ==
  LET found == {i \in DOMAIN all : all[i].name = name}
  IN IF found = {} THEN selected
     ELSE <<all[CHOOSE i \in found : \A j \in found : i <= j]>> \o selected

\* The names are taken from the last one to the first one.
FileSpecActiveProfils(all, names) ==
  LET ActiveProfil(name, selected) == FileSpecActiveProfil(all, name, selected)
  IN FoldRight(ActiveProfil, names, <<>>)

\* What one filter says of a file.
Matched(s, t) ==
  \E i \in DOMAIN s.expressions :
    (IF s.useFullPath THEN t.full ELSE t.path) \in CompiledAs[s.expressions[i]]

Refuses(s, t) ==
  \/ s.type = "ALLOW_DENY" /\ s.expressions # <<>> /\ ~Matched(s, t)
  \/ s.type = "DENY_ALLOW" /\ (s.expressions = <<>> \/ Matched(s, t))

\* Every filter that applies has its say.
FileSpecCheckRights(selected, t) == \A i \in DOMAIN selected : ~Refuses(selected[i], t)

-----------------------------------------------------------------------------
(* What a filter means, from the lines between its tags: it refuses what   *)
(* a Deny line matches, or, with Order AllowDeny, what no Allow line does. *)
(* A filter is tidy when Order and UseFullPath come once at most, before   *)
(* the rules, and when it has a rule of its kind.                          *)

Text0(name) == [name |-> name, lines |-> <<>>]

TextOrder(d) ==
  IF \E i \in DOMAIN d.lines : d.lines[i][1] = "Order" /\ d.lines[i][2] = "AllowDeny"
  THEN "Allow" ELSE "Deny"
TextFull(d) ==
  \E i \in DOMAIN d.lines : d.lines[i][1] = "UseFullPath" /\ d.lines[i][2] = "true"
TextRules(d) ==
  {d.lines[i][2] : i \in {j \in DOMAIN d.lines : d.lines[j][1] = TextOrder(d)}} \cap Regexes

Tidy(d) ==
  /\ \A i, j \in DOMAIN d.lines :
       d.lines[i][1] \in {"Order", "UseFullPath"} /\ j < i =>
         d.lines[j][1] \in {"Order", "UseFullPath"} \ {d.lines[i][1]}
  /\ TextRules(d) # {}

TextRefuses(d, t) ==
  LET matched == \E r \in TextRules(d) :
                   (IF TextFull(d) THEN t.full ELSE t.path) \in CompiledAs[r]
  IN IF TextOrder(d) = "Allow" THEN ~matched ELSE matched
==============================================================================
