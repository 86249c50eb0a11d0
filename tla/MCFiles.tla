------------------------------ MODULE MCFiles ------------------------------
(* Instances of Files for TLC: two names, the first of which may be a      *)
(* directory that holds the second, and two inodes. *)
EXTENDS Files, TLC

CONSTANTS a, b, o1, o2, rd, ex

TwoNames == {a, b}
TwoObjects == {o1, o2}
TwoBits == {rd, ex}
ThreePaths == {<<a>>, <<b>>, <<a, b>>}
HiddenPath == {<<a, b>>}
Readable == {rd}
EnterAsked == {{ex}}
ReadOrWrite == {{"READ"}, {"WRITE"}}
TruncOnly == {{"write", "trunc"}}
OneOrAll == {{"size"}, {"rights"}, {"size", "rights", "owner"}}
FreeOrBound == {{}, Tags}
NoOverwrite == {{"OVERWRITE"}}
Inodes == Permutations(TwoObjects)
=============================================================================
