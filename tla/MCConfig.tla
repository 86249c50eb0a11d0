------------------------------ MODULE MCConfig ------------------------------
(* An instance of Config for TLC. *)
EXTENDS Config, TLC

Tag(type, name, nums) == [type |-> type, name |-> name, nums |-> nums]

Bob == [user |-> "bob", groups |-> {"ftp"}, ip |-> <<10, 0, 0, 200>>,
        host |-> "10.0.0.1", port |-> 22]
OnlyBob == {Bob}

Near == {<<10, 0, 0, n>> : n \in {0, 7, 127, 128, 129, 130, 199, 200, 201, 255}}
SomeAddresses ==
  Near \cup {<<10, 0, 1, 200>>, <<10, 200, 0, 200>>, <<192, 168, 0, 1>>, <<192, 168, 0, 2>>,
             <<200, 168, 0, 1>>, <<24, 168, 0, 1>>, <<25, 168, 0, 1>>, <<192, 168, 0, 150>>}

\* The last address, the group and the port are not Bob's.
SomeTags ==
  {Tag("USER", "bob", <<>>), Tag("GROUP", "admin", <<>>),
   Tag("VIRTUALHOST", "a.org", <<2222>>),
   Tag("RANGEIP", "", <<10, 0, 0, 130, 10, 0, 0, 200>>),
   Tag("RANGEIP", "", <<192, 168, 0, 1, 24>>),
   Tag("RANGEIP", "", <<192, 168, 0, 100, 24, 192, 168, 0, 200, 24>>),
   Tag("FILESPEC", "A", <<>>), Tag("FILESPEC", "B", <<>>)}

Hosts == [h \in {"a.org"} |-> "10.0.0.1"]

Types == [p \in {"Download", "DefaultRights", "ExpireDate", "ApplyFileSpec"} |->
            CASE p = "Download" -> "SPEED"
              [] p = "DefaultRights" -> "FILE_AND_DIR"
              [] p = "ExpireDate" -> "STRING_MAYBE_EMPTY"
              [] p = "ApplyFileSpec" -> "STRING"]
Names == DOMAIN Types

SomeWords ==
  {<<"Download", "5k">>, <<"Download", "0">>, <<"DefaultRights", "0640">>,
   <<"DefaultRights", "0600", "0700">>, <<"ExpireDate">>,
   <<"ApplyFileSpec", "A,B">>, <<"Include", "more">>,
   <<"Order", "AllowDeny">>, <<"UseFullPath", "true">>,
   <<"Deny", "exe">>, <<"Allow", "data">>, <<"Allow", "all">>}

Numbers ==
  [w \in {"5k", "0", "0640", "0600", "0700"} |->
     CASE w = "5k" -> [digits |-> <<5>>, letter |-> "k"]
       [] w = "0" -> [digits |-> <<0>>, letter |-> ""]
       [] w = "0640" -> [digits |-> <<0, 6, 4, 0>>, letter |-> ""]
       [] w = "0600" -> [digits |-> <<0, 6, 0, 0>>, letter |-> ""]
       [] w = "0700" -> [digits |-> <<0, 7, 0, 0>>, letter |-> ""]]

Lists == [w \in {"A,B"} |-> <<"A", "B">>]

Files == {[full |-> "/home/x.exe", path |-> "x.exe"], [full |-> "/data/y", path |-> "y"]}
Compiled == [r \in {"exe", "data"} |->
                  IF r = "exe" THEN {"x.exe", "/home/x.exe"} ELSE {"/data/y"}]
==============================================================================
