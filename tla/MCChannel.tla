----------------------------- MODULE MCChannel ------------------------------
\* A client that begins with an INIT or not. "manage" is known to administrators
\* only. Apart from plain requests there is one too long (Longest is 3), one of
\* which the handler reads more than it has, and one whose length is negative
\* as an int (Half is 5).
EXTENDS Channel

Plain(kind, len) == [kind |-> kind, len |-> len, sent |-> len, needs |-> len]

MCRequests ==
  {Plain("init", 2), Plain("manager", 2), Plain("open", 3), Plain("manage", 4),
   [Plain("open", 1) EXCEPT !.needs = 3],
   [kind |-> "manage", len |-> 6, sent |-> 1, needs |-> 1]}
=============================================================================
