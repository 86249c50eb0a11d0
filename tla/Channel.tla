------------------------------ MODULE Channel -------------------------------
(***************************************************************************)
(* The byte streams of one session: bytes arrive in pieces of any size in  *)
(* bIn, DoSFTPProtocol cuts them into requests and serves those that are   *)
(* whole, each handler appends its answer to bOut, and bOut is written in  *)
(* pieces of any size. Both buffers grow, are compacted and shrink.        *)
(*                                                                         *)
(* A byte is <<k, j>>: the j-th byte of the k-th request, or of the k-th   *)
(* answer. A request is a length of Header bytes, then its body, which     *)
(* begins with its type. A handler may read more than its request has: it  *)
(* then takes bytes of the next ones, or passes the end of the buffer, and *)
(* the stream is lost. What the handlers do with files is not here;        *)
(* quotas, signals and time are in SessionLoop.                            *)
(***************************************************************************)
EXTENDS Packets, Sequences, SequencesExt, FiniteSets

CONSTANTS
  Header,       \* the bytes of a length, 4 in the code
  MaxPacket,    \* SSH2_MAX_PACKET, the most one read takes
  Grow,         \* DEFAULT_GROW
  Replies,      \* the lengths of answers
  Rights,       \* "no", "simple" (IsSimpleAdmin) or "full" (IsAdmin)
  MaxRequests,  \* bound: the requests a client sends
  MaxStray      \* the same, and the answers in a lost stream, if one is not sound

ASSUME SizesAssumption ==
  /\ Replies \subseteq Nat \ {0}
  /\ {Header, MaxPacket, MaxRequests, MaxStray} \subseteq Nat \ {0}
  /\ Grow \in Nat /\ Grow >= Header
ASSUME RightsAssumption == Rights \in {"no", "simple", "full"}

VARIABLES
  asked,        \* the requests of the client
  wire,         \* what descriptor 0 holds
  gone,         \* the client has closed its ends
  phase,        \* "wait" in select(), "parse" in DoSFTPProtocol, "over"
  conn,         \* connectionStatus
  bIn, bOut,
  lost,         \* what is left in bIn does not begin with a request
  served,       \* history: how each request was served
  answers,      \* history: the length of each answer
  got           \* what the client has received

vars == <<asked, wire, gone, phase, conn, bIn, bOut, lost, served, answers, got>>

Modes == {"init", "sftp", "simple", "full"}
Bytes == Nat \X Nat
Buffers == [data : Seq(Bytes), read : Nat, size : Nat, fastClean : BOOLEAN]

TypeOK ==
  /\ asked \in Seq(Requests)
  /\ wire \in Seq(Bytes) /\ got \in Seq(Bytes)
  /\ gone \in BOOLEAN
  /\ phase \in {"wait", "parse", "over"}
  /\ conn \in Modes
  /\ bIn \in Buffers /\ bOut \in Buffers
  /\ bOut.read <= Len(bOut.data) /\ bIn.read <= Len(bIn.data) + 1
  /\ lost \in BOOLEAN /\ (~lost => bIn.read <= Len(bIn.data))
  /\ served \in Seq(Modes \cup {"unsupported"})
  /\ answers \in Seq(Replies) /\ Len(answers) = Len(served)

-----------------------------------------------------------------------------
(* Buffers.                                                                *)

BufferNew == [data |-> <<>>, read |-> 0, size |-> Grow, fastClean |-> FALSE]
Unread(b) == Len(b.data) - b.read

\* A read position beyond what was received: one value stands for all.
Past(b) == b.read > Len(b.data)

\* Mutation of Ensured: the capacity is compared before the addition.
EnsuredLate(b, n) == IF Len(b.data) >= b.size THEN [b EXCEPT !.size = @ + n] ELSE b

\* BufferEnsureFreeCapacity.
Ensured(b, n) == IF Len(b.data) + n > b.size THEN [b EXCEPT !.size = @ + n] ELSE b

Stored(b, s) == [b EXCEPT !.data = @ \o s]

\* BufferPutInt32 and BufferPutRawData: each has its own way to grow.
PutInt32(b, s) ==
  Stored(IF Len(b.data) + Len(s) > b.size THEN [b EXCEPT !.size = @ + Grow] ELSE b, s)
PutRawData(b, s) ==
  Stored(IF Len(b.data) + Len(s) > b.size
         THEN [b EXCEPT !.size = Len(b.data) + Len(s) + Grow] ELSE b, s)

\* What BufferClean makes of the size when n bytes are left.
Shrunk(b, n) ==
  LET quarter == b.size \div 4
  IN IF ~b.fastClean /\ n < quarter /\ quarter >= Grow THEN quarter ELSE b.size

\* Mutation of Cleaned: what has been read is forgotten, the rest stays in place.
CleanedInPlace(b) ==
  [b EXCEPT !.data = SubSeq(@, 1, Unread(b)), !.read = 0, !.size = Shrunk(b, Unread(b))]

\* Mutation of Cleaned: the read position stays.
CleanedHalf(b) ==
  IF b.read = 0 THEN b
  ELSE [b EXCEPT !.data = SubSeq(@, b.read + 1, Len(@)), !.size = Shrunk(b, Unread(b))]

\* BufferClean: what is left to read moves to the beginning.
Cleaned(b) ==
  IF b.read = 0 THEN b
  ELSE [b EXCEPT !.data = SubSeq(@, b.read + 1, Len(@)),
                 !.read = 0,
                 !.size = Shrunk(b, Unread(b))]

\* BufferReadData: skips n bytes if there are as many.
Skipped(b, n) == IF b.read + n <= Len(b.data) THEN [b EXCEPT !.read = @ + n] ELSE b

Init ==
  /\ asked = <<>> /\ wire = <<>> /\ gone = FALSE
  /\ phase = "wait" /\ conn = "init"
  /\ bIn = BufferNew /\ bOut = BufferNew /\ lost = FALSE
  /\ served = <<>> /\ answers = <<>> /\ got = <<>>

-----------------------------------------------------------------------------
(* The client.                                                             *)

\* A request whose body has n bytes, or an answer.
BytesOf(k, n) == [j \in 1 .. Header + n |-> <<k, j>>]

Most(requests) ==
  IF \A k \in DOMAIN requests : Sound(requests[k]) THEN MaxRequests ELSE MaxStray

Ask ==
  /\ ~gone /\ phase # "over"
  /\ \E r \in Requests :
       /\ asked' = Append(asked, r)
       /\ Len(asked) < Most(asked')
       /\ wire' = wire \o BytesOf(Len(asked) + 1, r.sent)
  /\ UNCHANGED <<gone, phase, conn, bIn, bOut, lost, served, answers, got>>

\* What the client had not finished to send does not arrive.
Leave ==
  /\ ~gone /\ phase # "over"
  /\ gone' = TRUE
  /\ \E n \in 0 .. Len(wire) : wire' = SubSeq(wire, 1, n)
  /\ UNCHANGED <<asked, phase, conn, bIn, bOut, lost, served, answers, got>>

-----------------------------------------------------------------------------
(* The session.                                                            *)

Receive ==
  /\ phase = "wait"
  /\ \/ /\ wire # <<>>
        /\ \E n \in 1 .. MaxPacket :
             /\ n <= Len(wire)
             /\ bIn' = Stored(Ensured(bIn, MaxPacket), SubSeq(wire, 1, n))
             /\ wire' = SubSeq(wire, n + 1, Len(wire))
        /\ phase' = "parse"
     \/ /\ wire = <<>> /\ gone
        /\ phase' = "over"
        /\ UNCHANGED <<wire, bIn>>
  /\ UNCHANGED <<asked, gone, conn, bOut, lost, served, answers, got>>

\* A write to a client that is gone ends the process (SIGPIPE).
Transmit ==
  /\ phase = "wait"
  /\ Unread(bOut) > 0
  /\ \/ /\ ~gone
        /\ \E n \in 1 .. Unread(bOut) :
             /\ got' = got \o SubSeq(bOut.data, bOut.read + 1, bOut.read + n)
             /\ bOut' = Cleaned([bOut EXCEPT !.read = @ + n])
        /\ UNCHANGED phase
     \/ /\ gone
        /\ phase' = "over"
        /\ UNCHANGED <<got, bOut>>
  /\ UNCHANGED <<asked, wire, gone, conn, bIn, lost, served, answers>>

\* The request whose length is next.
Heads(b) ==
  {k \in DOMAIN asked :
     SubSeq(b.data, b.read + 1, b.read + Header) = [j \in 1 .. Header |-> <<k, j>>]}

\* The length, 0 without one; Aligned: while the stream is not lost there is one.
Number(b) == IF Heads(b) = {} THEN 0 ELSE asked[CHOOSE k \in Heads(b) : TRUE].len

HeaderTooSmall ==
  /\ phase = "parse"
  /\ ~Past(bIn) /\ Unread(bIn) < Header + 1
  /\ bIn' = Cleaned(bIn)
  /\ phase' = "wait"
  /\ UNCHANGED <<asked, wire, gone, conn, bOut, lost, served, answers, got>>

\* A request is not lost and more than a length of it is there.
Headed == phase = "parse" /\ ~lost /\ Unread(bIn) > Header

\* The test is that of an int.
TooLong ==
  /\ Headed
  /\ Signed(Number(bIn)) > Longest
  /\ phase' = "over"
  /\ UNCHANGED <<asked, wire, gone, conn, bIn, bOut, lost, served, answers, got>>

\* This one is unsigned: a negative length is waited for.
Whole == Unread(bIn) > Header /\ Signed(Number(bIn)) <= Longest
           /\ Unread(bIn) - Header >= Number(bIn)

\* Mutation of NotComplete: the length that was read is not given back.
NotCompleteForgets ==
  /\ Headed
  /\ Signed(Number(bIn)) <= Longest
  /\ ~Whole
  /\ bIn' = [bIn EXCEPT !.read = @ + Header]
  /\ phase' = "wait"
  /\ UNCHANGED <<asked, wire, gone, conn, bOut, lost, served, answers, got>>

\* Mutation of NotComplete: a request that ends the buffer is waited for.
NotCompleteTwice ==
  /\ Headed
  /\ Signed(Number(bIn)) <= Longest
  /\ Unread(bIn) - Header <= Number(bIn)
  /\ phase' = "wait"
  /\ UNCHANGED <<asked, wire, gone, conn, bIn, bOut, lost, served, answers, got>>

NotComplete ==
  /\ Headed
  /\ Signed(Number(bIn)) <= Longest
  /\ ~Whole
  /\ phase' = "wait"
  /\ UNCHANGED <<asked, wire, gone, conn, bIn, bOut, lost, served, answers, got>>

\* The dispatch on connectionStatus and the type.
Dispatched(c, k) ==
  CASE c = "init"   -> IF k \in {"init", "manager"} THEN "init" ELSE "unsupported"
    [] c = "sftp"   -> IF k \in {"open", "close", "file"} THEN "sftp" ELSE "unsupported"
    [] c = "simple" -> IF k = "manage" THEN "simple" ELSE "unsupported"
    [] OTHER        -> IF k \in {"manage", "configure"} THEN "full" ELSE "unsupported"

\* DoInit.
ConnAfter(c, k) ==
  IF Dispatched(c, k) # "init" THEN c
  ELSE IF k = "manager" /\ Rights # "no" THEN Rights
  ELSE "sftp"

\* DoOpen of a download sets fastClean in both buffers, DoClose resets it.
CleanAfter(how, k) ==
  CASE how = "sftp" /\ k = "open"  -> {bIn.fastClean, TRUE}
    [] how = "sftp" /\ k = "close" -> {bIn.fastClean, FALSE}
    [] OTHER                       -> {bIn.fastClean}

\* Mutation of Zapped: what the handler has left of the request stays.
ZappedNever(b, start, len) == b

\* What the handler has not taken of the request is skipped (an unsigned
\* difference: nothing is, behind the beginning).
Zapped(b, start, len) ==
  IF b.read \in start .. start + len - 1 THEN Skipped(b, len - (b.read - start)) ELSE b

\* SendHandle, SendData, SendStatus and DoRead reserve, then store; the others
\* build the answer apart, then store its length and the whole of it.
Answered(b, i, n) ==
  LET s == BytesOf(i, n)
  IN {Stored(Ensured(b, Header + m), s) : m \in {r \in Replies : r >= n}} \cup
     {PutRawData(PutInt32(b, SubSeq(s, 1, Header)), SubSeq(s, Header + 1, Header + n))}

\* The kinds that the byte of the type can mean: a byte that is no type is any.
KindsAt(byte) ==
  {kind \in AllKinds : \A k \in DOMAIN asked : byte = <<k, Header + 1>> => kind = asked[k].kind}

\* Where a handler stops to read. The getters compare with the end of the
\* buffer, BufferGetHandle with nothing, none with the end of the request.
ReadTo(start) ==
  UNION {IF Sound(asked[k]) THEN start + 1 .. start + asked[k].needs
         ELSE 0 .. Len(bIn.data) + 1 : k \in Heads(bIn)}

\* The answer to a request of this kind; input is what it leaves of bIn.
Handle(kind, input) ==
  LET how == Dispatched(conn, kind)
  IN /\ served' = Append(served, how)
     /\ conn' = ConnAfter(conn, kind)
     /\ \E f \in CleanAfter(how, kind) :
          /\ bIn' = [input EXCEPT !.fastClean = f]
          /\ \E n \in Replies :
               /\ answers' = Append(answers, n)
               /\ \E b \in Answered(bOut, Len(answers) + 1, n) :
                    bOut' = [b EXCEPT !.fastClean = f]

\* One request: the type, the handler, what it has left.
Serve ==
  /\ Headed
  /\ Whole
  /\ LET start == bIn.read + Header
         len   == Number(bIn)
     IN /\ \E kind \in KindsAt(bIn.data[start + 1]), p \in ReadTo(start) :
             Handle(kind, Zapped([bIn EXCEPT !.read = p], start, len))
        /\ lost' = (bIn'.read # start + len \/ \E k \in Heads(bIn) : asked[k].sent # len)
  /\ UNCHANGED <<asked, wire, gone, phase, got>>

\* What is read as a request is none: any length, any type, any position after.
Astray ==
  /\ phase = "parse" /\ lost
  /\ Past(bIn) \/ Unread(bIn) > Header
  /\ \/ /\ phase' = "over"
        /\ UNCHANGED <<conn, bIn, bOut, served, answers>>
     \/ /\ ~Past(bIn)
        /\ phase' = "wait"
        /\ UNCHANGED <<conn, bIn, bOut, served, answers>>
     \/ /\ Len(served) < MaxStray
        /\ \E kind \in AllKinds, p \in 0 .. Len(bIn.data) + 1 :
             Handle(kind, [bIn EXCEPT !.read = p])
        /\ UNCHANGED phase
  /\ UNCHANGED <<asked, wire, gone, lost, got>>

Parse == HeaderTooSmall \/ TooLong \/ NotComplete \/ Serve \/ Astray

Next == Ask \/ Leave \/ Receive \/ Transmit \/ Parse

Spec == Init /\ [][Next]_vars

\* select() reports both descriptors in each turn and the loop serves both.
FairSpec == Spec /\ WF_vars(Receive) /\ WF_vars(Transmit) /\ WF_vars(Parse)

-----------------------------------------------------------------------------
(* Properties.                                                             *)

\* Nothing is stored beyond the allocation, however answers and reads pile
\* up and whatever BufferClean gives back (the stores without a check rely on
\* the reservation before them).
Fits == Len(bIn.data) <= bIn.size /\ Len(bOut.data) <= bOut.size

\* select() is never entered while a whole request is in the buffer: nothing
\* would wake the session to serve it (the loop of DoSFTPProtocol).
NothingWholeWaits == phase = "wait" /\ ~lost => ~Whole

AnswersUpTo(n) == FlattenSeq([i \in 1 .. n |-> BytesOf(i, answers[i])])

\* What the client has received and what is on its way to it are the answers,
\* one after the other, byte for byte (DoRead stores its length last, a short
\* write leaves the rest, BufferClean moves it).
AnswersInOrder ==
  phase # "over" =>
    got \o SubSeq(bOut.data, bOut.read + 1, Len(bOut.data)) = AnswersUpTo(Len(answers))

\* The answers the client has in full.
Seen == Cardinality({n \in 1 .. Len(answers) : IsPrefix(AnswersUpTo(n), got)})

\* The exchange of requests and answers that this implements: each request is
\* served once, in order, however the stream was cut, as long as the requests
\* before it are sound (one that is not may take the next one with it).
Abstract == INSTANCE Exchange WITH
  mode <- conn,
  seen <- Seen,
  state <- IF phase = "over" THEN "over" ELSE IF gone THEN "gone" ELSE "up"
ServedInOrder == Abstract!Spec

\* Every request is answered, and the answer received, unless the client
\* leaves, a request too long ends the session, or one is not sound: the
\* session may then wait for bytes that are not missing.
AllAnswered ==
  \A k \in 1 .. MaxRequests :
    k <= Len(asked) ~>
      Seen >= k \/ gone \/ phase = "over" \/ \E i \in DOMAIN asked : ~Sound(asked[i])
=============================================================================
