--------------------------- MODULE ChannelProofs ----------------------------
(***************************************************************************)
(* What holds of Channel for every size of reads, answers and lengths: the *)
(* types, that no store goes beyond the allocation of its buffer, that no  *)
(* whole request is left waiting, that answers leave whole and in order,   *)
(* and that Channel implements Exchange. Requests need not be sound.       *)
(***************************************************************************)
EXTENDS Channel, FiniteSetTheorems, SequenceTheorems, WellFoundedInduction, TLAPS

(* Fits is inductive together with the types: what is stored was reserved, *)
(* and what BufferClean gives back is not in use. The position of reading  *)
(* passes the end of bIn in a lost stream only, and never in select().     *)
GoodBuffer(b) ==
  /\ b \in Buffers
  /\ b.read <= Len(b.data)
  /\ Len(b.data) <= b.size

\* The same with a position that may have passed the end.
GoodInput(b) ==
  /\ b \in Buffers
  /\ b.read <= Len(b.data) + 1
  /\ Len(b.data) <= b.size

ChannelInv == TypeOK /\ Fits /\ (phase = "wait" => ~Past(bIn))

-----------------------------------------------------------------------------
(* The buffers.                                                            *)

\* A buffer, field by field.
LEMMA BufferFields ==
  ASSUME NEW b
  PROVE  GoodBuffer(b) <=>
           /\ b = [data |-> b.data, read |-> b.read, size |-> b.size, fastClean |-> b.fastClean]
           /\ b.data \in Seq(Bytes) /\ b.read \in Nat /\ b.size \in Nat
           /\ b.fastClean \in BOOLEAN
           /\ b.read <= Len(b.data) /\ Len(b.data) <= b.size
  BY DEF GoodBuffer, Buffers

\* The bytes of a request or of an answer are as many as its length says.
LEMMA BytesOfType ==
  ASSUME NEW k \in Nat, NEW n \in Nat
  PROVE  BytesOf(k, n) \in Seq(Bytes) /\ Len(BytesOf(k, n)) = Header + n
  <1>1. Header \in Nat BY SizesAssumption
  <1>2. BytesOf(k, n) \in [1 .. Header + n -> Bytes] BY <1>1 DEF BytesOf, Bytes
  <1> QED BY <1>1, <1>2

\* A part of a sequence.
LEMMA PartOf ==
  ASSUME NEW s \in Seq(Bytes), NEW m \in Nat, NEW n \in Nat, m <= n, n <= Len(s)
  PROVE  SubSeq(s, m + 1, n) \in Seq(Bytes) /\ Len(SubSeq(s, m + 1, n)) = n - m
  BY SubSeqProperties

\* Its elements.
LEMMA PartAt ==
  ASSUME NEW s \in Seq(Bytes), NEW m \in Nat, NEW n \in Nat, m <= n, n <= Len(s),
         NEW i \in 1 .. n - m
  PROVE  SubSeq(s, m + 1, n)[i] = s[m + i]
  <1>1. \A j \in m + 1 .. n : s[j] \in Bytes BY LenProperties, ElementOfSeq
  <1>2. m + 1 \in Int /\ n \in Int /\ i \in 1 .. n - (m + 1) + 1 /\ (m + 1) + i - 1 = m + i
    OBVIOUS
  <1> QED BY <1>1, <1>2, SubSeqProperties

\* The reservation leaves the content and makes room.
LEMMA EnsuredGood ==
  ASSUME NEW b, GoodBuffer(b), NEW n \in Nat
  PROVE  /\ GoodBuffer(Ensured(b, n))
         /\ Ensured(b, n).data = b.data /\ Ensured(b, n).read = b.read
         /\ Len(b.data) + n <= Ensured(b, n).size
  BY BufferFields, LenProperties DEF Ensured, GoodBuffer, Buffers

\* What fits can be stored.
LEMMA StoredGood ==
  ASSUME NEW b, GoodBuffer(b), NEW s \in Seq(Bytes), Len(b.data) + Len(s) <= b.size
  PROVE  GoodBuffer(Stored(b, s)) /\ Stored(b, s).data = b.data \o s
  <1>1. b.data \o s \in Seq(Bytes) /\ Len(b.data \o s) = Len(b.data) + Len(s)
    BY BufferFields, ConcatProperties
  <1>2. b.read <= Len(b.data) + Len(s) BY BufferFields, LenProperties
  <1> QED BY <1>1, <1>2 DEF Stored, GoodBuffer, Buffers

\* BufferPutInt32 grows enough for a length.
LEMMA PutInt32Good ==
  ASSUME NEW b, GoodBuffer(b), NEW s \in Seq(Bytes), Len(s) = Header
  PROVE  GoodBuffer(PutInt32(b, s))
  <1> DEFINE c == IF Len(b.data) + Len(s) > b.size THEN [b EXCEPT !.size = @ + Grow] ELSE b
  <1>1. Header <= Grow /\ Header \in Nat /\ Grow \in Nat BY SizesAssumption
  <1>2. GoodBuffer(c) /\ Len(c.data) + Len(s) <= c.size
    BY <1>1, BufferFields, LenProperties DEF GoodBuffer, Buffers
  <1> HIDE DEF c
  <1>3. GoodBuffer(Stored(c, s)) BY <1>2, StoredGood
  <1> QED BY <1>3 DEF PutInt32, c

\* BufferPutRawData grows enough for anything.
LEMMA PutRawDataGood ==
  ASSUME NEW b, GoodBuffer(b), NEW s \in Seq(Bytes)
  PROVE  GoodBuffer(PutRawData(b, s))
  <1> DEFINE c == IF Len(b.data) + Len(s) > b.size
                  THEN [b EXCEPT !.size = Len(b.data) + Len(s) + Grow] ELSE b
  <1>1. Grow \in Nat BY SizesAssumption
  <1>2. GoodBuffer(c) /\ Len(c.data) + Len(s) <= c.size
    BY <1>1, BufferFields, LenProperties DEF GoodBuffer, Buffers
  <1> HIDE DEF c
  <1>3. GoodBuffer(Stored(c, s)) BY <1>2, StoredGood
  <1> QED BY <1>3 DEF PutRawData, c

\* BufferClean does not give back what is in use.
LEMMA CleanedGood ==
  ASSUME NEW b, GoodBuffer(b)
  PROVE  GoodBuffer(Cleaned(b))
  <1> DEFINE rest == SubSeq(b.data, b.read + 1, Len(b.data))
  <1>1. rest \in Seq(Bytes) /\ Len(rest) = Len(b.data) - b.read
    BY BufferFields, PartOf, LenProperties
  <1>2. Shrunk(b, Unread(b)) \in Nat /\ Len(rest) <= Shrunk(b, Unread(b))
    <2>1. b.size \in Nat /\ b.read \in Nat /\ Len(b.data) \in Nat /\ Len(b.data) <= b.size
          /\ b.read <= Len(b.data)
      BY BufferFields, LenProperties
    <2>2. b.size \div 4 \in Nat BY <2>1
    <2> QED BY <1>1, <2>1, <2>2 DEF Shrunk, Unread
  <1> DEFINE size == Shrunk(b, Unread(b))
  <1> HIDE DEF rest, size
  <1>3. Cleaned(b) = IF b.read = 0 THEN b
                     ELSE [b EXCEPT !.data = rest, !.read = 0, !.size = size]
    BY DEF Cleaned, rest, size
  <1>4. GoodBuffer([b EXCEPT !.data = rest, !.read = 0, !.size = size])
    <2> DEFINE c == [b EXCEPT !.data = rest, !.read = 0, !.size = size]
    <2>1. c \in Buffers /\ c.data = rest /\ c.read = 0 /\ c.size = size
      BY <1>1, <1>2 DEF GoodBuffer, Buffers, size
    <2>2. Len(rest) \in Nat /\ Len(rest) <= size BY <1>1, <1>2, LenProperties DEF size
    <2> HIDE DEF c
    <2>3. c.read <= Len(c.data) /\ Len(c.data) <= c.size BY <2>1, <2>2
    <2>4. GoodBuffer(c) BY <2>1, <2>3 DEF GoodBuffer
    <2> QED BY <2>4 DEF c
  <1> QED BY <1>3, <1>4

\* A good buffer is an input that has not passed its end.
LEMMA InputFields ==
  ASSUME NEW b
  PROVE  /\ GoodBuffer(b) <=> GoodInput(b) /\ b.read <= Len(b.data)
         /\ GoodInput(b) => /\ b.data \in Seq(Bytes) /\ b.read \in Nat /\ b.size \in Nat
                            /\ b.fastClean \in BOOLEAN /\ Len(b.data) \in Nat
  <1>1. GoodInput(b) => b.data \in Seq(Bytes) /\ b.read \in Nat /\ b.size \in Nat
                        /\ b.fastClean \in BOOLEAN
    BY DEF GoodInput, Buffers
  <1>2. GoodInput(b) => Len(b.data) \in Nat BY <1>1, LenProperties
  <1>3. GoodBuffer(b) => b.read \in Nat /\ Len(b.data) \in Nat BY BufferFields, LenProperties
  <1> QED BY <1>1, <1>2, <1>3 DEF GoodBuffer, GoodInput

\* Skipping stays within what was received, or does nothing.
LEMMA SkippedGood ==
  ASSUME NEW b, GoodInput(b), NEW n \in Nat
  PROVE  /\ GoodInput(Skipped(b, n)) /\ Skipped(b, n).data = b.data
         /\ Skipped(b, n).read = IF b.read + n <= Len(b.data) THEN b.read + n ELSE b.read
  <1>1. b.read \in Nat /\ Len(b.data) \in Nat BY InputFields
  <1> QED BY <1>1 DEF Skipped, GoodInput, Buffers

\* The end of a request is reached from within it, when it was received.
LEMMA ZappedGood ==
  ASSUME NEW b, GoodInput(b), NEW start \in Nat, NEW len \in Nat, start + len <= Len(b.data)
  PROVE  /\ GoodInput(Zapped(b, start, len)) /\ Zapped(b, start, len).data = b.data
         /\ Zapped(b, start, len).read =
              IF b.read \in start .. start + len - 1 THEN start + len ELSE b.read
  <1>1. b.read \in Nat /\ Len(b.data) \in Nat BY InputFields
  <1>2. CASE b.read \in start .. start + len - 1
    <2> DEFINE n == len - (b.read - start)
    <2>1. n \in Nat /\ b.read + n = start + len BY <1>1, <1>2
    <2>2. Zapped(b, start, len) = Skipped(b, n) BY <1>2 DEF Zapped
    <2> HIDE DEF n
    <2> QED BY <1>2, <2>1, <2>2, SkippedGood
  <1>3. CASE b.read \notin start .. start + len - 1 BY <1>3 DEF Zapped
  <1> QED BY <1>2, <1>3

\* fastClean changes nothing else.
LEMMA FastCleanGood ==
  ASSUME NEW b, NEW f \in BOOLEAN
  PROVE  /\ GoodBuffer(b) => GoodBuffer([b EXCEPT !.fastClean = f])
         /\ GoodInput(b) => /\ GoodInput([b EXCEPT !.fastClean = f])
                            /\ [b EXCEPT !.fastClean = f].data = b.data
                            /\ [b EXCEPT !.fastClean = f].read = b.read
  <1>1. GoodBuffer(b) => GoodBuffer([b EXCEPT !.fastClean = f]) BY DEF GoodBuffer, Buffers
  <1>2. GoodInput(b) => /\ GoodInput([b EXCEPT !.fastClean = f])
                        /\ [b EXCEPT !.fastClean = f].data = b.data
                        /\ [b EXCEPT !.fastClean = f].read = b.read
    BY DEF GoodInput, Buffers
  <1> QED BY <1>1, <1>2

\* Both ways to answer leave a good buffer.
LEMMA AnsweredGood ==
  ASSUME NEW b, GoodBuffer(b), NEW i \in Nat, NEW n \in Replies, NEW c \in Answered(b, i, n)
  PROVE  GoodBuffer(c)
  <1> DEFINE s == BytesOf(i, n)
  <1>1. n \in Nat /\ Header \in Nat BY SizesAssumption
  <1>2. s \in Seq(Bytes) /\ Len(s) = Header + n BY <1>1, BytesOfType
  <1> HIDE DEF s
  <1>3. ASSUME NEW m \in Replies, m >= n
        PROVE  GoodBuffer(Stored(Ensured(b, Header + m), s))
    <2>1. m \in Nat /\ Header + m \in Nat BY <1>1, SizesAssumption
    <2>2. /\ GoodBuffer(Ensured(b, Header + m))
          /\ Len(Ensured(b, Header + m).data) + (Header + m) <= Ensured(b, Header + m).size
      BY <2>1, EnsuredGood
    <2>3. Len(Ensured(b, Header + m).data) + Len(s) <= Ensured(b, Header + m).size
      BY <1>1, <1>2, <1>3, <2>1, <2>2, BufferFields, LenProperties
    <2> QED BY <1>2, <2>2, <2>3, StoredGood
  <1>4. GoodBuffer(PutRawData(PutInt32(b, SubSeq(s, 1, Header)), SubSeq(s, Header + 1, Header + n)))
    <2>1. SubSeq(s, 0 + 1, Header) \in Seq(Bytes) /\ Len(SubSeq(s, 0 + 1, Header)) = Header - 0
      BY <1>1, <1>2, PartOf
    <2>2. SubSeq(s, 1, Header) \in Seq(Bytes) /\ Len(SubSeq(s, 1, Header)) = Header
      BY <1>1, <2>1
    <2>3. SubSeq(s, Header + 1, Header + n) \in Seq(Bytes) BY <1>1, <1>2, PartOf
    <2> QED BY <2>2, <2>3, PutInt32Good, PutRawDataGood
  <1>5. Answered(b, i, n) =
          {Stored(Ensured(b, Header + m), s) : m \in {r \in Replies : r >= n}} \cup
          {PutRawData(PutInt32(b, SubSeq(s, 1, Header)), SubSeq(s, Header + 1, Header + n))}
    BY DEF Answered, s
  <1> QED BY <1>3, <1>4, <1>5

-----------------------------------------------------------------------------
(* The invariant, action by action.                                        *)

\* The invariant in terms of good buffers.
LEMMA InvIs ==
  ChannelInv <=>
    /\ asked \in Seq(Requests)
    /\ wire \in Seq(Bytes) /\ got \in Seq(Bytes)
    /\ gone \in BOOLEAN
    /\ phase \in {"wait", "parse", "over"}
    /\ conn \in Modes
    /\ GoodInput(bIn) /\ GoodBuffer(bOut)
    /\ lost \in BOOLEAN
    /\ (~lost \/ phase = "wait") => GoodBuffer(bIn)
    /\ served \in Seq(Modes \cup {"unsupported"})
    /\ answers \in Seq(Replies) /\ Len(answers) = Len(served)
  <1>1. bIn \in Buffers => bIn.read \in Nat /\ Len(bIn.data) \in Nat
    BY LenProperties DEF Buffers
  <1>2. bIn \in Buffers => (~Past(bIn) <=> bIn.read <= Len(bIn.data)) BY <1>1 DEF Past
  <1> QED BY <1>1, <1>2 DEF ChannelInv, TypeOK, Fits, GoodBuffer, GoodInput

\* The same after a step.
LEMMA InvAfter ==
  ChannelInv' <=>
    /\ asked' \in Seq(Requests)
    /\ wire' \in Seq(Bytes) /\ got' \in Seq(Bytes)
    /\ gone' \in BOOLEAN
    /\ phase' \in {"wait", "parse", "over"}
    /\ conn' \in Modes
    /\ GoodInput(bIn') /\ GoodBuffer(bOut')
    /\ lost' \in BOOLEAN
    /\ (~lost' \/ phase' = "wait") => GoodBuffer(bIn')
    /\ served' \in Seq(Modes \cup {"unsupported"})
    /\ answers' \in Seq(Replies) /\ Len(answers') = Len(served')
  <1>1. bIn' \in Buffers => bIn'.read \in Nat /\ Len(bIn'.data) \in Nat
    BY LenProperties DEF Buffers
  <1>2. bIn' \in Buffers => (~Past(bIn') <=> bIn'.read <= Len(bIn'.data)) BY <1>1 DEF Past
  <1>3. Past(bIn)' = Past(bIn') BY DEF Past
  <1> QED BY <1>1, <1>2, <1>3 DEF ChannelInv, TypeOK, Fits, GoodBuffer, GoodInput

\* The buffers of a session begin empty.
LEMMA InitInv == Init => ChannelInv
  <1> SUFFICES ASSUME Init PROVE ChannelInv OBVIOUS
  <1>1. BufferNew \in Buffers /\ BufferNew.read = 0 /\ Len(BufferNew.data) = 0
        /\ BufferNew.size \in Nat
    BY SizesAssumption DEF BufferNew, Buffers
  <1>2. GoodBuffer(BufferNew) BY <1>1 DEF GoodBuffer
  <1>3. /\ asked \in Seq(Requests) /\ wire \in Seq(Bytes) /\ got \in Seq(Bytes)
        /\ served \in Seq(Modes \cup {"unsupported"}) /\ answers \in Seq(Replies)
        /\ Len(answers) = Len(served)
    BY EmptySeq DEF Init
  <1>4. gone \in BOOLEAN /\ phase = "wait" /\ conn \in Modes /\ bIn = BufferNew /\ bOut = BufferNew
        /\ lost = FALSE
    BY DEF Init, Modes
  <1> QED BY <1>2, <1>3, <1>4, InvIs, InputFields

\* The client sends.
LEMMA AskInv == ChannelInv /\ Ask => ChannelInv'
  <1> SUFFICES ASSUME ChannelInv, Ask PROVE ChannelInv' OBVIOUS
  <1>1. PICK r \in Requests : asked' = Append(asked, r)
                              /\ wire' = wire \o BytesOf(Len(asked) + 1, r.sent)
    BY DEF Ask
  <1>2. r.sent \in Nat BY RequestsAssumption
  <1>3. Len(asked) + 1 \in Nat BY InvIs, LenProperties
  <1>4. wire' \in Seq(Bytes) BY <1>1, <1>2, <1>3, InvIs, BytesOfType, ConcatProperties
  <1>5. asked' \in Seq(Requests) BY <1>1, InvIs, AppendProperties
  <1>6. UNCHANGED <<gone, phase, conn, bIn, bOut, lost, served, answers, got>> BY DEF Ask
  <1> QED BY <1>4, <1>5, <1>6, InvIs, InvAfter

\* The client leaves.
LEMMA LeaveInv == ChannelInv /\ Leave => ChannelInv'
  <1> SUFFICES ASSUME ChannelInv, Leave PROVE ChannelInv' OBVIOUS
  <1>1. PICK n \in 0 .. Len(wire) : wire' = SubSeq(wire, 1, n) BY DEF Leave
  <1>2. SubSeq(wire, 0 + 1, n) \in Seq(Bytes) BY <1>1, InvIs, PartOf, LenProperties
  <1>3. wire' \in Seq(Bytes) BY <1>1, <1>2
  <1>4. gone' = TRUE /\ UNCHANGED <<asked, phase, conn, bIn, bOut, lost, served, answers, got>>
    BY DEF Leave
  <1> QED BY <1>3, <1>4, InvIs, InvAfter

\* A read: room for MaxPacket bytes is reserved, no more are read.
LEMMA ReceiveInv == ChannelInv /\ Receive => ChannelInv'
  <1> SUFFICES ASSUME ChannelInv, Receive PROVE ChannelInv' OBVIOUS
  <1>0. GoodBuffer(bIn) BY InvIs DEF Receive
  <1>1. UNCHANGED <<asked, gone, conn, bOut, lost, served, answers, got>> BY DEF Receive
  <1>2. ASSUME NEW n \in 1 .. MaxPacket, n <= Len(wire),
               bIn' = Stored(Ensured(bIn, MaxPacket), SubSeq(wire, 1, n)),
               wire' = SubSeq(wire, n + 1, Len(wire)), phase' = "parse"
        PROVE  ChannelInv'
    <2>1. MaxPacket \in Nat /\ n \in Nat /\ n <= MaxPacket BY SizesAssumption
    <2>2. Len(wire) \in Nat /\ wire \in Seq(Bytes) BY InvIs, LenProperties
    <2>3. wire' \in Seq(Bytes) BY <1>2, <2>1, <2>2, PartOf
    <2>4. SubSeq(wire, 0 + 1, n) \in Seq(Bytes) /\ Len(SubSeq(wire, 0 + 1, n)) = n - 0
      BY <1>2, <2>1, <2>2, PartOf
    <2>5. SubSeq(wire, 1, n) \in Seq(Bytes) /\ Len(SubSeq(wire, 1, n)) = n BY <2>1, <2>4
    <2> DEFINE b == Ensured(bIn, MaxPacket)
    <2>6. GoodBuffer(b) /\ b.data = bIn.data /\ Len(bIn.data) + MaxPacket <= b.size
      BY <1>0, <2>1, InvIs, EnsuredGood
    <2>7. Len(bIn.data) \in Nat /\ b.size \in Nat BY <1>0, <2>6, BufferFields, LenProperties
    <2> HIDE DEF b
    <2>8. Len(b.data) + Len(SubSeq(wire, 1, n)) <= b.size BY <2>1, <2>5, <2>6, <2>7
    <2>9. GoodBuffer(Stored(b, SubSeq(wire, 1, n))) BY <2>5, <2>6, <2>8, StoredGood
    <2>10. GoodBuffer(bIn') BY <1>2, <2>9 DEF b
    <2>11. GoodInput(bIn') BY <2>10, InputFields
    <2> QED BY <1>1, <1>2, <2>3, <2>10, <2>11, InvIs, InvAfter
  <1>3. ASSUME phase' = "over", UNCHANGED <<wire, bIn>> PROVE ChannelInv'
    BY <1>1, <1>3, InvIs, InvAfter
  <1> QED BY <1>2, <1>3 DEF Receive

\* A write: what is written is taken off the buffer.
LEMMA TransmitInv == ChannelInv /\ Transmit => ChannelInv'
  <1> SUFFICES ASSUME ChannelInv, Transmit PROVE ChannelInv' OBVIOUS
  <1>1. UNCHANGED <<asked, wire, gone, conn, bIn, lost, served, answers>> BY DEF Transmit
  <1>2. ASSUME NEW n \in 1 .. Unread(bOut),
               got' = got \o SubSeq(bOut.data, bOut.read + 1, bOut.read + n),
               bOut' = Cleaned([bOut EXCEPT !.read = @ + n]), UNCHANGED phase
        PROVE  ChannelInv'
    <2>1. /\ bOut.read \in Nat /\ Len(bOut.data) \in Nat /\ bOut.data \in Seq(Bytes)
          /\ GoodBuffer(bOut)
      BY InvIs, BufferFields, LenProperties
    <2>2. n \in Nat /\ bOut.read + n <= Len(bOut.data) BY <2>1 DEF Unread
    <2>3. SubSeq(bOut.data, bOut.read + 1, bOut.read + n) \in Seq(Bytes) BY <2>1, <2>2, PartOf
    <2>4. got' \in Seq(Bytes) BY <1>2, <2>3, InvIs, ConcatProperties
    <2>5. GoodBuffer([bOut EXCEPT !.read = @ + n]) BY <2>1, <2>2 DEF GoodBuffer, Buffers
    <2>6. GoodBuffer(bOut') BY <1>2, <2>5, CleanedGood
    <2> QED BY <1>1, <1>2, <2>4, <2>6, InvIs, InvAfter
  <1>3. ASSUME phase' = "over", UNCHANGED <<got, bOut>> PROVE ChannelInv'
    BY <1>1, <1>3, InvIs, InvAfter
  <1> QED BY <1>2, <1>3 DEF Transmit

\* The bytes of a length tell whose it is.
LEMMA OneHead ==
  ASSUME NEW k, NEW i,
         [j \in 1 .. Header |-> <<k, j>>] = [j \in 1 .. Header |-> <<i, j>>]
  PROVE  k = i
  <1>1. 1 \in 1 .. Header BY SizesAssumption
  <1>2. [j \in 1 .. Header |-> <<k, j>>][1] = [j \in 1 .. Header |-> <<i, j>>][1] OBVIOUS
  <1>3. <<k, 1>> = <<i, 1>> BY <1>1, <1>2
  <1> QED BY <1>3

\* The length, when the bytes of one are there.
LEMMA NumberOf ==
  ASSUME NEW b, NEW k \in Heads(b)
  PROVE  Heads(b) = {k} /\ Number(b) = asked[k].len
  <1> SUFFICES ASSUME NEW i \in Heads(b) PROVE i = k BY DEF Number
  <1>1. [j \in 1 .. Header |-> <<k, j>>] = [j \in 1 .. Header |-> <<i, j>>] BY DEF Heads
  <1> QED BY <1>1, OneHead

\* The length of a request is a number.
LEMMA NumberType ==
  ASSUME ChannelInv
  PROVE  Number(bIn) \in Nat
  <1>1. \A k \in Heads(bIn) : asked[k].len \in Nat
    BY InvIs, LenProperties, ElementOfSeq, RequestsAssumption DEF Heads
  <1>2. CASE Heads(bIn) = {} BY <1>2 DEF Number
  <1>3. ASSUME NEW k \in Heads(bIn) PROVE Number(bIn) \in Nat BY <1>1, NumberOf
  <1> QED BY <1>2, <1>3

\* A request is answered: the histories grow by one, bOut by the answer, and
\* the input is what the handler left.
LEMMA HandleInv ==
  ASSUME ChannelInv, NEW kind \in AllKinds, NEW input, GoodInput(input), Handle(kind, input)
  PROVE  /\ conn' \in Modes
         /\ served' \in Seq(Modes \cup {"unsupported"})
         /\ answers' \in Seq(Replies) /\ Len(answers') = Len(served')
         /\ GoodBuffer(bOut')
         /\ GoodInput(bIn') /\ bIn'.data = input.data /\ bIn'.read = input.read
  <1> DEFINE how == Dispatched(conn, kind)
  <1>1. served' = Append(served, how) /\ conn' = ConnAfter(conn, kind)
    BY DEF Handle
  <1>2. PICK f \in CleanAfter(how, kind) :
          /\ bIn' = [input EXCEPT !.fastClean = f]
          /\ \E n \in Replies :
               /\ answers' = Append(answers, n)
               /\ \E b \in Answered(bOut, Len(answers) + 1, n) :
                    bOut' = [b EXCEPT !.fastClean = f]
    BY DEF Handle
  <1>3. how \in Modes \cup {"unsupported"} /\ conn' \in Modes
    BY <1>1, InvIs, RightsAssumption DEF Dispatched, ConnAfter, Modes
  <1>4. bIn.fastClean \in BOOLEAN /\ GoodBuffer(bOut) BY InvIs, InputFields
  <1>5. f \in BOOLEAN BY <1>2, <1>4 DEF CleanAfter
  <1>6. GoodInput(bIn') /\ bIn'.data = input.data /\ bIn'.read = input.read
    BY <1>2, <1>5, FastCleanGood
  <1>8. answers' \in Seq(Replies) /\ Len(answers') = Len(answers) + 1 /\ GoodBuffer(bOut')
    <2>1. PICK n \in Replies :
            /\ answers' = Append(answers, n)
            /\ \E b \in Answered(bOut, Len(answers) + 1, n) : bOut' = [b EXCEPT !.fastClean = f]
      BY <1>2
    <2>2. PICK b \in Answered(bOut, Len(answers) + 1, n) : bOut' = [b EXCEPT !.fastClean = f]
      BY <2>1
    <2>3. Len(answers) + 1 \in Nat BY InvIs, LenProperties
    <2>4. GoodBuffer(b) BY <1>4, <2>3, AnsweredGood
    <2>5. GoodBuffer(bOut') BY <1>5, <2>2, <2>4, FastCleanGood
    <2> QED BY <2>1, <2>5, InvIs, AppendProperties
  <1>9. served' \in Seq(Modes \cup {"unsupported"}) /\ Len(served') = Len(served) + 1
    BY <1>1, <1>3, InvIs, AppendProperties
  <1>10. Len(answers') = Len(served') BY <1>8, <1>9, InvIs
  <1> QED BY <1>3, <1>6, <1>8, <1>9, <1>10

\* What a handler leaves of bIn, wherever it stops: the handler of a sound
\* request does not leave it, and the rest of it is skipped.
LEMMA ReadIsGood ==
  ASSUME ChannelInv, Headed, Whole, NEW p \in ReadTo(bIn.read + Header)
  PROVE  LET start == bIn.read + Header
             len   == Number(bIn)
             input == Zapped([bIn EXCEPT !.read = p], start, len)
         IN /\ start \in Nat /\ len \in Nat /\ start + len <= Len(bIn.data)
            /\ GoodInput(input) /\ input.data = bIn.data
            /\ \A k \in Heads(bIn) : Sound(asked[k]) => input.read = start + len
  <1> DEFINE start == bIn.read + Header
             len   == Number(bIn)
             read  == [bIn EXCEPT !.read = p]
             input == Zapped(read, start, len)
  <1>1. /\ GoodInput(bIn) /\ bIn.read \in Nat /\ Len(bIn.data) \in Nat /\ Header \in Nat
    BY InvIs, InputFields, SizesAssumption
  <1>2. len \in Nat BY NumberType
  <1> HIDE DEF len
  <1>w. Unread(bIn) - Header >= len BY DEF Whole, len
  <1>3. start \in Nat /\ start + len <= Len(bIn.data) BY <1>1, <1>2, <1>w DEF Unread
  <1> HIDE DEF start
  <1>r. p \in ReadTo(start) BY DEF start
  <1>4. PICK k \in Heads(bIn) :
          p \in IF Sound(asked[k]) THEN start + 1 .. start + asked[k].needs
                ELSE 0 .. Len(bIn.data) + 1
    BY <1>r DEF ReadTo
  <1>5. Heads(bIn) = {k} /\ len = asked[k].len BY NumberOf DEF len
  <1>6. asked[k].needs \in Nat
    BY InvIs, LenProperties, ElementOfSeq, RequestsAssumption DEF Heads
  <1>7. Sound(asked[k]) => p \in start + 1 .. start + len /\ asked[k].needs <= len
    BY <1>2, <1>3, <1>4, <1>5, <1>6 DEF Sound
  <1>8. p \in Nat /\ p <= Len(bIn.data) + 1
    <2>1. CASE Sound(asked[k]) BY <1>1, <1>2, <1>3, <1>7, <2>1
    <2>2. CASE ~Sound(asked[k]) BY <1>1, <1>4, <2>2
    <2> QED BY <2>1, <2>2
  <1>9. GoodInput(read) /\ read.data = bIn.data /\ read.read = p
    BY <1>1, <1>8 DEF GoodInput, Buffers
  <1> HIDE DEF read
  <1>10. /\ GoodInput(input) /\ input.data = bIn.data
         /\ input.read = IF p \in start .. start + len - 1 THEN start + len ELSE p
    BY <1>2, <1>3, <1>9, ZappedGood
  <1>11. Sound(asked[k]) => input.read = start + len BY <1>2, <1>3, <1>7, <1>10
  <1> QED BY <1>2, <1>3, <1>5, <1>10, <1>11 DEF start, len, read

\* A request is served: if the stream is not lost, what follows is in bIn.
LEMMA ServeInv == ChannelInv /\ Serve => ChannelInv'
  <1> SUFFICES ASSUME ChannelInv, Serve PROVE ChannelInv' OBVIOUS
  <1> DEFINE start == bIn.read + Header
             len   == Number(bIn)
  <1>1. Headed /\ Whole /\ UNCHANGED <<asked, wire, gone, phase, got>> BY DEF Serve
  <1>2. PICK kind \in KindsAt(bIn.data[start + 1]), p \in ReadTo(start) :
          Handle(kind, Zapped([bIn EXCEPT !.read = p], start, len))
    BY DEF Serve
  <1>3. lost' = (bIn'.read # start + len \/ \E k \in Heads(bIn) : asked[k].sent # len)
    BY DEF Serve
  <1> DEFINE input == Zapped([bIn EXCEPT !.read = p], start, len)
  <1>4. /\ start \in Nat /\ len \in Nat /\ start + len <= Len(bIn.data)
        /\ GoodInput(input) /\ input.data = bIn.data
    BY <1>1, <1>2, ReadIsGood
  <1>5. Handle(kind, input) /\ kind \in AllKinds BY <1>2 DEF KindsAt
  <1> HIDE DEF input, start, len
  <1>6. /\ conn' \in Modes
        /\ served' \in Seq(Modes \cup {"unsupported"})
        /\ answers' \in Seq(Replies) /\ Len(answers') = Len(served')
        /\ GoodBuffer(bOut')
        /\ GoodInput(bIn') /\ bIn'.data = bIn.data
    BY <1>4, <1>5, HandleInv
  <1>7. ~lost' => GoodBuffer(bIn') BY <1>3, <1>4, <1>6, InputFields
  <1>8. lost' \in BOOLEAN /\ phase' = "parse" BY <1>1, <1>3 DEF Headed
  <1> QED BY <1>1, <1>6, <1>7, <1>8, InvIs, InvAfter

\* In a lost stream the position may be anywhere, but not in select().
LEMMA AstrayInv == ChannelInv /\ Astray => ChannelInv'
  <1> SUFFICES ASSUME ChannelInv, Astray PROVE ChannelInv' OBVIOUS
  <1>1. lost /\ phase = "parse" /\ UNCHANGED <<asked, wire, gone, lost, got>> BY DEF Astray
  <1>2. GoodInput(bIn) /\ bIn.read \in Nat /\ Len(bIn.data) \in Nat BY InvIs, InputFields
  <1>3. ASSUME phase' = "over", UNCHANGED <<conn, bIn, bOut, served, answers>>
        PROVE  ChannelInv'
    BY <1>1, <1>3, InvIs, InvAfter
  <1>4. ASSUME phase' = "wait", ~Past(bIn), UNCHANGED <<conn, bIn, bOut, served, answers>>
        PROVE  ChannelInv'
    <2>1. GoodBuffer(bIn) BY <1>2, <1>4, InputFields DEF Past
    <2> QED BY <1>1, <1>4, <2>1, InvIs, InvAfter
  <1>5. ASSUME NEW kind \in AllKinds, NEW p \in 0 .. Len(bIn.data) + 1,
               Handle(kind, [bIn EXCEPT !.read = p]), UNCHANGED phase
        PROVE  ChannelInv'
    <2> DEFINE input == [bIn EXCEPT !.read = p]
    <2>1. GoodInput(input) BY <1>2 DEF GoodInput, Buffers
    <2>2. Handle(kind, input) BY <1>5
    <2> HIDE DEF input
    <2>3. /\ conn' \in Modes
          /\ served' \in Seq(Modes \cup {"unsupported"})
          /\ answers' \in Seq(Replies) /\ Len(answers') = Len(served')
          /\ GoodBuffer(bOut') /\ GoodInput(bIn')
      BY <2>1, <2>2, HandleInv
    <2> QED BY <1>1, <1>5, <2>3, InvIs, InvAfter
  <1> QED BY <1>3, <1>4, <1>5 DEF Astray

\* The loop of DoSFTPProtocol.
LEMMA ParseInv == ChannelInv /\ Parse => ChannelInv'
  <1> SUFFICES ASSUME ChannelInv, Parse PROVE ChannelInv' OBVIOUS
  <1>1. CASE HeaderTooSmall
    <2>1. GoodBuffer(bIn)
      <3>1. GoodInput(bIn) /\ bIn.read \in Nat /\ Len(bIn.data) \in Nat BY InvIs, InputFields
      <3> QED BY <1>1, <3>1, InputFields DEF HeaderTooSmall, Past
    <2>2. GoodBuffer(bIn') BY <1>1, <2>1, CleanedGood DEF HeaderTooSmall
    <2>3. GoodInput(bIn') BY <2>2, InputFields
    <2> QED BY <1>1, <2>2, <2>3, InvIs, InvAfter DEF HeaderTooSmall
  <1>2. CASE TooLong BY <1>2, InvIs, InvAfter DEF TooLong
  <1>3. CASE NotComplete
    <2>1. ~lost BY <1>3 DEF NotComplete, Headed
    <2> QED BY <1>3, <2>1, InvIs, InvAfter DEF NotComplete
  <1>4. CASE Serve BY <1>4, ServeInv
  <1>5. CASE Astray BY <1>5, AstrayInv
  <1> QED BY <1>1, <1>2, <1>3, <1>4, <1>5 DEF Parse

\* A step that changes nothing.
LEMMA StutterInv == ChannelInv /\ UNCHANGED vars => ChannelInv'
  BY InvIs, InvAfter DEF vars

\* The invariant always holds.
LEMMA AlwaysInv == Spec => []ChannelInv
  <1>1. ChannelInv /\ [Next]_vars => ChannelInv'
    BY AskInv, LeaveInv, ReceiveInv, TransmitInv, ParseInv, StutterInv DEF Next
  <1> QED BY InitInv, <1>1, PTL DEF Spec

\* Every buffer, position and history keeps its type: the read position passes
\* the end, and the unsigned differences of DoSFTPProtocol wrap, only after a
\* request that is not sound.
THEOREM ChannelTypes == Spec => []TypeOK
  <1>1. ChannelInv => TypeOK BY DEF ChannelInv
  <1> QED BY AlwaysInv, <1>1, PTL

\* No store goes beyond the allocation, for every DEFAULT_GROW that holds a
\* length, every SSH2_MAX_PACKET and every length of answers.
THEOREM BuffersFit == Spec => []Fits
  <1>1. ChannelInv => Fits BY DEF ChannelInv
  <1> QED BY AlwaysInv, <1>1, PTL
-----------------------------------------------------------------------------
(* What is waited for.                                                     *)

(* With the types, this is inductive: in the bytes of one request there is *)
(* no other length, and without a length nothing is missing; so what is    *)
(* missing is known from a request, and a later one does not change it.    *)

\* The client sends another request: what is missing is still missing.
LEMMA AskWaits ==
  ASSUME ChannelInv, Ask, phase = "wait", ~Whole
  PROVE  ~Whole'
  <1>1. PICK r \in Requests : asked' = Append(asked, r) BY DEF Ask
  <1>2. bIn' = bIn BY DEF Ask
  <1>3. /\ asked \in Seq(Requests) /\ Len(asked) \in Nat /\ DOMAIN asked = 1 .. Len(asked)
        /\ DOMAIN asked' = 1 .. Len(asked) + 1
        /\ \A i \in 1 .. Len(asked) : asked'[i] = asked[i]
    BY <1>1, InvIs, LenProperties, AppendProperties
  <1>0. GoodBuffer(bIn) BY InvIs
  <1>4. Unread(bIn) \in Nat /\ Header \in Nat /\ Longest \in Nat /\ Unread(bIn') = Unread(bIn)
    BY <1>0, <1>2, BufferFields, LenProperties, SizesAssumption, RequestsAssumption DEF Unread
  <1>5. CASE Unread(bIn) <= Header BY <1>4, <1>5 DEF Whole
  <1>6. CASE Unread(bIn) > Header
    <2>1. Number(bIn) # 0
      BY <1>4, <1>6, RequestsAssumption DEF Whole, Signed
    <2>3. PICK k \in Heads(bIn) : TRUE BY <2>1 DEF Number
    <2>4. Number(bIn) = asked[k].len BY NumberOf
    <2>5. k \in DOMAIN asked /\ k \in DOMAIN asked' BY <1>3 DEF Heads
    <2>6. Heads(bIn)' = {k}
      <3>1. Heads(bIn)' = {i \in DOMAIN asked' :
                SubSeq(bIn.data, bIn.read + 1, bIn.read + Header) = [j \in 1 .. Header |-> <<i, j>>]}
        BY <1>2 DEF Heads
      <3>2. SubSeq(bIn.data, bIn.read + 1, bIn.read + Header) = [j \in 1 .. Header |-> <<k, j>>]
        BY DEF Heads
      <3> DEFINE head == SubSeq(bIn.data, bIn.read + 1, bIn.read + Header)
      <3> HIDE DEF head
      <3>3. head = [j \in 1 .. Header |-> <<k, j>>] BY <3>2 DEF head
      <3>4. Heads(bIn)' = {i \in DOMAIN asked' : head = [j \in 1 .. Header |-> <<i, j>>]}
        BY <3>1 DEF head
      <3>5. \A i \in Heads(bIn)' : i = k BY <3>3, <3>4, OneHead
      <3>6. k \in Heads(bIn)' BY <2>5, <3>3, <3>4
      <3> QED BY <3>5, <3>6
    <2>7. Number(bIn)' = asked'[k].len
      <3>1. Number(bIn)' = IF Heads(bIn)' = {} THEN 0
                           ELSE asked'[CHOOSE i \in Heads(bIn)' : TRUE].len
        BY DEF Number
      <3> QED BY <2>6, <3>1
    <2>8. Number(bIn)' = Number(bIn) BY <1>3, <2>4, <2>5, <2>7
    <2> QED BY <1>2, <1>4, <2>8 DEF Whole, Unread
  <1> QED BY <1>4, <1>5, <1>6

\* BufferClean leaves as much to read as there was.
LEMMA CleanedUnread ==
  ASSUME NEW b, GoodBuffer(b)
  PROVE  Unread(Cleaned(b)) = Unread(b)
  <1>1. CASE b.read = 0 BY <1>1 DEF Cleaned
  <1>2. CASE b.read # 0
    <2>1. /\ SubSeq(b.data, b.read + 1, Len(b.data)) \in Seq(Bytes)
          /\ Len(SubSeq(b.data, b.read + 1, Len(b.data))) = Len(b.data) - b.read
      BY BufferFields, PartOf, LenProperties
    <2> DEFINE rest == SubSeq(b.data, b.read + 1, Len(b.data))
               size == Shrunk(b, Unread(b))
    <2>2. Cleaned(b) = [b EXCEPT !.data = rest, !.read = 0, !.size = size]
      BY <1>2 DEF Cleaned
    <2>3. Len(rest) = Len(b.data) - b.read BY <2>1
    <2>4. b.read \in Nat /\ Len(b.data) \in Nat BY BufferFields, LenProperties
    <2> HIDE DEF rest, size
    <2>5. Cleaned(b).data = rest /\ Cleaned(b).read = 0 BY <2>2 DEF GoodBuffer, Buffers
    <2> QED BY <2>3, <2>4, <2>5 DEF Unread
  <1> QED BY <1>1, <1>2

\* What is waited for depends on bIn and the requests only.
LEMMA WholeStays ==
  ASSUME UNCHANGED <<asked, bIn>>
  PROVE  Whole' = Whole
  <1>1. Heads(bIn)' = Heads(bIn) /\ Unread(bIn)' = Unread(bIn) BY DEF Heads, Unread
  <1>2. Number(bIn)' = Number(bIn) BY <1>1 DEF Number
  <1> QED BY <1>1, <1>2 DEF Whole

\* The loop of DoSFTPProtocol goes back to select() only without a whole request.
LEMMA ParseWaits ==
  ASSUME ChannelInv, Parse, phase' = "wait", ~lost'
  PROVE  ~Whole'
  <1>1. CASE HeaderTooSmall
    <2>1. bIn' = Cleaned(bIn) /\ Unread(bIn) < Header + 1 /\ ~lost BY <1>1 DEF HeaderTooSmall
    <2>2. GoodBuffer(bIn) /\ Header \in Nat BY <2>1, InvIs, SizesAssumption
    <2>3. Unread(bIn') = Unread(bIn) /\ Unread(bIn)' = Unread(bIn')
      BY <2>1, <2>2, CleanedUnread DEF Unread
    <2>4. Unread(bIn) \in Nat BY <2>2, BufferFields, LenProperties DEF Unread
    <2>5. ~(Unread(bIn)' > Header) BY <2>1, <2>2, <2>3, <2>4
    <2> QED BY <2>5 DEF Whole
  <1>2. CASE TooLong BY <1>2 DEF TooLong
  <1>3. CASE NotComplete BY <1>3, WholeStays DEF NotComplete
  <1>4. CASE Serve BY <1>4 DEF Serve, Headed
  <1>5. CASE Astray BY <1>5 DEF Astray
  <1> QED BY <1>1, <1>2, <1>3, <1>4, <1>5 DEF Parse

\* The session never waits with a whole request in its buffer, for every size
\* of requests and reads: none is left to be served by a later read only.
THEOREM WholeIsServed == Spec => []NothingWholeWaits
  <1>1. Init => NothingWholeWaits
    <2> SUFFICES ASSUME Init PROVE ~Whole BY DEF NothingWholeWaits
    <2>1. Unread(bIn) = 0 /\ Header \in Nat BY SizesAssumption DEF Init, BufferNew, Unread
    <2> QED BY <2>1 DEF Whole
  <1>2. ChannelInv /\ NothingWholeWaits /\ [Next]_vars => NothingWholeWaits'
    <2> SUFFICES ASSUME ChannelInv, NothingWholeWaits, [Next]_vars, phase' = "wait", ~lost'
                 PROVE  ~Whole'
      BY DEF NothingWholeWaits
    <2>1. CASE Ask
      <3>1. phase = "wait" /\ ~lost BY <2>1 DEF Ask
      <3> QED BY <2>1, <3>1, AskWaits DEF NothingWholeWaits
    <2>2. CASE Parse BY <2>2, ParseWaits
    <2>3. CASE Leave \/ Transmit \/ UNCHANGED vars
      <3>1. UNCHANGED <<asked, bIn, lost>> /\ phase = "wait" BY <2>3 DEF Leave, Transmit, vars
      <3> QED BY <3>1, WholeStays DEF NothingWholeWaits
    <2>4. CASE Receive BY <2>4 DEF Receive
    <2> QED BY <2>1, <2>2, <2>3, <2>4 DEF Next
  <1> QED BY AlwaysInv, <1>1, <1>2, PTL DEF Spec

-----------------------------------------------------------------------------
(* Concatenations.                                                         *)

(* FlattenSeq is a recursive function, which is one only if a function with *)
(* its equation exists: by induction, in the form of sets of numbers, from *)
(* the well-foundedness of Nat.                                            *)

\* Induction.
LEMMA SetInduction ==
  ASSUME NEW S, 0 \in S, \A n \in Nat : n \in S => n + 1 \in S
  PROVE  \A n \in Nat : n \in S
  <1> DEFINE R == {ss \in Nat \X Nat : ss[1] < ss[2]}
             T == Nat \ S
  <1> SUFFICES ASSUME T # {} PROVE FALSE OBVIOUS
  <1>1. IsWellFoundedOn(R, Nat) BY NatLessThanWellFounded DEF OpToRel
  <1>2. T \subseteq Nat OBVIOUS
  <1> HIDE DEF R
  <1>3. PICK x \in T : \A y \in T : <<y, x>> \notin R BY <1>1, <1>2, WFMin
  <1>4. x \in Nat /\ x # 0 OBVIOUS
  <1>5. x - 1 \in Nat /\ x = (x - 1) + 1 /\ x - 1 < x BY <1>4
  <1>6. x - 1 \notin T BY <1>3, <1>5 DEF R
  <1> QED BY <1>5, <1>6

\* f concatenates the first n sequences of s, step by step.
Pieces(s, n, f) ==
  f = [i \in 1 .. n |-> IF i = 1 THEN s[i] ELSE f[i - 1] \o s[i]]

\* What FlattenSeq chooses.
LEMMA FlattenChoice ==
  ASSUME NEW s, Len(s) # 0
  PROVE  FlattenSeq(s) = (CHOOSE f : Pieces(s, Len(s), f))[Len(s)]
  BY DEF FlattenSeq, Pieces

\* There is such an f.
LEMMA PiecesExist ==
  ASSUME NEW s
  PROVE  \A n \in Nat : \E f : Pieces(s, n, f)
  <1> DEFINE S == {n \in Nat : \E f : Pieces(s, n, f)}
  <1>1. 0 \in S
    <2> DEFINE f == [i \in 1 .. 0 |-> s[i]]
    <2>1. f = [i \in 1 .. 0 |-> IF i = 1 THEN s[i] ELSE f[i - 1] \o s[i]] OBVIOUS
    <2> HIDE DEF f
    <2>2. Pieces(s, 0, f) BY <2>1 DEF Pieces
    <2> QED BY <2>2
  <1>2. ASSUME NEW n \in Nat, n \in S PROVE n + 1 \in S
    <2>1. PICK f : Pieces(s, n, f) BY <1>2
    <2> DEFINE last == IF n = 0 THEN s[1] ELSE f[n] \o s[n + 1]
               g == [i \in 1 .. n + 1 |-> IF i = n + 1 THEN last ELSE f[i]]
    <2>2. \A i \in 1 .. n : f[i] = IF i = 1 THEN s[i] ELSE f[i - 1] \o s[i]
      BY <2>1 DEF Pieces
    <2>3. \A i \in 1 .. n + 1 : g[i] = IF i = 1 THEN s[i] ELSE g[i - 1] \o s[i]
      <3> SUFFICES ASSUME NEW i \in 1 .. n + 1
                   PROVE  g[i] = IF i = 1 THEN s[i] ELSE g[i - 1] \o s[i]
        OBVIOUS
      <3>1. CASE i = n + 1
        <4>1. n # 0 => g[n] = f[n] OBVIOUS
        <4> QED BY <3>1, <4>1
      <3>2. CASE i # n + 1
        <4>1. i \in 1 .. n /\ g[i] = f[i] BY <3>2
        <4>2. i # 1 => g[i - 1] = f[i - 1] BY <4>1
        <4> QED BY <2>2, <4>1, <4>2
      <3> QED BY <3>1, <3>2
    <2>4. g = [i \in 1 .. n + 1 |-> g[i]] OBVIOUS
    <2> HIDE DEF g
    <2>5. g = [i \in 1 .. n + 1 |-> IF i = 1 THEN s[i] ELSE g[i - 1] \o s[i]]
      BY <2>3, <2>4
    <2>6. Pieces(s, n + 1, g) BY <2>5 DEF Pieces
    <2> QED BY <2>6
  <1> HIDE DEF S
  <1>3. \A n \in Nat : n \in S BY <1>1, <1>2, SetInduction
  <1> QED BY <1>3 DEF S

\* Its equation.
LEMMA PiecesAt ==
  ASSUME NEW s, NEW n \in Nat, NEW f, Pieces(s, n, f)
  PROVE  \A i \in 1 .. n : f[i] = IF i = 1 THEN s[i] ELSE f[i - 1] \o s[i]
  BY DEF Pieces

\* One sequence more does not change the steps before.
LEMMA PiecesAgree ==
  ASSUME NEW s, NEW t, NEW n \in Nat, NEW m \in Nat, m = n + 1,
         NEW f, NEW g, Pieces(s, n, f), Pieces(t, m, g),
         \A i \in 1 .. n : t[i] = s[i]
  PROVE  \A i \in 1 .. n : g[i] = f[i]
  <1> DEFINE S == {i \in Nat : i \in 1 .. n => f[i] = g[i]}
  <1>1. 0 \in S OBVIOUS
  <1>2. ASSUME NEW i \in Nat, i \in S PROVE i + 1 \in S
    <2> SUFFICES ASSUME i + 1 \in 1 .. n PROVE f[i + 1] = g[i + 1] OBVIOUS
    <2>1. f[i + 1] = IF i + 1 = 1 THEN s[i + 1] ELSE f[(i + 1) - 1] \o s[i + 1]
      BY PiecesAt
    <2>2. g[i + 1] = IF i + 1 = 1 THEN t[i + 1] ELSE g[(i + 1) - 1] \o t[i + 1]
      <3>1. i + 1 \in 1 .. m OBVIOUS
      <3> QED BY <3>1, PiecesAt
    <2>3. (i + 1) - 1 = i /\ s[i + 1] = t[i + 1] /\ (i + 1 # 1 => f[i] = g[i]) BY <1>2
    <2> QED BY <2>1, <2>2, <2>3
  <1> HIDE DEF S
  <1>3. \A i \in Nat : i \in S BY <1>1, <1>2, SetInduction
  <1> QED BY <1>3 DEF S

\* One sequence more is concatenated at the end.
LEMMA FlattenAppend ==
  ASSUME NEW s, NEW t, NEW n \in Nat, Len(s) = n, Len(t) = n + 1,
         \A i \in 1 .. n : t[i] = s[i], n = 0 => s = <<>>,
         NEW B, t[n + 1] \in Seq(B)
  PROVE  FlattenSeq(t) = FlattenSeq(s) \o t[n + 1]
  <1>1. FlattenSeq(t) = (CHOOSE f : Pieces(t, n + 1, f))[n + 1] BY FlattenChoice
  <1> DEFINE g == CHOOSE f : Pieces(t, n + 1, f)
             h == CHOOSE f : Pieces(s, n, f)
  <1>2. Pieces(t, n + 1, g) /\ Pieces(s, n, h)
    <2>1. n + 1 \in Nat OBVIOUS
    <2>2. (\E f : Pieces(t, n + 1, f)) /\ (\E f : Pieces(s, n, f)) BY <2>1, PiecesExist
    <2> QED BY <2>2
  <1> HIDE DEF g, h
  <1>3. g[n + 1] = IF n + 1 = 1 THEN t[n + 1] ELSE g[(n + 1) - 1] \o t[n + 1]
    <2>1. n + 1 \in Nat /\ n + 1 \in 1 .. n + 1 OBVIOUS
    <2> QED BY <1>2, <2>1, PiecesAt
  <1>4. CASE n = 0
    <2>1. FlattenSeq(s) = <<>> BY <1>4 DEF FlattenSeq
    <2>2. <<>> \o t[n + 1] = t[n + 1] BY ConcatEmptySeq
    <2> QED BY <1>1, <1>3, <1>4, <2>1, <2>2 DEF g
  <1>5. CASE n # 0
    <2>1. FlattenSeq(s) = h[n] BY <1>5, FlattenChoice DEF h
    <2>2. \A i \in 1 .. n : g[i] = h[i]
      <3> DEFINE m == n + 1
      <3>1. m \in Nat /\ m = n + 1 OBVIOUS
      <3>2. Pieces(s, n, h) /\ Pieces(t, m, g) BY <1>2
      <3> HIDE DEF m
      <3> QED BY <3>1, <3>2, PiecesAgree
    <2>3. h[n] = g[n] BY <1>5, <2>2
    <2>4. (n + 1) - 1 = n /\ n + 1 # 1 BY <1>5
    <2> QED BY <1>1, <1>3, <2>1, <2>3, <2>4 DEF g
  <1> QED BY <1>4, <1>5

-----------------------------------------------------------------------------
(* Streams: the bytes of the first n requests or answers, of lengths l.    *)

Stream(l, n) == FlattenSeq([i \in 1 .. n |-> BytesOf(i, l[i])])

\* What is left to read of a buffer.
Rest(b) == SubSeq(b.data, b.read + 1, Len(b.data))

\* The parts of a stream.
LEMMA StreamParts ==
  ASSUME NEW l, NEW n \in Nat, \A i \in 1 .. n : l[i] \in Nat
  PROVE  /\ [i \in 1 .. n |-> BytesOf(i, l[i])] \in Seq(Seq(Bytes))
         /\ Len([i \in 1 .. n |-> BytesOf(i, l[i])]) = n
  <1> DEFINE s == [i \in 1 .. n |-> BytesOf(i, l[i])]
  <1>1. s \in [1 .. n -> Seq(Bytes)]
    <2>1. ASSUME NEW i \in 1 .. n PROVE BytesOf(i, l[i]) \in Seq(Bytes)
      <3>1. i \in Nat /\ l[i] \in Nat BY <2>1
      <3> QED BY <3>1, BytesOfType
    <2> QED BY <2>1
  <1> HIDE DEF s
  <1>2. s \in Seq(Seq(Bytes)) /\ Len(s) = n BY <1>1
  <1> QED BY <1>2 DEF s

\* Nothing has no bytes.
LEMMA StreamEmpty ==
  ASSUME NEW l
  PROVE  Stream(l, 0) = <<>>
  <1> DEFINE s == [i \in 1 .. 0 |-> BytesOf(i, l[i])]
  <1>1. s \in Seq(Seq(Bytes)) /\ Len(s) = 0 BY StreamParts
  <1> HIDE DEF s
  <1>2. s = <<>> BY <1>1, EmptySeq
  <1>3. FlattenSeq(s) = <<>> BY <1>1, <1>2 DEF FlattenSeq
  <1> QED BY <1>3 DEF Stream, s

\* One more puts its bytes at the end.
LEMMA StreamNext ==
  ASSUME NEW l, NEW n \in Nat, \A i \in 1 .. n + 1 : l[i] \in Nat
  PROVE  Stream(l, n + 1) = Stream(l, n) \o BytesOf(n + 1, l[n + 1])
  <1> DEFINE s == [i \in 1 .. n |-> BytesOf(i, l[i])]
             t == [i \in 1 .. n + 1 |-> BytesOf(i, l[i])]
  <1>1. s \in Seq(Seq(Bytes)) /\ Len(s) = n BY StreamParts
  <1>2. t \in Seq(Seq(Bytes)) /\ Len(t) = n + 1
    <2> DEFINE m == n + 1
    <2>1. m \in Nat /\ \A i \in 1 .. m : l[i] \in Nat OBVIOUS
    <2> HIDE DEF m
    <2>2. /\ [i \in 1 .. m |-> BytesOf(i, l[i])] \in Seq(Seq(Bytes))
          /\ Len([i \in 1 .. m |-> BytesOf(i, l[i])]) = m
      BY <2>1, StreamParts
    <2> QED BY <2>2 DEF m
  <1>3. \A i \in 1 .. n : t[i] = s[i] OBVIOUS
  <1>4. t[n + 1] = BytesOf(n + 1, l[n + 1]) OBVIOUS
  <1> HIDE DEF s, t
  <1>5. n = 0 => s = <<>> BY <1>1, EmptySeq
  <1>6. t[n + 1] \in Seq(Bytes)
    <2>1. n + 1 \in Nat /\ n + 1 \in 1 .. n + 1 OBVIOUS
    <2>2. l[n + 1] \in Nat BY <2>1
    <2> QED BY <1>4, <2>1, <2>2, BytesOfType
  <1>7. FlattenSeq(t) = FlattenSeq(s) \o t[n + 1]
    BY <1>1, <1>2, <1>3, <1>5, <1>6, FlattenAppend
  <1> QED BY <1>4, <1>7 DEF Stream, s, t

\* It is a sequence of bytes.
LEMMA StreamType ==
  ASSUME NEW l
  PROVE  \A n \in Nat : (\A i \in 1 .. n : l[i] \in Nat) => Stream(l, n) \in Seq(Bytes)
  <1> DEFINE S == {n \in Nat : (\A i \in 1 .. n : l[i] \in Nat) => Stream(l, n) \in Seq(Bytes)}
  <1>1. 0 \in S BY StreamEmpty, EmptySeq
  <1>2. ASSUME NEW n \in Nat, n \in S PROVE n + 1 \in S
    <2> SUFFICES ASSUME \A i \in 1 .. n + 1 : l[i] \in Nat
                 PROVE  Stream(l, n + 1) \in Seq(Bytes)
      OBVIOUS
    <2>1. Stream(l, n) \in Seq(Bytes) BY <1>2
    <2>2. n + 1 \in Nat /\ l[n + 1] \in Nat OBVIOUS
    <2>3. BytesOf(n + 1, l[n + 1]) \in Seq(Bytes) BY <2>2, BytesOfType
    <2>4. Stream(l, n + 1) = Stream(l, n) \o BytesOf(n + 1, l[n + 1]) BY StreamNext
    <2> QED BY <2>1, <2>3, <2>4, ConcatProperties
  <1> HIDE DEF S
  <1>3. \A n \in Nat : n \in S BY <1>1, <1>2, SetInduction
  <1> QED BY <1>3 DEF S

\* It depends on the lengths of its parts only.
LEMMA StreamSame ==
  ASSUME NEW l, NEW m, NEW n \in Nat, \A i \in 1 .. n : l[i] = m[i]
  PROVE  Stream(l, n) = Stream(m, n)
  <1>1. [i \in 1 .. n |-> BytesOf(i, l[i])] = [i \in 1 .. n |-> BytesOf(i, m[i])] OBVIOUS
  <1> QED BY <1>1 DEF Stream

-----------------------------------------------------------------------------
(* What the operations on buffers leave to read.                           *)

\* A sequence cut in two.
LEMMA CutInTwo ==
  ASSUME NEW s \in Seq(Bytes), NEW m \in Nat, NEW n \in Nat, m <= n, n <= Len(s)
  PROVE  SubSeq(s, m + 1, n) \o SubSeq(s, n + 1, Len(s)) = SubSeq(s, m + 1, Len(s))
  <1>1. Len(s) \in Nat BY LenProperties
  <1>2. /\ m + 1 \in 1 .. Len(s) + 1 /\ n \in (m + 1) - 1 .. Len(s)
        /\ Len(s) \in n .. Len(s)
    BY <1>1
  <1> QED BY <1>2, ConcatAdjacentSubSeq

\* The rest is a sequence of bytes, as many as there are to read.
LEMMA RestType ==
  ASSUME NEW b, GoodBuffer(b)
  PROVE  Rest(b) \in Seq(Bytes) /\ Len(Rest(b)) = Unread(b)
  BY BufferFields, LenProperties, PartOf DEF Rest, Unread

\* What is stored comes last.
LEMMA RestStored ==
  ASSUME NEW b, GoodBuffer(b), NEW s \in Seq(Bytes)
  PROVE  Rest(Stored(b, s)) = Rest(b) \o s
  <1> DEFINE d == b.data
             r == b.read
             all == d \o s
  <1>1. d \in Seq(Bytes) /\ r \in Nat /\ r <= Len(d) /\ Len(d) \in Nat /\ Len(s) \in Nat
    BY BufferFields, LenProperties
  <1>2. Stored(b, s).data = all /\ Stored(b, s).read = r BY DEF Stored, GoodBuffer, Buffers
  <1> HIDE DEF d, r
  <1>3. /\ all \in Seq(Bytes) /\ Len(all) = Len(d) + Len(s)
        /\ \A i \in 1 .. Len(d) + Len(s) : all[i] = IF i <= Len(d) THEN d[i] ELSE s[i - Len(d)]
    BY <1>1, ConcatProperties
  <1> HIDE DEF all
  <1> DEFINE x == SubSeq(all, r + 1, Len(all))
             y == SubSeq(d, r + 1, Len(d))
  <1>4. /\ x \in Seq(Bytes) /\ Len(x) = Len(d) + Len(s) - r
        /\ y \in Seq(Bytes) /\ Len(y) = Len(d) - r
    BY <1>1, <1>3, PartOf
  <1>5. \A i \in 1 .. Len(d) + Len(s) - r : x[i] = all[r + i]
    BY <1>1, <1>3
  <1>6. \A i \in 1 .. Len(d) - r : y[i] = d[r + i]
    BY <1>1
  <1>7. Rest(Stored(b, s)) = x /\ Rest(b) = y BY <1>2 DEF Rest, d, r
  <1> HIDE DEF x, y
  <1>8. /\ y \o s \in Seq(Bytes) /\ Len(y \o s) = Len(y) + Len(s)
        /\ \A i \in 1 .. Len(y) + Len(s) : (y \o s)[i] = IF i <= Len(y) THEN y[i] ELSE s[i - Len(y)]
    BY <1>4, ConcatProperties
  <1>9. \A i \in 1 .. Len(x) : x[i] = (y \o s)[i]
    <2> SUFFICES ASSUME NEW i \in 1 .. Len(x) PROVE x[i] = (y \o s)[i] OBVIOUS
    <2>1. i \in 1 .. Len(d) + Len(s) - r /\ r + i \in 1 .. Len(d) + Len(s)
          /\ i \in 1 .. Len(y) + Len(s)
      BY <1>1, <1>4
    <2>2. x[i] = IF r + i <= Len(d) THEN d[r + i] ELSE s[(r + i) - Len(d)]
      BY <1>3, <1>5, <2>1
    <2>3. (y \o s)[i] = IF i <= Len(y) THEN y[i] ELSE s[i - Len(y)] BY <1>8, <2>1
    <2>4. CASE r + i <= Len(d)
      <3>1. i \in 1 .. Len(d) - r /\ i <= Len(y) BY <1>1, <1>4, <2>1, <2>4
      <3> QED BY <1>6, <2>2, <2>3, <2>4, <3>1
    <2>5. CASE ~(r + i <= Len(d))
      <3>1. ~(i <= Len(y)) /\ (r + i) - Len(d) = i - Len(y) BY <1>1, <1>4, <2>1, <2>5
      <3> QED BY <2>2, <2>3, <2>5, <3>1
    <2> QED BY <2>4, <2>5
  <1>10. Len(x) = Len(y \o s) BY <1>1, <1>4, <1>8
  <1> QED BY <1>4, <1>7, <1>8, <1>9, <1>10, SeqEqual

\* BufferClean moves the rest.
LEMMA RestCleaned ==
  ASSUME NEW b, GoodBuffer(b)
  PROVE  Rest(Cleaned(b)) = Rest(b)
  <1>1. CASE b.read = 0 BY <1>1 DEF Cleaned
  <1>2. CASE b.read # 0
    <2> DEFINE rest == SubSeq(b.data, b.read + 1, Len(b.data))
               size == Shrunk(b, Unread(b))
    <2>1. Cleaned(b) = [b EXCEPT !.data = rest, !.read = 0, !.size = size]
      BY <1>2 DEF Cleaned
    <2>2. rest \in Seq(Bytes) /\ Rest(b) = rest BY RestType DEF Rest
    <2> HIDE DEF rest, size
    <2>3. Cleaned(b).data = rest /\ Cleaned(b).read = 0 BY <2>1 DEF GoodBuffer, Buffers
    <2>4. SubSeq(rest, 1, Len(rest)) = rest BY <2>2, SubSeqFull
    <2>5. Rest(Cleaned(b)) = SubSeq(rest, 0 + 1, Len(rest)) BY <2>3 DEF Rest
    <2>6. 0 + 1 = 1 OBVIOUS
    <2> QED BY <2>2, <2>4, <2>5, <2>6
  <1> QED BY <1>1, <1>2

\* What is read is taken off the front.
LEMMA RestRead ==
  ASSUME NEW b, GoodBuffer(b), NEW n \in Nat, n <= Unread(b)
  PROVE  /\ GoodBuffer([b EXCEPT !.read = @ + n])
         /\ SubSeq(b.data, b.read + 1, b.read + n) \in Seq(Bytes)
         /\ Rest(b) = SubSeq(b.data, b.read + 1, b.read + n) \o Rest([b EXCEPT !.read = @ + n])
  <1> DEFINE c == [b EXCEPT !.read = @ + n]
  <1>1. b.read \in Nat /\ Len(b.data) \in Nat /\ b.data \in Seq(Bytes) /\ b.read <= Len(b.data)
    BY BufferFields, LenProperties
  <1>2. b.read + n <= Len(b.data) /\ b.read + n \in Nat /\ b.read <= b.read + n
    BY <1>1 DEF Unread
  <1>3. c.data = b.data /\ c.read = b.read + n /\ GoodBuffer(c)
    BY <1>2 DEF GoodBuffer, Buffers
  <1>4. SubSeq(b.data, b.read + 1, b.read + n) \in Seq(Bytes) BY <1>1, <1>2, PartOf
  <1> HIDE DEF c
  <1>5. Rest(c) = SubSeq(b.data, (b.read + n) + 1, Len(b.data)) BY <1>3 DEF Rest
  <1>6. SubSeq(b.data, b.read + 1, b.read + n) \o SubSeq(b.data, (b.read + n) + 1, Len(b.data))
          = SubSeq(b.data, b.read + 1, Len(b.data))
    BY <1>1, <1>2, CutInTwo
  <1>7. Rest(b) = SubSeq(b.data, b.read + 1, b.read + n) \o Rest(c) BY <1>5, <1>6 DEF Rest
  <1> QED BY <1>3, <1>4, <1>7 DEF c

\* fastClean is not content.
LEMMA RestFastClean ==
  ASSUME NEW b, GoodBuffer(b), NEW f \in BOOLEAN
  PROVE  Rest([b EXCEPT !.fastClean = f]) = Rest(b)
  BY DEF Rest, GoodBuffer, Buffers

\* Both ways to answer add the bytes of the answer.
LEMMA RestAnswered ==
  ASSUME NEW b, GoodBuffer(b), NEW i \in Nat, NEW n \in Replies, NEW c \in Answered(b, i, n)
  PROVE  Rest(c) = Rest(b) \o BytesOf(i, n)
  <1> DEFINE s == BytesOf(i, n)
  <1>1. n \in Nat /\ Header \in Nat BY SizesAssumption
  <1>2. s \in Seq(Bytes) /\ Len(s) = Header + n BY <1>1, BytesOfType
  <1> HIDE DEF s
  <1>3. ASSUME NEW m \in Replies, m >= n
        PROVE  Rest(Stored(Ensured(b, Header + m), s)) = Rest(b) \o s
    <2>1. Header + m \in Nat BY <1>1, SizesAssumption
    <2> DEFINE e == Ensured(b, Header + m)
    <2>2. GoodBuffer(e) /\ e.data = b.data /\ e.read = b.read BY <2>1, EnsuredGood
    <2> HIDE DEF e
    <2>3. Rest(e) = Rest(b) BY <2>2 DEF Rest
    <2>4. Rest(Stored(e, s)) = Rest(e) \o s BY <1>2, <2>2, RestStored
    <2> QED BY <2>3, <2>4 DEF e
  <1> DEFINE h == SubSeq(s, 1, Header)
             t == SubSeq(s, Header + 1, Header + n)
  <1>4. Rest(PutRawData(PutInt32(b, h), t)) = Rest(b) \o s
    <2>1. SubSeq(s, 0 + 1, Header) \in Seq(Bytes) /\ Len(SubSeq(s, 0 + 1, Header)) = Header - 0
      BY <1>1, <1>2, PartOf
    <2>2. h \in Seq(Bytes) /\ Len(h) = Header BY <1>1, <2>1
    <2>3. t \in Seq(Bytes) BY <1>1, <1>2, PartOf
    <2>4. h \o t = s
      <3>1. SubSeq(s, 0 + 1, Header) \o SubSeq(s, Header + 1, Len(s)) = SubSeq(s, 0 + 1, Len(s))
        BY <1>1, <1>2, CutInTwo
      <3>2. SubSeq(s, 1, Len(s)) = s BY <1>2, SubSeqFull
      <3>3. 0 + 1 = 1 OBVIOUS
      <3> QED BY <1>2, <3>1, <3>2, <3>3
    <2> HIDE DEF h, t
    <2> DEFINE p == PutInt32(b, h)
    <2>5. GoodBuffer(p) BY <2>2, PutInt32Good
    <2>6. Rest(p) = Rest(b) \o h
      <3> DEFINE e == IF Len(b.data) + Len(h) > b.size THEN [b EXCEPT !.size = @ + Grow] ELSE b
      <3>1. Grow \in Nat /\ Header <= Grow BY SizesAssumption
      <3>2. GoodBuffer(e) /\ e.data = b.data /\ e.read = b.read
        BY <3>1, BufferFields, LenProperties DEF GoodBuffer, Buffers
      <3>3. p = Stored(e, h) BY DEF PutInt32
      <3> HIDE DEF e, p
      <3>4. Rest(e) = Rest(b) BY <3>2 DEF Rest
      <3> QED BY <2>2, <3>2, <3>3, <3>4, RestStored
    <2> HIDE DEF p
    <2>7. Rest(PutRawData(p, t)) = Rest(p) \o t
      <3> DEFINE e == IF Len(p.data) + Len(t) > p.size
                      THEN [p EXCEPT !.size = Len(p.data) + Len(t) + Grow] ELSE p
      <3>1. Grow \in Nat BY SizesAssumption
      <3>2. GoodBuffer(e) /\ e.data = p.data /\ e.read = p.read
        <4> DEFINE size == Len(p.data) + Len(t) + Grow
        <4>1. /\ Len(p.data) \in Nat /\ Len(t) \in Nat /\ Len(p.data) <= p.size
              /\ size \in Nat /\ Len(p.data) <= size
          BY <2>3, <2>5, <3>1, BufferFields, LenProperties
        <4>2. e = IF Len(p.data) + Len(t) > p.size THEN [p EXCEPT !.size = size] ELSE p
          OBVIOUS
        <4> HIDE DEF size, e
        <4> QED BY <2>5, <4>1, <4>2 DEF GoodBuffer, Buffers
      <3>3. PutRawData(p, t) = Stored(e, t) BY DEF PutRawData
      <3> HIDE DEF e
      <3>4. Rest(e) = Rest(p) BY <3>2 DEF Rest
      <3> QED BY <2>3, <3>2, <3>3, <3>4, RestStored
    <2>8. (Rest(b) \o h) \o t = Rest(b) \o (h \o t)
      BY <2>2, <2>3, RestType, ConcatAssociative
    <2> QED BY <2>4, <2>6, <2>7, <2>8 DEF p
  <1>5. Answered(b, i, n) =
          {Stored(Ensured(b, Header + m), s) : m \in {r \in Replies : r >= n}} \cup
          {PutRawData(PutInt32(b, h), t)}
    BY DEF Answered, s
  <1>6. Rest(c) = Rest(b) \o s BY <1>3, <1>4, <1>5
  <1> QED BY <1>6 DEF s

-----------------------------------------------------------------------------
(* The answers.                                                            *)

\* Inductive with the types: it holds after the end of the session as well.
AnswersInv == got \o Rest(bOut) = Stream(answers, Len(answers))

\* The lengths of answers are numbers.
LEMMA AnswersAre ==
  ASSUME ChannelInv
  PROVE  /\ Len(answers) \in Nat
         /\ \A i \in 1 .. Len(answers) : answers[i] \in Nat
         /\ got \in Seq(Bytes) /\ Rest(bOut) \in Seq(Bytes)
  BY InvIs, LenProperties, ElementOfSeq, SizesAssumption, RestType

\* A write: what the client receives is what leaves the buffer.
LEMMA TransmitAnswers == ChannelInv /\ AnswersInv /\ Transmit => AnswersInv'
  <1> SUFFICES ASSUME ChannelInv, AnswersInv, Transmit PROVE AnswersInv' OBVIOUS
  <1>1. CASE UNCHANGED <<got, bOut>>
    <2>1. answers' = answers BY DEF Transmit
    <2> QED BY <1>1, <2>1 DEF AnswersInv, Rest
  <1>2. ASSUME NEW n \in 1 .. Unread(bOut),
               got' = got \o SubSeq(bOut.data, bOut.read + 1, bOut.read + n),
               bOut' = Cleaned([bOut EXCEPT !.read = @ + n])
        PROVE  AnswersInv'
    <2> DEFINE piece == SubSeq(bOut.data, bOut.read + 1, bOut.read + n)
               left == [bOut EXCEPT !.read = @ + n]
    <2>1. n \in Nat /\ n <= Unread(bOut) /\ GoodBuffer(bOut) /\ answers' = answers
      <3>1. GoodBuffer(bOut) BY InvIs
      <3>2. Unread(bOut) \in Nat BY <3>1, BufferFields, LenProperties DEF Unread
      <3> QED BY <3>1, <3>2 DEF Transmit
    <2>2. GoodBuffer(left) /\ piece \in Seq(Bytes) /\ Rest(bOut) = piece \o Rest(left)
      BY <2>1, RestRead
    <2> HIDE DEF piece, left
    <2>3. bOut' = Cleaned(left) /\ got' = got \o piece BY <1>2 DEF piece, left
    <2>4. Rest(bOut)' = Rest(left)
      <3>1. Rest(bOut)' = Rest(bOut') BY DEF Rest
      <3>2. Rest(bOut') = Rest(left) BY <2>2, <2>3, RestCleaned
      <3> QED BY <3>1, <3>2
    <2>5. (got \o piece) \o Rest(left) = got \o (piece \o Rest(left))
      BY <2>2, AnswersAre, RestType, ConcatAssociative
    <2> QED BY <2>1, <2>2, <2>3, <2>4, <2>5 DEF AnswersInv, Stream
  <1> QED BY <1>1, <1>2 DEF Transmit

\* An answer is added at the end of what is on its way.
LEMMA HandleAnswers ==
  ASSUME ChannelInv, AnswersInv, NEW kind, NEW input, Handle(kind, input), UNCHANGED got
  PROVE  AnswersInv'
  <1> DEFINE how == Dispatched(conn, kind)
  <1>1. \E f \in CleanAfter(how, kind) :
          \E n \in Replies :
             /\ answers' = Append(answers, n)
             /\ \E b \in Answered(bOut, Len(answers) + 1, n) : bOut' = [b EXCEPT !.fastClean = f]
    BY DEF Handle
  <1>2. PICK f \in CleanAfter(how, kind), n \in Replies :
             /\ answers' = Append(answers, n)
             /\ \E b \in Answered(bOut, Len(answers) + 1, n) : bOut' = [b EXCEPT !.fastClean = f]
    BY <1>1
  <1>3. PICK b \in Answered(bOut, Len(answers) + 1, n) : bOut' = [b EXCEPT !.fastClean = f]
    BY <1>2
  <1>4. GoodBuffer(bOut) /\ bIn.fastClean \in BOOLEAN /\ got' = got
    BY InvIs, InputFields
  <1>5. f \in BOOLEAN BY <1>4 DEF CleanAfter
  <1> DEFINE k == Len(answers)
  <1>6. k \in Nat /\ k + 1 \in Nat BY AnswersAre
  <1>7. GoodBuffer(b) /\ Rest(b) = Rest(bOut) \o BytesOf(k + 1, n)
    BY <1>3, <1>4, <1>6, AnsweredGood, RestAnswered
  <1>8. Rest(bOut)' = Rest(bOut) \o BytesOf(k + 1, n)
    <2>1. Rest(bOut)' = Rest(bOut') BY DEF Rest
    <2>2. Rest(bOut') = Rest(b) BY <1>3, <1>5, <1>7, RestFastClean
    <2> QED BY <1>7, <2>1, <2>2
  <1>9. /\ n \in Nat /\ answers \in Seq(Replies) /\ Len(answers') = k + 1
        /\ answers'[k + 1] = n
        /\ \A i \in 1 .. k : answers'[i] = answers[i]
    BY <1>2, InvIs, SizesAssumption, AppendProperties
  <1>10. Stream(answers', k + 1) = Stream(answers, k) \o BytesOf(k + 1, n)
    <2>1. ASSUME NEW i \in 1 .. k + 1 PROVE answers'[i] \in Nat
      <3> HIDE DEF k
      <3>1. i = k + 1 \/ i \in 1 .. k BY <1>6, <2>1
      <3>2. CASE i = k + 1 BY <1>9, <3>2
      <3>3. CASE i \in 1 .. k
        <4>1. answers[i] \in Nat BY <3>3, AnswersAre DEF k
        <4> QED BY <1>9, <3>3, <4>1
      <3> QED BY <3>1, <3>2, <3>3
    <2>2. Stream(answers', k + 1) = Stream(answers', k) \o BytesOf(k + 1, answers'[k + 1])
      BY <1>6, <2>1, StreamNext
    <2>3. Stream(answers', k) = Stream(answers, k) BY <1>6, <1>9, StreamSame
    <2> QED BY <1>9, <2>2, <2>3
  <1>11. (got \o Rest(bOut)) \o BytesOf(k + 1, n) = got \o (Rest(bOut) \o BytesOf(k + 1, n))
    <2>1. BytesOf(k + 1, n) \in Seq(Bytes) BY <1>6, <1>9, BytesOfType
    <2>2. got \in Seq(Bytes) /\ Rest(bOut) \in Seq(Bytes) BY AnswersAre
    <2> HIDE DEF k
    <2> QED BY <2>1, <2>2, ConcatAssociative
  <1>12. Stream(answers, Len(answers))' = Stream(answers', k + 1) BY <1>9 DEF Stream
  <1> QED BY <1>4, <1>8, <1>10, <1>11, <1>12 DEF AnswersInv

\* The answers of a session, received and on their way.
LEMMA AnswersAlways == Spec => [](ChannelInv /\ AnswersInv)
  <1>1. Init => AnswersInv
    <2> SUFFICES ASSUME Init PROVE AnswersInv OBVIOUS
    <2>1. got = <<>> /\ answers = <<>> /\ Len(answers) = 0 /\ bOut.data = <<>> /\ bOut.read = 0
      BY DEF Init, BufferNew
    <2>2. GoodBuffer(bOut) BY InitInv, InvIs
    <2>3. Rest(bOut) \in Seq(Bytes) /\ Len(Rest(bOut)) = 0 BY <2>1, <2>2, RestType DEF Unread
    <2>4. Rest(bOut) = <<>> BY <2>3, EmptySeq
    <2>5. <<>> \o <<>> = <<>> BY <2>3, <2>4, ConcatEmptySeq
    <2> QED BY <2>1, <2>4, <2>5, StreamEmpty DEF AnswersInv
  <1>2. ChannelInv /\ AnswersInv /\ [Next]_vars => (ChannelInv /\ AnswersInv)'
    <2> SUFFICES ASSUME ChannelInv, AnswersInv, [Next]_vars PROVE (ChannelInv /\ AnswersInv)'
      OBVIOUS
    <2>1. ChannelInv'
      BY AskInv, LeaveInv, ReceiveInv, TransmitInv, ParseInv, StutterInv DEF Next
    <2>2. AnswersInv'
      <3>1. CASE Transmit BY <3>1, TransmitAnswers
      <3>2. CASE Serve BY <3>2, HandleAnswers DEF Serve
      <3>3. CASE UNCHANGED <<got, bOut, answers>>
        BY <3>3 DEF AnswersInv, Rest, Stream
      <3>4. CASE Astray BY <3>3, <3>4, HandleAnswers DEF Astray
      <3> QED BY <3>1, <3>2, <3>3, <3>4
              DEF Next, Parse, Ask, Leave, Receive, HeaderTooSmall, TooLong, NotComplete, vars
    <2> QED BY <2>1, <2>2
  <1> QED BY InitInv, <1>1, <1>2, PTL DEF Spec

\* What the client has received and what is on its way are the answers, byte
\* for byte, for all sizes of buffers, writes and answers.
THEOREM AnswersAreWhole == Spec => []AnswersInOrder
  <1>1. ChannelInv /\ AnswersInv => AnswersInOrder
    BY DEF AnswersInv, AnswersInOrder, AnswersUpTo, Stream, Rest
  <1> QED BY AnswersAlways, <1>1, PTL

-----------------------------------------------------------------------------
(* The requests.                                                           *)

Lengths == [i \in DOMAIN asked |-> asked[i].sent]

(* What has not been served, in bIn and on the way, follows what has been, *)
(* as long as the stream is not lost; a client that leaves takes the end   *)
(* of its stream with it.                                                  *)
RequestsInv ==
  /\ Len(served) <= Len(asked)
  /\ \E x \in Seq(Bytes) :
       /\ (Stream(Lengths, Len(served)) \o (Rest(bIn) \o wire)) \o x = Stream(Lengths, Len(asked))
       /\ ~gone => x = <<>>

\* The types of the parts.
LEMMA RequestsAre ==
  ASSUME ChannelInv
  PROVE  /\ Len(asked) \in Nat /\ Len(served) \in Nat
         /\ DOMAIN asked = 1 .. Len(asked)
         /\ \A i \in 1 .. Len(asked) : asked[i] \in Requests /\ Lengths[i] = asked[i].sent
         /\ \A i \in 1 .. Len(asked) : Lengths[i] \in Nat
         /\ wire \in Seq(Bytes) /\ (~lost => GoodBuffer(bIn) /\ Rest(bIn) \in Seq(Bytes))
         /\ Stream(Lengths, Len(asked)) \in Seq(Bytes)
         /\ Len(served) <= Len(asked) => Stream(Lengths, Len(served)) \in Seq(Bytes)
  <1>1. /\ Len(asked) \in Nat /\ Len(served) \in Nat /\ DOMAIN asked = 1 .. Len(asked)
        /\ \A i \in 1 .. Len(asked) : asked[i] \in Requests
    BY InvIs, LenProperties, ElementOfSeq
  <1>2. \A i \in 1 .. Len(asked) : Lengths[i] = asked[i].sent BY <1>1 DEF Lengths
  <1>3. \A i \in 1 .. Len(asked) : Lengths[i] \in Nat
    BY <1>1, <1>2, RequestsAssumption
  <1>4. wire \in Seq(Bytes) /\ (~lost => GoodBuffer(bIn) /\ Rest(bIn) \in Seq(Bytes))
    BY InvIs, RestType
  <1>5. Stream(Lengths, Len(asked)) \in Seq(Bytes) BY <1>1, <1>3, StreamType
  <1>6. ASSUME Len(served) <= Len(asked) PROVE Stream(Lengths, Len(served)) \in Seq(Bytes)
    <2>1. \A i \in 1 .. Len(served) : Lengths[i] \in Nat BY <1>1, <1>3, <1>6
    <2> QED BY <1>1, <2>1, StreamType
  <1> QED BY <1>1, <1>2, <1>3, <1>4, <1>5, <1>6

\* A stream begins with each shorter one.
LEMMA StreamFront ==
  ASSUME NEW l, NEW k \in Nat
  PROVE  \A n \in Nat : (\A i \in 1 .. k + n : l[i] \in Nat) =>
           \E t \in Seq(Bytes) : Stream(l, k + n) = Stream(l, k) \o t
  <1> DEFINE S == {n \in Nat : (\A i \in 1 .. k + n : l[i] \in Nat) =>
                     \E t \in Seq(Bytes) : Stream(l, k + n) = Stream(l, k) \o t}
  <1>1. 0 \in S
    <2> SUFFICES ASSUME \A i \in 1 .. k + 0 : l[i] \in Nat
                 PROVE  \E t \in Seq(Bytes) : Stream(l, k + 0) = Stream(l, k) \o t
      OBVIOUS
    <2>1. k + 0 = k OBVIOUS
    <2>2. Stream(l, k) \in Seq(Bytes) BY <2>1, StreamType
    <2>3. Stream(l, k) \o <<>> = Stream(l, k) BY <2>2, ConcatEmptySeq
    <2>4. <<>> \in Seq(Bytes) BY EmptySeq
    <2> QED BY <2>1, <2>3, <2>4
  <1>2. ASSUME NEW n \in Nat, n \in S PROVE n + 1 \in S
    <2> SUFFICES ASSUME \A i \in 1 .. k + (n + 1) : l[i] \in Nat
                 PROVE  \E t \in Seq(Bytes) : Stream(l, k + (n + 1)) = Stream(l, k) \o t
      OBVIOUS
    <2> DEFINE m == k + n
    <2>1. m \in Nat /\ k + (n + 1) = m + 1 /\ k <= m OBVIOUS
    <2>2. \A i \in 1 .. m + 1 : l[i] \in Nat BY <2>1
    <2>3. \A i \in 1 .. m : l[i] \in Nat BY <2>1, <2>2
    <2>4. PICK t \in Seq(Bytes) : Stream(l, m) = Stream(l, k) \o t BY <1>2, <2>3
    <2> HIDE DEF m
    <2>5. Stream(l, m + 1) = Stream(l, m) \o BytesOf(m + 1, l[m + 1]) BY <2>1, <2>2, StreamNext
    <2>6. l[m + 1] \in Nat /\ m + 1 \in Nat BY <2>1, <2>2
    <2>7. BytesOf(m + 1, l[m + 1]) \in Seq(Bytes) BY <2>6, BytesOfType
    <2>8. Stream(l, k) \in Seq(Bytes)
      <3>1. \A i \in 1 .. k : l[i] \in Nat BY <2>1, <2>3
      <3> QED BY <3>1, StreamType
    <2>9. (Stream(l, k) \o t) \o BytesOf(m + 1, l[m + 1])
            = Stream(l, k) \o (t \o BytesOf(m + 1, l[m + 1]))
      BY <2>7, <2>8, ConcatAssociative
    <2>10. t \o BytesOf(m + 1, l[m + 1]) \in Seq(Bytes) BY <2>7, ConcatProperties
    <2> QED BY <2>1, <2>4, <2>5, <2>9, <2>10
  <1> HIDE DEF S
  <1>3. \A n \in Nat : n \in S BY <1>1, <1>2, SetInduction
  <1> QED BY <1>3 DEF S

\* The bytes that two equal concatenations have in common.
LEMMA SameFront ==
  ASSUME NEW p \in Seq(Bytes), NEW q \in Seq(Bytes), NEW b \in Seq(Bytes), NEW t \in Seq(Bytes),
         p \o q = b \o t
  PROVE  \A i \in 1 .. Len(p) : i <= Len(b) => p[i] = b[i]
  <1> SUFFICES ASSUME NEW i \in 1 .. Len(p), i <= Len(b) PROVE p[i] = b[i] OBVIOUS
  <1>1. Len(p) \in Nat /\ Len(q) \in Nat /\ Len(b) \in Nat /\ Len(t) \in Nat BY LenProperties
  <1>2. i \in 1 .. Len(p) + Len(q) /\ i \in 1 .. Len(b) + Len(t) BY <1>1
  <1>3. (p \o q)[i] = IF i <= Len(p) THEN p[i] ELSE q[i - Len(p)] BY <1>2, ConcatProperties
  <1>4. (b \o t)[i] = IF i <= Len(b) THEN b[i] ELSE t[i - Len(b)] BY <1>2, ConcatProperties
  <1> QED BY <1>3, <1>4

\* Concatenation is associative.
LEMMA Associative ==
  ASSUME NEW s \in Seq(Bytes), NEW t \in Seq(Bytes), NEW u \in Seq(Bytes)
  PROVE  (s \o t) \o u = s \o (t \o u)
  BY ConcatAssociative

\* Concatenation, as an operator whose definition may be hidden.
Cat(s, t) == s \o t

LEMMA CatIs ==
  ASSUME NEW s \in Seq(Bytes), NEW t \in Seq(Bytes), NEW u \in Seq(Bytes)
  PROVE  Cat(s, t) \in Seq(Bytes) /\ Cat(Cat(s, t), u) = Cat(s, Cat(t, u))
<1>1. s \o t \in Seq(Bytes)
  BY ConcatProperties
<1> QED BY <1>1, Associative DEF Cat

LEMMA Regroup ==
  ASSUME NEW s \in Seq(Bytes), NEW b \in Seq(Bytes), NEW q \in Seq(Bytes), NEW w \in Seq(Bytes)
  PROVE  Cat(Cat(s, b), Cat(q, w)) = Cat(s, Cat(Cat(b, q), w))
  BY CatIs

\* Cancellation of a common front.
LEMMA CancelLeft ==
  ASSUME NEW s \in Seq(Bytes), NEW t \in Seq(Bytes), NEW v \in Seq(Bytes), s \o t = s \o v
  PROVE  t = v
  <1> DEFINE a == s \o t
             b == s \o v
  <1>1. Len(s) \in Nat /\ Len(t) \in Nat /\ Len(v) \in Nat BY LenProperties
  <1>2. /\ Len(a) = Len(s) + Len(t)
        /\ \A i \in 1 .. Len(s) + Len(t) : a[i] = IF i <= Len(s) THEN s[i] ELSE t[i - Len(s)]
    BY ConcatProperties
  <1>3. /\ Len(b) = Len(s) + Len(v)
        /\ \A i \in 1 .. Len(s) + Len(v) : b[i] = IF i <= Len(s) THEN s[i] ELSE v[i - Len(s)]
    BY ConcatProperties
  <1>4. a = b OBVIOUS
  <1> HIDE DEF a, b
  <1>5. Len(t) = Len(v) BY <1>1, <1>2, <1>3, <1>4
  <1>6. \A i \in 1 .. Len(t) : t[i] = v[i]
    <2> SUFFICES ASSUME NEW i \in 1 .. Len(t) PROVE t[i] = v[i] OBVIOUS
    <2> DEFINE j == Len(s) + i
    <2>1. j \in 1 .. Len(s) + Len(t) /\ j \in 1 .. Len(s) + Len(v) /\ ~(j <= Len(s))
          /\ j - Len(s) = i
      BY <1>1, <1>5
    <2> HIDE DEF j
    <2>2. a[j] = t[i] /\ b[j] = v[i] BY <1>2, <1>3, <2>1
    <2> QED BY <1>4, <2>2
  <1> QED BY <1>5, <1>6, SeqEqual

\* With a byte more than a length to read there is a request, and its bytes
\* are the ones to read.
LEMMA OldestIsNext ==
  ASSUME ChannelInv, ~lost, RequestsInv, Unread(bIn) > Header
  PROVE  /\ Len(served) + 1 \in 1 .. Len(asked)
         /\ \E y \in Seq(Bytes), t \in Seq(Bytes) :
              Rest(bIn) \o y = BytesOf(Len(served) + 1, asked[Len(served) + 1].sent) \o t
         /\ \A i \in 1 .. Unread(bIn) :
              i <= Header + asked[Len(served) + 1].sent => Rest(bIn)[i] = <<Len(served) + 1, i>>
  <1> DEFINE k == Len(served)
             n == Len(asked)
             p == Rest(bIn)
             s == Stream(Lengths, k)
  <1>1. PICK x \in Seq(Bytes) : (s \o (p \o wire)) \o x = Stream(Lengths, n)
    BY DEF RequestsInv
  <1>2. /\ k \in Nat /\ n \in Nat /\ k <= n /\ s \in Seq(Bytes) /\ p \in Seq(Bytes)
        /\ wire \in Seq(Bytes) /\ Len(p) = Unread(bIn) /\ Header \in Nat
        /\ \A i \in 1 .. n : Lengths[i] = asked[i].sent /\ Lengths[i] \in Nat
    BY RequestsAre, RestType, SizesAssumption DEF RequestsInv
  <1> HIDE DEF k, n, p, s
  <1> DEFINE y == wire \o x
  <1>3. y \in Seq(Bytes) /\ (s \o (p \o wire)) \o x = s \o (p \o y)
    <2> DEFINE q == p \o wire
    <2>1. s \in Seq(Bytes) /\ p \in Seq(Bytes) /\ wire \in Seq(Bytes) /\ x \in Seq(Bytes)
      BY <1>1, <1>2
    <2>2. q \in Seq(Bytes) /\ y \in Seq(Bytes) BY <2>1, ConcatProperties
    <2>3. q \o x = p \o y
      <3>1. (p \o wire) \o x = p \o (wire \o x) BY <2>1, Associative
      <3> QED BY <3>1
    <2> HIDE DEF q, y
    <2>4. (s \o q) \o x = s \o (q \o x) BY <2>1, <2>2, Associative
    <2> QED BY <2>2, <2>3, <2>4 DEF q
  <1> HIDE DEF y
  <1>4. p \o y \in Seq(Bytes) /\ Len(p \o y) = Len(p) + Len(y) /\ Len(y) \in Nat
    BY <1>2, <1>3, ConcatProperties, LenProperties
  <1>5. k < n
    <2> SUFFICES ASSUME k = n PROVE FALSE BY <1>2
    <2>1. s \o (p \o y) = s BY <1>1, <1>3 DEF s
    <2>2. p \o y = <<>> BY <1>2, <1>4, <2>1, ConcatEqualIffEmpty
    <2>3. Len(p) + Len(y) = 0 BY <1>4, <2>2, EmptySeq
    <2> QED BY <1>2, <1>4, <2>3
  <1> DEFINE len == asked[k + 1].sent
             b == BytesOf(k + 1, len)
  <1>6. k + 1 \in 1 .. n /\ len \in Nat /\ len = Lengths[k + 1] BY <1>2, <1>5
  <1>7. b \in Seq(Bytes) /\ Len(b) = Header + len
    <2>1. k + 1 \in Nat BY <1>2
    <2> QED BY <1>6, <2>1, BytesOfType
  <1>8. PICK t \in Seq(Bytes) : Stream(Lengths, n) = (s \o b) \o t
    <2> DEFINE d == n - (k + 1)
               m == k + 1
    <2>1. d \in Nat /\ m \in Nat /\ m + d = n BY <1>2, <1>5
    <2>2. \A i \in 1 .. m + d : Lengths[i] \in Nat BY <1>2, <2>1
    <2> HIDE DEF d, m
    <2>3. PICK t \in Seq(Bytes) : Stream(Lengths, m + d) = Stream(Lengths, m) \o t
      BY <2>1, <2>2, StreamFront
    <2>4. \A i \in 1 .. k + 1 : Lengths[i] \in Nat BY <1>2, <1>5
    <2>5. Stream(Lengths, k + 1) = Stream(Lengths, k) \o BytesOf(k + 1, Lengths[k + 1])
      BY <1>2, <2>4, StreamNext
    <2>6. Stream(Lengths, n) = (s \o b) \o t BY <1>6, <2>1, <2>3, <2>5 DEF m, s
    <2> QED BY <2>6
  <1> HIDE DEF b, len
  <1>9. s \o (p \o y) = s \o (b \o t)
    <2>1. s \in Seq(Bytes) /\ b \in Seq(Bytes) BY <1>2, <1>7
    <2>2. (s \o b) \o t = s \o (b \o t) BY <2>1, Associative
    <2> QED BY <1>1, <1>3, <1>8, <2>2
  <1>10. p \o y = b \o t
    <2>1. b \o t \in Seq(Bytes) BY <1>7, ConcatProperties
    <2> QED BY <1>2, <1>4, <1>9, <2>1, CancelLeft
  <1>11. \A i \in 1 .. Len(p) : i <= Header + len => p[i] = <<k + 1, i>>
    <2> SUFFICES ASSUME NEW i \in 1 .. Len(p), i <= Header + len PROVE p[i] = <<k + 1, i>>
      OBVIOUS
    <2>1. p[i] = b[i] BY <1>2, <1>3, <1>7, <1>10, SameFront
    <2>2. i \in 1 .. Header + len BY <1>2, <1>6, LenProperties
    <2>3. b[i] = <<k + 1, i>> BY <2>2 DEF b, BytesOf
    <2> QED BY <2>1, <2>3
  <1> QED BY <1>2, <1>3, <1>6, <1>10, <1>11 DEF b, len, p, k, n

\* So the length that is read is the one of that request.
LEMMA NumberIsOldest ==
  ASSUME ChannelInv, ~lost, RequestsInv, Unread(bIn) > Header
  PROVE  LET k == Len(served) + 1
         IN /\ Heads(bIn) = {k} /\ Number(bIn) = asked[k].len
            /\ asked[k].sent # 0 => bIn.data[bIn.read + Header + 1] = <<k, Header + 1>>
  <1> DEFINE k == Len(served) + 1
             d == bIn.data
             r == bIn.read
  <1>1. /\ k \in 1 .. Len(asked)
        /\ \A i \in 1 .. Unread(bIn) : i <= Header + asked[k].sent => Rest(bIn)[i] = <<k, i>>
    BY OldestIsNext
  <1>2. /\ d \in Seq(Bytes) /\ r \in Nat /\ Len(d) \in Nat /\ r <= Len(d)
        /\ Unread(bIn) = Len(d) - r /\ Header \in Nat
        /\ Rest(bIn) = SubSeq(d, r + 1, Len(d))
    BY RequestsAre, BufferFields, LenProperties, SizesAssumption DEF Unread, Rest
  <1>3. asked[k].sent \in Nat /\ k \in DOMAIN asked /\ Unread(bIn) \in Nat
    <2>1. k \in DOMAIN asked /\ asked[k].sent \in Nat BY <1>1, RequestsAre
    <2> QED BY <1>2, <2>1
  <1> HIDE DEF k, d, r
  <1>4. \A i \in 1 .. Header + 1 : i <= Header + asked[k].sent => d[r + i] = <<k, i>>
    <2> SUFFICES ASSUME NEW i \in 1 .. Header + 1, i <= Header + asked[k].sent
                 PROVE  d[r + i] = <<k, i>>
      OBVIOUS
    <2>1. i \in 1 .. Unread(bIn) /\ i \in 1 .. Len(d) - r
      BY <1>2, <1>3
    <2>2. Rest(bIn)[i] = d[r + i] BY <1>2, <2>1
    <2> QED BY <1>1, <2>1, <2>2
  <1>5. SubSeq(d, r + 1, r + Header) = [j \in 1 .. Header |-> <<k, j>>]
    <2> DEFINE h == SubSeq(d, r + 1, r + Header)
               g == [j \in 1 .. Header |-> <<k, j>>]
    <2>1. h \in Seq(Bytes) /\ Len(h) = (r + Header) - r
      <3>1. r + Header \in Nat /\ r <= r + Header /\ r + Header <= Len(d) BY <1>2
      <3> QED BY <1>2, <3>1, PartOf
    <2>2. g \in Seq(Bytes) /\ Len(g) = Header
      <3>1. k \in Nat BY <1>1
      <3>2. g \in [1 .. Header -> Bytes] BY <1>2, <3>1 DEF Bytes
      <3> HIDE DEF g
      <3> QED BY <1>2, <3>2
    <2>3. \A i \in 1 .. Header : h[i] = d[r + i] BY <1>2
    <2>4. \A i \in 1 .. Header : h[i] = g[i]
      <3>1. ASSUME NEW i \in 1 .. Header
            PROVE  d[r + i] = <<k, i>>
        <4>1. i \in 1 .. Header + 1 /\ i <= Header + asked[k].sent
          <5>1. Header \in Nat /\ asked[k].sent \in Nat BY <1>2, <1>3
          <5> QED BY <5>1
        <4> QED BY <1>4, <4>1
      <3> QED BY <2>3, <3>1
    <2>5. Len(h) = Header BY <1>2, <2>1
    <2> HIDE DEF h, g
    <2>6. h = g BY <2>1, <2>2, <2>4, <2>5, SeqEqual
    <2> QED BY <2>6 DEF h, g
  <1>6. k \in Heads(bIn) BY <1>3, <1>5 DEF Heads, d, r
  <1>7. Heads(bIn) = {k} /\ Number(bIn) = asked[k].len BY <1>6, NumberOf
  <1>8. asked[k].sent # 0 => d[r + Header + 1] = <<k, Header + 1>>
    <2>1. Header + 1 \in 1 .. Header + 1 /\ r + (Header + 1) = r + Header + 1 BY <1>2
    <2>2. asked[k].sent # 0 => Header + 1 <= Header + asked[k].sent BY <1>2, <1>3
    <2> QED BY <1>4, <2>1, <2>2
  <1> QED BY <1>7, <1>8 DEF k, d, r

\* What Serve does: the oldest request that is not served is, by its kind if it
\* has one; if the stream is not lost, it takes as many bytes as were sent.
LEMMA ServeTakes ==
  ASSUME ChannelInv, RequestsInv, Serve
  PROVE  LET k == Len(served) + 1
         IN /\ k \in 1 .. Len(asked)
            /\ Signed(asked[k].len) <= Longest
            /\ bIn'.data = bIn.data
            /\ ~lost' => /\ Header + asked[k].sent <= Unread(bIn)
                         /\ bIn'.read = bIn.read + (Header + asked[k].sent)
            /\ lost' \in BOOLEAN /\ (Sound(asked[k]) => ~lost')
            /\ \E kind \in IF asked[k].sent = 0 THEN AllKinds ELSE {asked[k].kind} :
                 /\ served' = Append(served, Dispatched(conn, kind))
                 /\ conn' = ConnAfter(conn, kind)
  <1> DEFINE k == Len(served) + 1
             start == bIn.read + Header
             len   == Number(bIn)
  <1>1. Headed /\ Whole /\ ~lost /\ Unread(bIn) > Header BY DEF Serve, Headed
  <1>2. /\ k \in 1 .. Len(asked) /\ Heads(bIn) = {k} /\ len = asked[k].len
        /\ asked[k].sent # 0 => bIn.data[start + 1] = <<k, Header + 1>>
    <2>1. k \in 1 .. Len(asked) BY <1>1, OldestIsNext
    <2> QED BY <1>1, <2>1, NumberIsOldest
  <1>3. PICK kind \in KindsAt(bIn.data[start + 1]), p \in ReadTo(start) :
          Handle(kind, Zapped([bIn EXCEPT !.read = p], start, len))
    BY DEF Serve
  <1>4. lost' = (bIn'.read # start + len \/ \E i \in Heads(bIn) : asked[i].sent # len)
    BY DEF Serve
  <1> DEFINE input == Zapped([bIn EXCEPT !.read = p], start, len)
  <1>5. /\ start \in Nat /\ len \in Nat /\ start + len <= Len(bIn.data)
        /\ GoodInput(input) /\ input.data = bIn.data
        /\ \A i \in Heads(bIn) : Sound(asked[i]) => input.read = start + len
    BY <1>1, <1>3, ReadIsGood
  <1>6. Handle(kind, input) /\ kind \in AllKinds BY <1>3 DEF KindsAt
  <1>7. asked[k].sent # 0 => kind = asked[k].kind
    <2>1. k \in DOMAIN asked BY <1>2, RequestsAre
    <2> QED BY <1>2, <1>3, <2>1 DEF KindsAt
  <1>8. /\ bIn.read \in Nat /\ Len(bIn.data) \in Nat /\ Header \in Nat
        /\ Unread(bIn) = Len(bIn.data) - bIn.read
    BY InvIs, InputFields, SizesAssumption DEF Unread
  <1>9. Signed(len) <= Longest BY <1>1 DEF Whole
  <1> HIDE DEF input, len
  <1>10. bIn'.data = bIn.data /\ bIn'.read = input.read BY <1>5, <1>6, HandleInv
  <1>11. /\ served' = Append(served, Dispatched(conn, kind))
         /\ conn' = ConnAfter(conn, kind)
    BY <1>6 DEF Handle
  <1>12. ~lost' => asked[k].sent = len /\ bIn'.read = start + len BY <1>2, <1>4
  <1>13. Sound(asked[k]) => ~lost' BY <1>2, <1>4, <1>5, <1>10 DEF Sound
  <1>14. ~lost' => /\ Header + asked[k].sent <= Unread(bIn)
                   /\ bIn'.read = bIn.read + (Header + asked[k].sent)
    BY <1>5, <1>8, <1>12
  <1>15. kind \in IF asked[k].sent = 0 THEN AllKinds ELSE {asked[k].kind} BY <1>6, <1>7
  <1>16. lost' \in BOOLEAN BY <1>4
  <1>17. Signed(asked[k].len) <= Longest BY <1>2, <1>9
  <1> HIDE DEF start, k
  <1>18. \E c \in IF asked[k].sent = 0 THEN AllKinds ELSE {asked[k].kind} :
           /\ served' = Append(served, Dispatched(conn, c))
           /\ conn' = ConnAfter(conn, c)
    BY <1>11, <1>15
  <1> QED BY <1>2, <1>10, <1>13, <1>14, <1>16, <1>17, <1>18 DEF k

\* A request is served: its bytes join those that have been served.
LEMMA ServeRequests == ChannelInv /\ RequestsInv /\ Serve /\ ~lost' => RequestsInv'
  <1> SUFFICES ASSUME ChannelInv, RequestsInv, Serve, ~lost' PROVE RequestsInv' OBVIOUS
  <1> DEFINE k == Len(served) + 1
             len == asked[k].sent
             m == Header + len
             B == BytesOf(k, len)
             S == Stream(Lengths, Len(served))
             p == Rest(bIn)
             after == [bIn EXCEPT !.read = @ + m]
             q == Rest(after)
             front == SubSeq(bIn.data, bIn.read + 1, bIn.read + m)
  <1>1. /\ k \in 1 .. Len(asked) /\ m <= Unread(bIn)
        /\ bIn'.data = bIn.data /\ bIn'.read = bIn.read + m
    BY ServeTakes
  <1>0. ~lost BY DEF Serve, Headed
  <1>2. UNCHANGED <<asked, wire, gone>> BY DEF Serve
  <1>3. /\ Len(served) \in Nat /\ Len(asked) \in Nat /\ wire \in Seq(Bytes)
        /\ p \in Seq(Bytes) /\ S \in Seq(Bytes)
        /\ \A i \in 1 .. Len(asked) : Lengths[i] = asked[i].sent /\ Lengths[i] \in Nat
    BY <1>0, RequestsAre DEF RequestsInv
  <1>4. len \in Nat /\ m \in Nat /\ Header \in Nat /\ k \in Nat
    <2>1. k \in Nat BY <1>3
    <2>2. Header \in Nat BY SizesAssumption
    <2> HIDE DEF k
    <2>3. asked[k].sent \in Nat BY <1>1, <1>3
    <2> QED BY <2>1, <2>2, <2>3
  <1>5. GoodBuffer(bIn) /\ bIn.read \in Nat /\ Len(bIn.data) \in Nat /\ bIn.data \in Seq(Bytes)
        /\ Unread(bIn) = Len(bIn.data) - bIn.read
    BY <1>0, InvIs, BufferFields, LenProperties DEF Unread
  <1>6. B \in Seq(Bytes) /\ Len(B) = m BY <1>4, BytesOfType
  <1>7. Len(served') = Len(served) + 1
    <2>1. \E how \in Modes \cup {"unsupported"} : served' = Append(served, how)
      <3>1. \E kind : served' = Append(served, Dispatched(conn, kind)) BY ServeTakes
      <3>2. \A kind : Dispatched(conn, kind) \in Modes \cup {"unsupported"}
        BY InvIs DEF Dispatched, Modes
      <3> QED BY <3>1, <3>2
    <2> QED BY <2>1, InvIs, AppendProperties
  <1> HIDE DEF m
  <1>8. front = B
    <2>1. /\ front \in Seq(Bytes) /\ Len(front) = m
          /\ \A i \in 1 .. m : front[i] = bIn.data[bIn.read + i]
      <3>1. bIn.read + m \in Nat /\ bIn.read <= bIn.read + m /\ bIn.read + m <= Len(bIn.data)
        BY <1>1, <1>4, <1>5
      <3>2. front \in Seq(Bytes) /\ Len(front) = (bIn.read + m) - bIn.read
        BY <1>5, <3>1, PartOf
      <3>3. \A i \in 1 .. m : front[i] = bIn.data[bIn.read + i]
        <4>1. \A i \in 1 .. m : i \in 1 .. (bIn.read + m) - bIn.read BY <1>4, <1>5
        <4> QED BY <1>5, <3>1, <4>1, PartAt
      <3>4. (bIn.read + m) - bIn.read = m BY <1>4, <1>5
      <3> QED BY <3>2, <3>3, <3>4
    <2>2. \A i \in 1 .. m : front[i] = B[i]
      <3> SUFFICES ASSUME NEW i \in 1 .. m PROVE front[i] = B[i] OBVIOUS
      <3>1. i \in 1 .. Unread(bIn) /\ i <= Header + len /\ i \in 1 .. Header + len
        BY <1>1, <1>4, <1>5 DEF m
      <3>2. Unread(bIn) > Header BY DEF Serve, Whole
      <3>3. p[i] = <<k, i>> BY <1>0, <3>1, <3>2, OldestIsNext
      <3>4. p[i] = bIn.data[bIn.read + i]
        <4>1. i \in 1 .. Len(bIn.data) - bIn.read /\ bIn.read <= Len(bIn.data)
          BY <1>5, <3>1, BufferFields
        <4>2. SubSeq(bIn.data, bIn.read + 1, Len(bIn.data))[i] = bIn.data[bIn.read + i]
          BY <1>5, <4>1, PartAt
        <4> QED BY <4>2 DEF Rest
      <3>5. B[i] = <<k, i>> BY <3>1 DEF BytesOf
      <3> QED BY <2>1, <3>3, <3>4, <3>5
    <2> HIDE DEF front, B
    <2> QED BY <1>6, <2>1, <2>2, SeqEqual
  <1>9. p = B \o q /\ GoodBuffer(after)
    <2>1. GoodBuffer(after) /\ Rest(bIn) = front \o Rest(after)
      BY <1>1, <1>4, <1>5, RestRead
    <2> QED BY <1>8, <2>1
  <1>10. q \in Seq(Bytes) BY <1>9, RestType
  <1>11. Rest(bIn)' = q
    <2>1. after.data = bIn.data /\ after.read = bIn.read + m
      BY <1>5 DEF GoodBuffer, Buffers
    <2> HIDE DEF after
    <2> QED BY <1>1, <2>1 DEF Rest
  <1>12. Lengths' = Lengths BY <1>2 DEF Lengths
  <1>13. Stream(Lengths, Len(served) + 1) = S \o B
    <2>1. \A i \in 1 .. Len(served) + 1 : Lengths[i] \in Nat BY <1>1, <1>3
    <2>2. Stream(Lengths, Len(served) + 1)
            = S \o BytesOf(Len(served) + 1, Lengths[Len(served) + 1])
      BY <1>3, <2>1, StreamNext
    <2>3. Lengths[k] = len BY <1>1, <1>3
    <2> QED BY <2>2, <2>3
  <1>14. PICK x \in Seq(Bytes) :
           /\ (S \o (p \o wire)) \o x = Stream(Lengths, Len(asked))
           /\ ~gone => x = <<>>
    BY DEF RequestsInv
  <1>15. (S \o B) \o (q \o wire) = S \o (p \o wire)
    <2>1. S \in Seq(Bytes) /\ B \in Seq(Bytes) /\ q \in Seq(Bytes) /\ wire \in Seq(Bytes)
      BY <1>3, <1>6, <1>10
    <2>2. p = B \o q BY <1>9
    <2> HIDE DEF S, B, q, p
    <2>3. Cat(Cat(S, B), Cat(q, wire)) = Cat(S, Cat(Cat(B, q), wire)) BY <2>1, Regroup
    <2> QED BY <2>2, <2>3 DEF Cat
  <1>16. Len(served') <= Len(asked') BY <1>1, <1>2, <1>3, <1>7
  <1>17. /\ Stream(Lengths, Len(served))' = Stream(Lengths, Len(served) + 1)
         /\ Stream(Lengths, Len(asked))' = Stream(Lengths, Len(asked))
    BY <1>2, <1>7, <1>12 DEF Stream
  <1>18. /\ ((Stream(Lengths, Len(served)) \o (Rest(bIn) \o wire))') \o x
              = Stream(Lengths, Len(asked))'
         /\ ~gone' => x = <<>>
    BY <1>2, <1>11, <1>13, <1>14, <1>15, <1>17
  <1> QED BY <1>14, <1>16, <1>18 DEF RequestsInv

\* A new request comes last.
LEMMA AskRequests == ChannelInv /\ ~lost /\ RequestsInv /\ Ask => RequestsInv'
  <1> SUFFICES ASSUME ChannelInv, ~lost, RequestsInv, Ask PROVE RequestsInv' OBVIOUS
  <1> DEFINE n == Len(asked)
             k == Len(served)
             p == Rest(bIn)
             S == Stream(Lengths, k)
             T == Stream(Lengths, n)
  <1>1. PICK r \in Requests : asked' = Append(asked, r) /\ wire' = wire \o BytesOf(n + 1, r.sent)
    BY DEF Ask
  <1> DEFINE B == BytesOf(n + 1, r.sent)
  <1>2. ~gone /\ UNCHANGED <<gone, bIn, served>> BY DEF Ask
  <1>3. /\ n \in Nat /\ k \in Nat /\ k <= n /\ wire \in Seq(Bytes) /\ p \in Seq(Bytes)
        /\ S \in Seq(Bytes) /\ T \in Seq(Bytes)
        /\ \A i \in 1 .. n : Lengths[i] = asked[i].sent /\ Lengths[i] \in Nat
    BY RequestsAre DEF RequestsInv
  <1>4. r.sent \in Nat /\ n + 1 \in Nat BY <1>3, RequestsAssumption
  <1>5. B \in Seq(Bytes) BY <1>4, BytesOfType
  <1>6. S \o (p \o wire) = T
    <2>1. PICK x \in Seq(Bytes) : (S \o (p \o wire)) \o x = T /\ x = <<>>
      BY <1>2 DEF RequestsInv
    <2>2. S \o (p \o wire) \in Seq(Bytes) BY <1>3, ConcatProperties
    <2>3. (S \o (p \o wire)) \o <<>> = S \o (p \o wire) BY <2>2, ConcatEmptySeq
    <2> QED BY <2>1, <2>3
  <1>7. /\ Len(asked') = n + 1 /\ DOMAIN asked' = 1 .. n + 1 /\ asked'[n + 1] = r
        /\ \A i \in 1 .. n : asked'[i] = asked[i]
    <2>1. asked \in Seq(Requests) BY InvIs
    <2>2. asked' \in Seq(Requests) BY <1>1, <2>1, AppendProperties
    <2> QED BY <1>1, <2>1, <2>2, AppendProperties, LenProperties
  <1>8. /\ \A i \in 1 .. n : Lengths'[i] = Lengths[i]
        /\ Lengths'[n + 1] = r.sent
    <2>1. \A i \in 1 .. n + 1 : Lengths'[i] = asked'[i].sent BY <1>7 DEF Lengths
    <2>2. n + 1 \in 1 .. n + 1 /\ \A i \in 1 .. n : i \in 1 .. n + 1 BY <1>3
    <2> HIDE DEF n
    <2>3. \A i \in 1 .. n : Lengths'[i] = asked[i].sent BY <1>7, <2>1, <2>2
    <2>4. Lengths'[n + 1] = r.sent BY <1>7, <2>1, <2>2
    <2> QED BY <1>3, <2>3, <2>4
  <1> HIDE DEF n, k
  <1>9. Stream(Lengths', k) = S BY <1>3, <1>8, StreamSame
  <1>10. Stream(Lengths', n + 1) = T \o B
    <2>1. \A i \in 1 .. n + 1 : Lengths'[i] \in Nat
      <3> SUFFICES ASSUME NEW i \in 1 .. n + 1 PROVE Lengths'[i] \in Nat OBVIOUS
      <3>1. CASE i = n + 1 BY <1>4, <1>8, <3>1
      <3>2. CASE i # n + 1
        <4>1. i \in 1 .. n BY <1>3, <3>2
        <4> QED BY <1>3, <1>8, <4>1
      <3> QED BY <3>1, <3>2
    <2>2. Stream(Lengths', n + 1) = Stream(Lengths', n) \o BytesOf(n + 1, Lengths'[n + 1])
      BY <1>3, <2>1, StreamNext
    <2>3. Stream(Lengths', n) = T BY <1>3, <1>8, StreamSame
    <2> QED BY <1>8, <2>2, <2>3
  <1>11. S \o (p \o (wire \o B)) = T \o B
    <2>1. S \in Seq(Bytes) /\ p \in Seq(Bytes) /\ wire \in Seq(Bytes) /\ B \in Seq(Bytes)
      BY <1>3, <1>5
    <2> HIDE DEF S, T, p, B
    <2>2. (p \o wire) \o B = p \o (wire \o B) BY <2>1, Associative
    <2> DEFINE q == p \o wire
    <2>3. q \in Seq(Bytes) BY <2>1, ConcatProperties
    <2> HIDE DEF q
    <2>4. (S \o q) \o B = S \o (q \o B) BY <2>1, <2>3, Associative
    <2> QED BY <1>6, <2>2, <2>4 DEF q
  <1>12. S \o (p \o (wire \o B)) \in Seq(Bytes)
    BY <1>3, <1>5, <1>11, ConcatProperties
  <1>13. (S \o (p \o (wire \o B))) \o <<>> = S \o (p \o (wire \o B))
    BY <1>12, ConcatEmptySeq
  <1>14. /\ ((Stream(Lengths, Len(served)) \o (Rest(bIn) \o wire))') \o <<>>
              = Stream(Lengths, Len(asked))'
    <2>1. Stream(Lengths, Len(served))' = S BY <1>2, <1>9 DEF Stream, k
    <2>2. Rest(bIn)' = p /\ wire' = wire \o B BY <1>1, <1>2 DEF Rest, n
    <2>3. Stream(Lengths, Len(asked))' = T \o B BY <1>7, <1>10 DEF Stream
    <2> HIDE DEF S, T, B, p
    <2> QED BY <1>11, <1>13, <2>1, <2>2, <2>3
  <1>15. Len(served') <= Len(asked') BY <1>2, <1>3, <1>7 DEF k
  <1>16. <<>> \in Seq(Bytes) BY EmptySeq
  <1> QED BY <1>14, <1>15, <1>16 DEF RequestsInv

\* A client that leaves takes the end of its stream with it.
LEMMA LeaveRequests == ChannelInv /\ ~lost /\ RequestsInv /\ Leave => RequestsInv'
  <1> SUFFICES ASSUME ChannelInv, ~lost, RequestsInv, Leave PROVE RequestsInv' OBVIOUS
  <1> DEFINE p == Rest(bIn)
             S == Stream(Lengths, Len(served))
             T == Stream(Lengths, Len(asked))
  <1>1. PICK n \in 0 .. Len(wire) : wire' = SubSeq(wire, 1, n) BY DEF Leave
  <1>2. ~gone /\ gone' = TRUE /\ UNCHANGED <<asked, bIn, served>> BY DEF Leave
  <1>3. /\ wire \in Seq(Bytes) /\ p \in Seq(Bytes) /\ S \in Seq(Bytes) /\ Len(wire) \in Nat
        /\ Len(served) <= Len(asked)
    BY RequestsAre, LenProperties DEF RequestsInv
  <1> DEFINE x == SubSeq(wire, n + 1, Len(wire))
             w == SubSeq(wire, 1, n)
  <1>4. w \in Seq(Bytes) /\ x \in Seq(Bytes) /\ wire = w \o x
    <2>1. n \in Nat /\ n <= Len(wire) /\ 0 + 1 = 1 /\ 0 <= n BY <1>1, <1>3
    <2>2. SubSeq(wire, 0 + 1, n) \in Seq(Bytes) /\ x \in Seq(Bytes)
      BY <1>3, <2>1, PartOf
    <2>3. SubSeq(wire, 0 + 1, n) \o x = SubSeq(wire, 0 + 1, Len(wire))
      <3>1. wire \in Seq(Bytes) BY <1>3
      <3> QED BY <2>1, <3>1, CutInTwo
    <2>4. SubSeq(wire, 1, Len(wire)) = wire BY <1>3, SubSeqFull
    <2> QED BY <2>1, <2>2, <2>3, <2>4
  <1>5. S \o (p \o wire) = T
    <2>1. PICK y \in Seq(Bytes) : (S \o (p \o wire)) \o y = T /\ y = <<>>
      BY <1>2 DEF RequestsInv
    <2>2. S \o (p \o wire) \in Seq(Bytes) BY <1>3, ConcatProperties
    <2>3. (S \o (p \o wire)) \o <<>> = S \o (p \o wire) BY <2>2, ConcatEmptySeq
    <2> QED BY <2>1, <2>3
  <1>6. (S \o (p \o w)) \o x = T
    <2>1. S \in Seq(Bytes) /\ p \in Seq(Bytes) /\ w \in Seq(Bytes) /\ x \in Seq(Bytes)
      BY <1>3, <1>4
    <2>2. wire = w \o x BY <1>4
    <2> HIDE DEF S, T, p, w, x
    <2>3. (p \o w) \o x = p \o (w \o x) BY <2>1, Associative
    <2> DEFINE q == p \o w
    <2>4. q \in Seq(Bytes) BY <2>1, ConcatProperties
    <2> HIDE DEF q
    <2>5. (S \o q) \o x = S \o (q \o x) BY <2>1, <2>4, Associative
    <2> QED BY <1>5, <2>2, <2>3, <2>5 DEF q
  <1>7. Lengths' = Lengths BY <1>2 DEF Lengths
  <1>8. /\ Stream(Lengths, Len(served))' = S /\ Stream(Lengths, Len(asked))' = T
        /\ Rest(bIn)' = p /\ wire' = w
    BY <1>1, <1>2, <1>7 DEF Stream, Rest
  <1> HIDE DEF S, T, p, w, x
  <1>9. ((Stream(Lengths, Len(served)) \o (Rest(bIn) \o wire))') \o x
          = Stream(Lengths, Len(asked))'
    BY <1>6, <1>8
  <1> QED BY <1>2, <1>3, <1>4, <1>9 DEF RequestsInv

\* A read moves the front of what is on the way to the end of the buffer.
LEMMA ReceiveRequests == ChannelInv /\ ~lost /\ RequestsInv /\ Receive => RequestsInv'
  <1> SUFFICES ASSUME ChannelInv, ~lost, RequestsInv, Receive PROVE RequestsInv' OBVIOUS
  <1>1. UNCHANGED <<asked, gone, served>> BY DEF Receive
  <1>2. Rest(bIn)' \o wire' = Rest(bIn) \o wire
    <2>1. CASE UNCHANGED <<wire, bIn>> BY <2>1 DEF Rest
    <2>2. ASSUME NEW n \in 1 .. MaxPacket, n <= Len(wire),
                 bIn' = Stored(Ensured(bIn, MaxPacket), SubSeq(wire, 1, n)),
                 wire' = SubSeq(wire, n + 1, Len(wire))
          PROVE  Rest(bIn)' \o wire' = Rest(bIn) \o wire
      <3> DEFINE b == Ensured(bIn, MaxPacket)
                 w == SubSeq(wire, 1, n)
                 x == SubSeq(wire, n + 1, Len(wire))
      <3>1. MaxPacket \in Nat /\ n \in Nat /\ 0 + 1 = 1 BY SizesAssumption
      <3>2. wire \in Seq(Bytes) /\ Rest(bIn) \in Seq(Bytes) BY RequestsAre
      <3>3. GoodBuffer(b) /\ b.data = bIn.data /\ b.read = bIn.read
        BY <3>1, InvIs, EnsuredGood
      <3>4. SubSeq(wire, 0 + 1, n) \in Seq(Bytes) /\ x \in Seq(Bytes)
        BY <2>2, <3>1, <3>2, PartOf, LenProperties
      <3>5. SubSeq(wire, 0 + 1, n) \o x = SubSeq(wire, 0 + 1, Len(wire))
        BY <2>2, <3>1, <3>2, CutInTwo
      <3>6. SubSeq(wire, 1, Len(wire)) = wire BY <3>2, SubSeqFull
      <3>7. w \in Seq(Bytes) /\ w \o x = wire BY <3>1, <3>4, <3>5, <3>6
      <3> HIDE DEF b, w, x
      <3>8. Rest(Stored(b, w)) = Rest(b) \o w BY <3>3, <3>7, RestStored
      <3>9. Rest(b) = Rest(bIn) BY <3>3 DEF Rest
      <3>10. Rest(bIn)' = Rest(bIn) \o w
        <4>1. Rest(bIn)' = Rest(bIn') BY DEF Rest
        <4>2. bIn' = Stored(b, w) BY <2>2 DEF b, w
        <4> QED BY <3>8, <3>9, <4>1, <4>2
      <3>11. (Rest(bIn) \o w) \o x = Rest(bIn) \o (w \o x)
        <4> DEFINE front == Rest(bIn)
        <4>1. front \in Seq(Bytes) BY <3>2
        <4>2. w \in Seq(Bytes) /\ x \in Seq(Bytes) BY <3>4, <3>7
        <4> HIDE DEF front
        <4>3. (front \o w) \o x = front \o (w \o x) BY <4>1, <4>2, Associative
        <4> QED BY <4>3 DEF front
      <3>12. wire' = x BY <2>2 DEF x
      <3> QED BY <3>7, <3>10, <3>11, <3>12
    <2> QED BY <2>1, <2>2 DEF Receive
  <1>3. /\ Stream(Lengths, Len(served))' = Stream(Lengths, Len(served))
        /\ Stream(Lengths, Len(asked))' = Stream(Lengths, Len(asked))
    BY <1>1 DEF Stream, Lengths
  <1> QED BY <1>1, <1>2, <1>3 DEF RequestsInv

\* The other steps do not touch the requests, except that BufferClean moves them.
LEMMA OtherRequests ==
  ASSUME ChannelInv, ~lost, RequestsInv,
         UNCHANGED <<asked, wire, gone, served>>, bIn' \in {bIn, Cleaned(bIn)}
  PROVE  RequestsInv'
  <1>1. Rest(bIn)' = Rest(bIn)
    <2>1. Rest(bIn)' = Rest(bIn') BY DEF Rest
    <2>2. Rest(Cleaned(bIn)) = Rest(bIn) BY InvIs, RestCleaned
    <2> QED BY <2>1, <2>2
  <1>2. /\ Stream(Lengths, Len(served))' = Stream(Lengths, Len(served))
        /\ Stream(Lengths, Len(asked))' = Stream(Lengths, Len(asked))
    BY DEF Stream, Lengths
  <1> QED BY <1>1, <1>2 DEF RequestsInv

StreamsInv == ChannelInv /\ AnswersInv /\ (~lost => RequestsInv)

\* All three invariants.
LEMMA StreamsAlways == Spec => []StreamsInv
  <1>1. Init => RequestsInv
    <2> SUFFICES ASSUME Init PROVE RequestsInv OBVIOUS
    <2>1. /\ asked = <<>> /\ served = <<>> /\ wire = <<>> /\ Len(asked) = 0 /\ Len(served) = 0
          /\ lost = FALSE /\ bIn.data = <<>> /\ bIn.read = 0
      BY DEF Init, BufferNew
    <2>2. GoodBuffer(bIn) BY <2>1, InitInv, InvIs
    <2>3. Rest(bIn) \in Seq(Bytes) /\ Len(Rest(bIn)) = 0 BY <2>1, <2>2, RestType DEF Unread
    <2>4. Rest(bIn) = <<>> BY <2>3, EmptySeq
    <2>5. <<>> \in Seq(Bytes) /\ <<>> \o <<>> = <<>> BY <2>3, <2>4, ConcatEmptySeq
    <2>6. (Stream(Lengths, Len(served)) \o (Rest(bIn) \o wire)) \o <<>> = Stream(Lengths, Len(asked))
      BY <2>1, <2>4, <2>5, StreamEmpty
    <2>7. /\ Len(served) <= Len(asked) /\ <<>> \in Seq(Bytes) /\ (~gone => <<>> = <<>>)
      BY <2>1, <2>5
    <2> HIDE DEF Init
    <2> QED BY <2>6, <2>7 DEF RequestsInv
  <1>2. ChannelInv /\ (~lost => RequestsInv) /\ [Next]_vars => (~lost => RequestsInv)'
    <2> SUFFICES ASSUME ChannelInv, ~lost => RequestsInv, [Next]_vars, ~lost' PROVE RequestsInv'
      OBVIOUS
    <2>0. ~lost /\ RequestsInv
      BY DEF Next, Parse, Ask, Leave, Receive, Transmit, HeaderTooSmall, TooLong, NotComplete,
             Serve, Headed, Astray, vars
    <2>2. ~Astray BY <2>0 DEF Astray
    <2>1. CASE HeaderTooSmall \/ TooLong \/ NotComplete \/ Transmit \/ UNCHANGED vars
      <3>1. UNCHANGED <<asked, wire, gone, served>> /\ bIn' \in {bIn, Cleaned(bIn)}
        BY <2>1 DEF HeaderTooSmall, TooLong, NotComplete, Transmit, vars
      <3> QED BY <2>0, <3>1, OtherRequests
    <2> QED BY <2>0, <2>1, <2>2, AskRequests, LeaveRequests, ReceiveRequests, ServeRequests DEF Next, Parse
  <1> QED BY InitInv, AnswersAlways, <1>1, <1>2, PTL DEF Spec, StreamsInv

-----------------------------------------------------------------------------
(* The refinement of Exchange.                                             *)

State == IF phase = "over" THEN "over" ELSE IF gone THEN "gone" ELSE "up"
InFull == {n \in 1 .. Len(answers) : IsPrefix(AnswersUpTo(n), got)}

\* A beginning of a sequence is one of a longer sequence.
LEMMA PrefixGrows ==
  ASSUME NEW s \in Seq(Bytes), NEW g \in Seq(Bytes), NEW w \in Seq(Bytes), IsPrefix(s, g)
  PROVE  IsPrefix(s, g \o w)
  <1> DEFINE n == Len(s)
             h == g \o w
             x == SubSeq(g, 0 + 1, n)
             y == SubSeq(h, 0 + 1, n)
  <1>1. n \in Nat /\ Len(g) \in Nat /\ Len(w) \in Nat /\ n <= Len(g) BY LenProperties DEF IsPrefix
  <1>2. /\ h \in Seq(Bytes) /\ Len(h) = Len(g) + Len(w)
        /\ \A i \in 1 .. Len(g) + Len(w) : h[i] = IF i <= Len(g) THEN g[i] ELSE w[i - Len(g)]
    BY ConcatProperties
  <1> HIDE DEF h, n
  <1>3. 0 \in Nat /\ 0 <= n /\ n <= Len(h) /\ n - 0 = n /\ 0 + 1 = 1 BY <1>1, <1>2
  <1>4. x \in Seq(Bytes) /\ Len(x) = n /\ y \in Seq(Bytes) /\ Len(y) = n
    BY <1>1, <1>2, <1>3, PartOf
  <1>5. \A i \in 1 .. n : x[i] = g[0 + i] /\ y[i] = h[0 + i]
    <2> SUFFICES ASSUME NEW i \in 1 .. n PROVE x[i] = g[0 + i] /\ y[i] = h[0 + i] OBVIOUS
    <2>1. i \in 1 .. n - 0 BY <1>3
    <2> QED BY <1>1, <1>2, <1>3, <2>1, PartAt
  <1>6. \A i \in 1 .. n : x[i] = y[i]
    <2> SUFFICES ASSUME NEW i \in 1 .. n PROVE x[i] = y[i] OBVIOUS
    <2>1. 0 + i = i /\ i \in 1 .. Len(g) + Len(w) /\ i <= Len(g) BY <1>1
    <2> QED BY <1>2, <1>5, <2>1
  <1> HIDE DEF x, y
  <1>7. x = y BY <1>4, <1>6, SeqEqual
  <1>8. SubSeq(g, 1, n) = SubSeq(h, 1, n) BY <1>3, <1>7 DEF x, y
  <1> QED BY <1>3, <1>8 DEF IsPrefix, n, h

\* A set of numbers up to n has at most n members.
LEMMA PartCount ==
  ASSUME NEW n \in Nat, NEW T \in SUBSET (1 .. n)
  PROVE  IsFiniteSet(T) /\ Cardinality(T) \in Nat /\ Cardinality(T) <= n
  <1>1. 1 \in Int /\ n \in Int OBVIOUS
  <1>2. IsFiniteSet(1 .. n) /\ (Cardinality(1 .. n) = IF 1 > n THEN 0 ELSE n - 1 + 1)
    BY <1>1, FS_Interval
  <1>3. Cardinality(1 .. n) = n BY <1>2
  <1>4. IsFiniteSet(T) /\ Cardinality(T) <= Cardinality(1 .. n) BY <1>2, FS_Subset
  <1>5. Cardinality(T) \in Nat BY <1>4, FS_CardinalityType
  <1> QED BY <1>3, <1>4, <1>5

\* The answers the client has in full are no more than there are.
LEMMA SeenType ==
  ASSUME StreamsInv
  PROVE  /\ Seen = Cardinality(InFull) /\ IsFiniteSet(InFull)
         /\ Seen \in Nat /\ Seen <= Len(answers) /\ Len(answers) = Len(served)
         /\ Len(answers) \in Nat
  <1> DEFINE n == Len(answers)
  <1>1. n \in Nat /\ n = Len(served) BY AnswersAre, InvIs DEF StreamsInv
  <1>2. InFull \in SUBSET (1 .. n) BY DEF InFull
  <1> HIDE DEF n
  <1>3. IsFiniteSet(InFull) /\ Cardinality(InFull) \in Nat /\ Cardinality(InFull) <= n
    BY <1>1, <1>2, PartCount
  <1>4. Seen = Cardinality(InFull) BY DEF Seen, InFull
  <1> QED BY <1>1, <1>3, <1>4 DEF n

\* A write can only complete answers.
LEMMA TransmitSees ==
  ASSUME StreamsInv, StreamsInv', Transmit
  PROVE  Seen' \in Seen .. Len(served)
  <1>1. UNCHANGED <<answers, served>> BY DEF Transmit
  <1>2. \E w \in Seq(Bytes) : got' = got \o w
    <2>1. got \in Seq(Bytes) /\ GoodBuffer(bOut) BY InvIs DEF StreamsInv
    <2>2. CASE UNCHANGED got
      <3>1. got \o <<>> = got /\ <<>> \in Seq(Bytes) BY <2>1, ConcatEmptySeq, EmptySeq
      <3> QED BY <2>2, <3>1
    <2>3. ASSUME NEW n \in 1 .. Unread(bOut),
                 got' = got \o SubSeq(bOut.data, bOut.read + 1, bOut.read + n)
          PROVE  \E w \in Seq(Bytes) : got' = got \o w
      <3>1. Unread(bOut) \in Nat BY <2>1, BufferFields, LenProperties DEF Unread
      <3>2. n \in Nat /\ n <= Unread(bOut) BY <3>1
      <3>3. SubSeq(bOut.data, bOut.read + 1, bOut.read + n) \in Seq(Bytes)
        BY <2>1, <3>2, RestRead
      <3> QED BY <2>3, <3>3
    <2> QED BY <2>2, <2>3 DEF Transmit
  <1>3. PICK w \in Seq(Bytes) : got' = got \o w BY <1>2
  <1>4. InFull \subseteq InFull'
    <2> SUFFICES ASSUME NEW n \in InFull PROVE n \in InFull' OBVIOUS
    <2>1. n \in 1 .. Len(answers) /\ IsPrefix(AnswersUpTo(n), got) BY DEF InFull
    <2>2. AnswersUpTo(n)' = AnswersUpTo(n) BY <1>1 DEF AnswersUpTo
    <2>3. AnswersUpTo(n) \in Seq(Bytes)
      <3>1. Len(answers) \in Nat /\ \A i \in 1 .. Len(answers) : answers[i] \in Nat
        BY AnswersAre DEF StreamsInv
      <3>2. n \in Nat /\ \A i \in 1 .. n : answers[i] \in Nat BY <2>1, <3>1
      <3>3. Stream(answers, n) \in Seq(Bytes) BY <3>2, StreamType
      <3> QED BY <3>3 DEF AnswersUpTo, Stream
    <2>4. got \in Seq(Bytes) BY InvIs DEF StreamsInv
    <2> DEFINE a == AnswersUpTo(n)
    <2> HIDE DEF a
    <2>5. IsPrefix(a, got \o w) BY <1>3, <2>1, <2>3, <2>4, PrefixGrows DEF a
    <2> QED BY <1>1, <1>3, <2>1, <2>2, <2>5 DEF InFull, a
  <1> DEFINE Now == InFull
             Then == {n \in 1 .. Len(answers) : IsPrefix(AnswersUpTo(n)', got')}
  <1>5. Then = InFull' /\ Seen' = Cardinality(Then) /\ Seen = Cardinality(Now)
    BY <1>1 DEF InFull, Seen
  <1>6. Len(answers) \in Nat /\ Len(answers) = Len(served) /\ Seen \in Nat BY SeenType
  <1>7. Then \in SUBSET (1 .. Len(answers)) OBVIOUS
  <1>8. Now \in SUBSET Then BY <1>4, <1>5
  <1> HIDE DEF Now, Then
  <1>9. IsFiniteSet(Then) /\ Cardinality(Then) \in Nat /\ Cardinality(Then) <= Len(answers)
    BY <1>6, <1>7, PartCount
  <1>10. Cardinality(Now) <= Cardinality(Then) BY <1>8, <1>9, FS_Subset
  <1> QED BY <1>5, <1>6, <1>9, <1>10

\* A new answer is not seen at once.
LEMMA HandleHides ==
  ASSUME StreamsInv, NEW kind, NEW input, Handle(kind, input), UNCHANGED got
  PROVE  Seen' = Seen
  <1>1. got' = got /\ \E n \in Replies : answers' = Append(answers, n) BY DEF Handle
  <1>2. PICK n \in Replies : answers' = Append(answers, n) BY <1>1
  <1> DEFINE k == Len(answers)
             S == Stream(answers, k)
             B == BytesOf(k + 1, n)
  <1>3. k \in Nat /\ got \in Seq(Bytes) /\ Rest(bOut) \in Seq(Bytes) /\ got \o Rest(bOut) = S
        /\ \A i \in 1 .. k : answers[i] \in Nat
    BY AnswersAre DEF StreamsInv, AnswersInv
  <1>4. /\ Len(answers') = k + 1 /\ answers'[k + 1] = n /\ n \in Nat
        /\ \A i \in 1 .. k : answers'[i] = answers[i]
    BY <1>2, InvIs, AppendProperties, SizesAssumption DEF StreamsInv
  <1>5. \A i \in 1 .. k : Stream(answers', i) = Stream(answers, i)
    <2> SUFFICES ASSUME NEW i \in 1 .. k PROVE Stream(answers', i) = Stream(answers, i) OBVIOUS
    <2>1. i \in Nat /\ \A j \in 1 .. i : answers'[j] = answers[j] BY <1>3, <1>4
    <2> QED BY <2>1, StreamSame
  <1>6. ~(Len(Stream(answers', k + 1)) <= Len(got))
    <2>1. \A i \in 1 .. k + 1 : answers'[i] \in Nat
      <3> SUFFICES ASSUME NEW i \in 1 .. k + 1 PROVE answers'[i] \in Nat OBVIOUS
      <3>1. CASE i = k + 1 BY <1>4, <3>1
      <3>2. CASE i # k + 1
        <4>1. i \in 1 .. k BY <1>3, <3>2
        <4> QED BY <1>3, <1>4, <4>1
      <3> QED BY <3>1, <3>2
    <2>2. Stream(answers', k + 1) = Stream(answers', k) \o B BY <1>3, <1>4, <2>1, StreamNext
    <2>3. Stream(answers', k) = S BY <1>3, <1>4, StreamSame
    <2>4. S \in Seq(Bytes) /\ Len(S) = Len(got) + Len(Rest(bOut)) BY <1>3, ConcatProperties
    <2>5. B \in Seq(Bytes) /\ Len(B) = Header + n
      <3>1. k + 1 \in Nat BY <1>3
      <3> QED BY <1>4, <3>1, BytesOfType
    <2>6. Header \in Nat \ {0} /\ Len(got) \in Nat /\ Len(Rest(bOut)) \in Nat
      BY <1>3, SizesAssumption, LenProperties
    <2> HIDE DEF S, B
    <2>7. Len(S \o B) = Len(S) + Len(B) BY <2>4, <2>5, ConcatProperties
    <2>8. Len(Stream(answers', k + 1)) = (Len(got) + Len(Rest(bOut))) + (Header + n)
      BY <2>2, <2>3, <2>4, <2>5, <2>7
    <2> QED BY <1>4, <2>6, <2>8
  <1>7. InFull' = InFull
    <2>1. \A i : AnswersUpTo(i)' = Stream(answers', i) /\ AnswersUpTo(i) = Stream(answers, i)
      BY DEF AnswersUpTo, Stream
    <2>2. InFull = {i \in 1 .. k : IsPrefix(Stream(answers, i), got)}
      BY <2>1 DEF InFull
    <2>3. InFull' = {i \in 1 .. k + 1 : IsPrefix(Stream(answers', i), got)}
      BY <1>1, <1>4, <2>1 DEF InFull
    <2>4. ~IsPrefix(Stream(answers', k + 1), got) BY <1>6 DEF IsPrefix
    <2>5. \A i \in 1 .. k + 1 : i = k + 1 \/ i \in 1 .. k BY <1>3
    <2>6. \A i \in 1 .. k : i \in 1 .. k + 1 BY <1>3
    <2> HIDE DEF k
    <2> QED BY <1>5, <2>2, <2>3, <2>4, <2>5, <2>6
  <1>8. Seen = Cardinality(InFull) /\ Seen' = Cardinality(InFull')
    BY DEF Seen, InFull
  <1> QED BY <1>7, <1>8

\* Nothing else is seen.
LEMMA SeenStays ==
  ASSUME UNCHANGED <<answers, got>>
  PROVE  Seen' = Seen
  BY DEF Seen, AnswersUpTo

\* A session begins where an exchange begins.
LEMMA InitMaps == Init => Abstract!Init
  <1> SUFFICES ASSUME Init PROVE Abstract!Init OBVIOUS
  <1>1. /\ asked = <<>> /\ served = <<>> /\ conn = "init" /\ phase = "wait" /\ ~gone
        /\ lost = FALSE /\ Len(answers) = 0
    BY DEF Init
  <1>2. InFull = {} BY <1>1 DEF InFull
  <1>3. Seen = 0 BY <1>2, FS_EmptySet DEF Seen, InFull
  <1> QED BY <1>1, <1>3 DEF Abstract!Init

\* What Exchange says of requests is what Channel says.
LEMMA SamePackets ==
  /\ Abstract!AllKinds = AllKinds
  /\ \A n : Abstract!Signed(n) = Signed(n)
  /\ \A r : Abstract!Sound(r) = Sound(r)
  BY DEF Abstract!AllKinds, AllKinds, Abstract!Signed, Signed, Abstract!Sound, Sound

\* How a request is served, by its mode and kind.
LEMMA DispatchIs ==
  ASSUME NEW kind \in AllKinds, NEW mode \in Modes
  PROVE  \/ /\ kind \in Abstract!Known[mode] /\ Dispatched(mode, kind) = mode
            /\ ConnAfter(mode, kind) = IF mode # "init" THEN mode
                                      ELSE IF kind = "manager" /\ Rights # "no" THEN Rights
                                      ELSE "sftp"
         \/ /\ kind \notin Abstract!Known[mode] /\ Dispatched(mode, kind) = "unsupported"
            /\ ConnAfter(mode, kind) = mode
  <1>1. \/ kind \in Abstract!Known[mode] /\ Dispatched(mode, kind) = mode
        \/ kind \notin Abstract!Known[mode] /\ Dispatched(mode, kind) = "unsupported"
    BY DEF Abstract!Known, Dispatched, Modes, AllKinds
  <1> QED BY <1>1 DEF ConnAfter, Modes

\* A served request is the oldest one, served in the mode of the moment.
LEMMA ServeMaps ==
  ASSUME StreamsInv, Serve
  PROVE  Abstract!Serve
  <1> DEFINE k == Len(served) + 1
  <1>0. ~lost /\ phase = "parse" /\ UNCHANGED <<asked, gone, phase>> BY DEF Serve, Headed
  <1>1. /\ k \in 1 .. Len(asked)
        /\ Signed(asked[k].len) <= Longest
        /\ lost' \in BOOLEAN /\ (Sound(asked[k]) => ~lost')
        /\ \E kind \in IF asked[k].sent = 0 THEN AllKinds ELSE {asked[k].kind} :
             /\ served' = Append(served, Dispatched(conn, kind))
             /\ conn' = ConnAfter(conn, kind)
    BY <1>0, ServeTakes DEF StreamsInv
  <1>3. Len(served) \in Nat /\ Len(asked) \in Nat /\ asked[k].kind \in AllKinds /\ conn \in Modes
    BY <1>1, RequestsAre, InvIs, RequestsAssumption DEF StreamsInv
  <1>4. Len(served) < Len(asked) BY <1>1, <1>3
  <1>5. Seen' = Seen
    <2>1. \E kind, input : Handle(kind, input) /\ UNCHANGED got BY DEF Serve
    <2> QED BY <2>1, HandleHides
  <1>6. State # "over" /\ State' = State BY <1>0 DEF State
  <1>7. Abstract!Oldest = asked[k] BY DEF Abstract!Oldest
  <1> HIDE DEF k
  <1>8. PICK kind \in Abstract!Kinds :
          served' = Append(served, Dispatched(conn, kind)) /\ conn' = ConnAfter(conn, kind)
    BY <1>1, <1>7, SamePackets DEF Abstract!Kinds
  <1>9. kind \in AllKinds BY <1>3, <1>7, <1>8, SamePackets DEF Abstract!Kinds
  <1>10. \/ /\ kind \in Abstract!Known[conn] /\ served' = Append(served, conn)
            /\ conn' = IF conn # "init" THEN conn
                       ELSE IF kind = "manager" /\ Rights # "no" THEN Rights
                       ELSE "sftp"
         \/ /\ kind \notin Abstract!Known[conn] /\ served' = Append(served, "unsupported")
            /\ conn' = conn
    BY <1>3, <1>8, <1>9, DispatchIs
  <1>11. Abstract!Signed(Abstract!Oldest.len) <= Longest
         /\ lost' \in BOOLEAN /\ (Abstract!Sound(Abstract!Oldest) => ~lost')
    BY <1>1, <1>7, SamePackets
  <1> QED BY <1>0, <1>4, <1>5, <1>6, <1>8, <1>10, <1>11 DEF Abstract!Serve, State

\* In a lost stream anything may be served.
LEMMA AstrayMaps ==
  ASSUME StreamsInv, Astray
  PROVE  [Abstract!Astray \/ Abstract!End]_<<asked, served, conn, lost, Seen, State>>
  <1>1. lost /\ phase = "parse" /\ gone \in BOOLEAN /\ conn \in Modes
        /\ UNCHANGED <<asked, gone, lost, got>>
    BY InvIs DEF Astray, StreamsInv
  <1>2. ASSUME phase' = "over", UNCHANGED <<conn, served, answers>> PROVE Abstract!End
    <2>1. Seen' = Seen BY <1>1, <1>2, SeenStays
    <2>2. State' = "over" /\ State \in {"up", "gone"} BY <1>1, <1>2 DEF State
    <2> QED BY <1>1, <1>2, <2>1, <2>2 DEF Abstract!End, State
  <1>3. ASSUME phase' = "wait", UNCHANGED <<conn, served, answers>>
        PROVE  UNCHANGED <<asked, served, conn, lost, Seen, State>>
    <2>1. Seen' = Seen BY <1>1, <1>3, SeenStays
    <2> QED BY <1>1, <1>3, <2>1 DEF State
  <1>4. ASSUME NEW kind \in AllKinds, NEW input, Handle(kind, input), UNCHANGED phase
        PROVE  Abstract!Astray
    <2>1. Seen' = Seen BY <1>1, <1>4, HandleHides
    <2>2. served' = Append(served, Dispatched(conn, kind)) /\ conn' = ConnAfter(conn, kind)
      BY <1>4 DEF Handle
    <2>3. DOMAIN Abstract!Known = Modes BY DEF Abstract!Known, Modes
    <2>4. Dispatched(conn, kind) \in Modes \cup {"unsupported"} /\ ConnAfter(conn, kind) \in Modes
      BY <1>1, RightsAssumption DEF Dispatched, ConnAfter, Modes
    <2>5. State # "over" /\ State' = State BY <1>1, <1>4 DEF State
    <2> QED BY <1>1, <2>1, <2>2, <2>3, <2>4, <2>5 DEF Abstract!Astray, State
  <1> QED BY <1>2, <1>3, <1>4 DEF Astray

\* Every step is one of Exchange or changes nothing there.
LEMMA NextMaps ==
  ASSUME StreamsInv, StreamsInv', [Next]_vars
  PROVE  [Abstract!Ask \/ Abstract!Serve \/ Abstract!Astray \/ Abstract!See \/ Abstract!Leave \/ Abstract!End]_<<asked, served, conn, lost, Seen, State>>
  <1>1. gone \in BOOLEAN /\ phase \in {"wait", "parse", "over"} /\ Len(served) \in Nat
        /\ Len(asked) \in Nat
    BY InvIs, RequestsAre DEF StreamsInv
  <1>2. CASE Ask
    <2>1. UNCHANGED <<gone, phase, conn, lost, served, answers, got>> /\ State = "up" /\ State' = State
      BY <1>2 DEF Ask, State
    <2>2. Seen' = Seen BY <2>1, SeenStays
    <2>3. \E r \in Requests : asked' = Append(asked, r) BY <1>2 DEF Ask
    <2>4. Abstract!Ask BY <2>1, <2>2, <2>3 DEF Abstract!Ask, State
    <2> QED BY <2>4
  <1>3. CASE Leave
    <2>1. /\ UNCHANGED <<asked, conn, lost, served, answers, got>>
          /\ State = "up" /\ State' = "gone"
      BY <1>3 DEF Leave, State
    <2>2. Seen' = Seen BY <2>1, SeenStays
    <2>3. Abstract!Leave BY <2>1, <2>2 DEF Abstract!Leave, State
    <2> QED BY <2>3
  <1>4. CASE Receive
    <2>1. /\ UNCHANGED <<asked, conn, lost, served, answers, got, gone>> /\ phase = "wait"
          /\ (phase' = "parse" \/ (phase' = "over" /\ gone))
      BY <1>4 DEF Receive
    <2>2. Seen' = Seen BY <2>1, SeenStays
    <2>3. CASE phase' = "parse"
      <3>1. State' = State BY <2>1, <2>3 DEF State
      <3> QED BY <2>1, <2>2, <3>1
    <2>4. CASE phase' = "over" /\ gone
      <3>1. State = "gone" /\ State' = "over" BY <2>1, <2>4 DEF State
      <3>2. Abstract!End BY <2>1, <2>2, <3>1 DEF Abstract!End, State
      <3> QED BY <3>2
    <2> QED BY <2>1, <2>3, <2>4
  <1>5. CASE Transmit
    <2>1. /\ UNCHANGED <<asked, conn, lost, served, gone, answers>> /\ phase = "wait"
          /\ \/ ~gone /\ phase' = phase
             \/ gone /\ phase' = "over" /\ got' = got
      BY <1>5 DEF Transmit
    <2>2. CASE ~gone /\ phase' = phase
      <3>1. State = "up" /\ State' = State BY <2>1, <2>2 DEF State
      <3>2. Seen' \in Seen .. Len(served) /\ Seen \in Nat BY <1>5, TransmitSees, SeenType
      <3>3. CASE Seen' = Seen BY <2>1, <3>1, <3>3
      <3>4. CASE Seen' # Seen
        <4>1. Seen' \in Seen + 1 .. Len(served) BY <1>1, <3>2, <3>4
        <4>2. Abstract!See BY <2>1, <3>1, <4>1 DEF Abstract!See, State
        <4> QED BY <4>2
      <3> QED BY <3>3, <3>4
    <2>3. CASE gone /\ phase' = "over" /\ got' = got
      <3>1. State = "gone" /\ State' = "over" BY <2>1, <2>3 DEF State
      <3>2. Seen' = Seen BY <2>1, <2>3, SeenStays
      <3>3. Abstract!End BY <2>1, <3>1, <3>2 DEF Abstract!End, State
      <3> QED BY <3>3
    <2> QED BY <2>1, <2>2, <2>3
  <1>6. CASE HeaderTooSmall \/ NotComplete
    <2>1. /\ UNCHANGED <<asked, conn, lost, served, gone, answers, got>>
          /\ phase = "parse" /\ phase' = "wait"
      BY <1>6 DEF HeaderTooSmall, NotComplete, Headed
    <2>2. Seen' = Seen /\ State' = State BY <2>1, SeenStays DEF State
    <2> QED BY <2>1, <2>2
  <1>7. CASE TooLong
    <2>1. /\ UNCHANGED <<asked, conn, lost, served, gone, answers, got>>
          /\ phase = "parse" /\ phase' = "over"
      BY <1>7 DEF TooLong, Headed
    <2>2. Seen' = Seen /\ State' = "over" /\ State \in {"up", "gone"}
      BY <2>1, SeenStays DEF State
    <2>3. Len(served) + 1 \in 1 .. Len(asked) /\ Signed(asked[Len(served) + 1].len) > Longest
      <3>1. Unread(bIn) > Header /\ Signed(Number(bIn)) > Longest /\ ~lost
        BY <1>7 DEF TooLong, Headed
      <3>2. ChannelInv /\ RequestsInv BY <3>1 DEF StreamsInv
      <3>3. Number(bIn) = asked[Len(served) + 1].len BY <3>1, <3>2, NumberIsOldest
      <3>4. Len(served) + 1 \in 1 .. Len(asked) BY <3>1, <3>2, OldestIsNext
      <3> QED BY <3>1, <3>3, <3>4
    <2>4. Len(served) < Len(asked) BY <1>1, <2>3
    <2>5. Abstract!Oldest = asked[Len(served) + 1] BY DEF Abstract!Oldest
    <2>6. Abstract!Signed(Abstract!Oldest.len) > Longest BY <2>3, <2>5, SamePackets
    <2>7. Abstract!End BY <2>1, <2>2, <2>4, <2>6 DEF Abstract!End, State
    <2> QED BY <2>7
  <1>8. CASE Serve BY <1>8, ServeMaps
  <1>10. CASE Astray BY <1>10, AstrayMaps
  <1>9. CASE UNCHANGED vars
    <2>1. UNCHANGED <<asked, conn, lost, served, gone, phase, answers, got>> BY <1>9 DEF vars
    <2>2. Seen' = Seen /\ State' = State BY <2>1, SeenStays DEF State
    <2> QED BY <2>1, <2>2
  <1> QED BY <1>2, <1>3, <1>4, <1>5, <1>6, <1>7, <1>8, <1>9, <1>10 DEF Next, Parse

\* The session serves every request once and in order, in the mode of the
\* moment, whatever the sizes of reads, writes, requests and buffers, until
\* one that is not sound is served: the stream of bytes implements Exchange.
THEOREM ImplementsExchange == Spec => ServedInOrder
  <1>1. Init => Abstract!Init BY InitMaps
  <1>2. StreamsInv /\ StreamsInv' /\ [Next]_vars =>
          [Abstract!Ask \/ Abstract!Serve \/ Abstract!Astray \/ Abstract!See \/ Abstract!Leave \/ Abstract!End]_<<asked, served, conn, lost, Seen, State>>
    BY NextMaps
  <1>3. Abstract!Spec <=> Abstract!Init /\ [][Abstract!Ask \/ Abstract!Serve \/ Abstract!Astray \/ Abstract!See \/ Abstract!Leave \/ Abstract!End]_<<asked, served, conn, lost, Seen, State>>
    BY DEF Abstract!Spec, Abstract!vars, State
  <1> QED BY <1>1, <1>2, <1>3, StreamsAlways, PTL DEF Spec, ServedInOrder

=============================================================================
