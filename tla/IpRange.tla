------------------------------ MODULE IpRange ------------------------------
(***************************************************************************)
(* Ranges of addresses, as the configuration writes them and as an address *)
(* is compared with them (Core/parsing.c, Core/user.c). What is written is *)
(* the sequence of its numbers: the dots, the dash and the slash are all   *)
(* the same to TagParseRangeIP. Sizes are at most 127.                     *)
(***************************************************************************)
EXTENDS Integers, Sequences, SequencesExt

Byte == 0 .. 255
Positions == 0 .. 9
Masks == [Positions -> Byte]

\* A char compared with another one is signed.
SignedChar(b) == IF b > 127 THEN b - 256 ELSE b

\* Beyond the eighth separator the digits of a number go on the one before.
Shift(n) == IF n < 10 THEN 10 ELSE IF n < 100 THEN 100 ELSE 1000
Joined(nb, n) == nb * Shift(n) + n

\* What is stored at a position: the numbers in order, the ninth one with
\* those that follow.
LastPosition(nums) == IF Len(nums) > 8 THEN 8 ELSE Len(nums) - 1
Stored(nums, i) ==
  IF i < 8 \/ Len(nums) = 9 THEN nums[i + 1] ELSE FoldLeft(Joined, 0, SubSeq(nums, 9, Len(nums)))

\* Mutation of MaskByte: one address alone is no range.
MaskByteOnce(nums, i) ==
  IF i <= LastPosition(nums) THEN Stored(nums, i) % 256
  ELSE IF i = 8 THEN 32 ELSE 0

\* The first address is the second one too, until this one is written; the
\* number of bits is 32.
MaskByte(nums, i) ==
  IF i <= LastPosition(nums) THEN Stored(nums, i) % 256
  ELSE IF i \in 4 .. 7 /\ i - 4 <= LastPosition(nums) THEN Stored(nums, i - 4) % 256
  ELSE IF i = 8 THEN 32 ELSE 0

TagParseRangeIP(nums) ==
  [i \in Positions |->
     IF i = 8 /\ SignedChar(MaskByte(nums, 8)) > 32 THEN 32 ELSE MaskByte(nums, i)]

\* The bytes of the address are compared one by one, the last one after its
\* bits beyond the size are cleared.
Between(range, i, b) ==
  SignedChar(range[i]) <= SignedChar(b) /\ SignedChar(b) <= SignedChar(range[i + 4])

IsForRangeIP(range, ip) ==
  LET bip == TagParseRangeIP(ip)
      bytes == range[8] \div 8
      rest == range[8] % 8
  IN /\ \A i \in 0 .. bytes - 1 : Between(range, i, bip[i])
     /\ rest > 0 => Between(range, bytes, (bip[bytes] \div 2^(8 - rest)) * 2^(8 - rest))

-----------------------------------------------------------------------------
(* What the documented forms are for. Of the two ends of a-b (sftp_config) *)
(* each byte has its own interval. A size is taken for a byte: a/n goes    *)
(* from a to n and the last bytes of a, and a/n-b/n to n and the first     *)
(* bytes of b. The sizes of the documentation (iprange.rst) have no other  *)
(* effect, but for what becomes of the last one.                           *)

Documented(nums) ==
  \/ Len(nums) \in {5, 8}
  \/ Len(nums) = 10 /\ TagParseRangeIP(nums)[8] = 32

End(nums) ==
  IF Len(nums) = 5 THEN <<nums[5], nums[2], nums[3], nums[4]>> ELSE SubSeq(nums, 5, 8)

\* An interval across 127 is empty, and one back across 127 goes around.
Covers(low, high, b) ==
  CASE low < 128 /\ high >= 128 -> FALSE
    [] low >= 128 /\ high < 128 -> low <= b \/ b <= high
    [] OTHER                    -> low <= b /\ b <= high

ReadAs(nums, ip) == \A i \in 1 .. 4 : Covers(nums[i], End(nums)[i], ip[i])
==============================================================================
