----------------------------- MODULE OracleNumber -----------------------------
(***************************************************************************)
(* Oracle's internal NUMBER: a byte for sign and exponent, then the         *)
(* mantissa in base 100.  oracle_encoding.cpp writes it, oracle_decoding.cpp *)
(* reads it into 64 and 128-bit integers or into text.                      *)
(*                                                                         *)
(* The machine's sizes are constants, so that every limit of the code lies  *)
(* within TLC's integers and its proportions are kept: a word holds         *)
(* kChunkDigits digits (64 bits and 18), two words hold a DECIMAL of the     *)
(* widest precision (128 bits and 38), and the mantissa of a NUMBER holds   *)
(* the digits of that DECIMAL wherever the decimal point is (20 pairs).     *)
(***************************************************************************)
EXTENDS Integers, Sequences, FiniteSets, SequencesExt

CONSTANTS
  HalfWord,     \* 2^32: Mul64 and the limbs of the long division
  kChunkDigits, \* 18
  kMaxPairs,    \* 20, base-100 digits of a mantissa
  kMaxKeep      \* 40, digits kept before the accumulator is known to overflow

Word == HalfWord * HalfWord
kOracleNumberMaxBytes == kMaxPairs + 2

ASSUME NumberAssumption ==
  /\ HalfWord \in Nat \ {0, 1} /\ kChunkDigits \in Nat \ {0}
  /\ kMaxPairs \in Nat \ {0} /\ kMaxKeep \in Nat
  /\ 10 ^ kChunkDigits <= Word            \* a chunk fits a word
  /\ 10 ^ kMaxKeep >= Word * Word         \* what is refused at once would overflow

-----------------------------------------------------------------------------
(* DecimalDigits of two words, least significant first: long division by 10 *)
(* over four half words, most significant first.                            *)
RECURSIVE LongDivision(_, _)
LongDivision(limbs, remainder) ==
  IF limbs = <<>> THEN [quotient |-> <<>>, remainder |-> remainder]
  ELSE LET current == remainder * HalfWord + Head(limbs)
           rest == LongDivision(Tail(limbs), current % 10)
       IN [quotient |-> <<current \div 10>> \o rest.quotient, remainder |-> rest.remainder]

RECURSIVE DecimalDigits(_)
DecimalDigits(limbs) ==
  IF \A i \in 1 .. Len(limbs) : limbs[i] = 0 THEN <<>>
  ELSE LET step == LongDivision(limbs, 0)
       IN <<step.remainder>> \o DecimalDigits(step.quotient)

Limbs(hi, lo) == <<hi \div HalfWord, hi % HalfWord, lo \div HalfWord, lo % HalfWord>>

Padded(digits) == IF Len(digits) % 2 = 0 THEN digits ELSE Append(digits, 0)

(* The last byte of a negative mantissa, unless the mantissa is full. *)
Terminator(negative, pairs) == IF negative /\ pairs < kMaxPairs THEN <<102>> ELSE <<>>

(* The bytes, or <<>> for a mantissa that is too long. *)
EncodeFromDigits(dec, negative, scale) ==
  LET aligned == Padded(IF scale % 2 = 0 THEN dec ELSE <<0>> \o dec)
      base100 == [i \in 1 .. Len(aligned) \div 2 |-> aligned[2 * i - 1] + 10 * aligned[2 * i]]
      used == {i \in DOMAIN base100 : base100[i] # 0}
      exponent == Max(used) - 1 - ((scale + 1) \div 2)
      mantissa == Reverse(SubSeq(base100, Min(used), Max(used)))
  IN IF Len(mantissa) > kMaxPairs THEN <<>>
     ELSE <<IF negative THEN 62 - exponent ELSE 193 + exponent>>
          \o [i \in DOMAIN mantissa |-> IF negative THEN 101 - mantissa[i] ELSE mantissa[i] + 1]
          \o Terminator(negative, Len(mantissa))

EncodeOracleNumber(hi, lo, negative, scale) ==
  IF hi = 0 /\ lo = 0 THEN <<128>>
  ELSE EncodeFromDigits(DecimalDigits(Limbs(hi, lo)), negative, scale)

-----------------------------------------------------------------------------
(* ParsedNumber: value = 0.DIGITS * 10^point, where DIGITS are the digits    *)
(* lead .. lead + size - 1 of the pairs, without a leading or trailing zero.  *)
Zero == [zero |-> TRUE, negative |-> FALSE, infinity |-> FALSE,
         point |-> 0, lead |-> 0, size |-> 0, pairs |-> <<>>]
Infinity(negative) == [Zero EXCEPT !.zero = FALSE, !.infinity = TRUE, !.negative = negative]
Malformed == [malformed |-> TRUE]
IsMalformed(n) == "malformed" \in DOMAIN n

ParseMantissa(negative, exponent, bytes) ==
  LET pairs == [i \in DOMAIN bytes |-> (IF negative THEN 101 - bytes[i] ELSE bytes[i] - 1) % 256]
      used == {i \in DOMAIN pairs : pairs[i] # 0}
      first == Min(used)
      count == Max(used)
      lead == 2 * (first - 1) + (IF pairs[first] < 10 THEN 1 ELSE 0)
  IN IF bytes = <<>> \/ Len(bytes) > kMaxPairs \/ (\E i \in DOMAIN pairs : pairs[i] > 99) THEN Malformed
     ELSE IF used = {} THEN Zero
     ELSE [zero |-> FALSE, negative |-> negative, infinity |-> FALSE,
           point |-> 2 * (exponent + 1) - lead, lead |-> lead,
           size |-> 2 * count - (IF pairs[count] % 10 = 0 THEN 1 ELSE 0) - lead,
           pairs |-> pairs]

ParseNumber(bytes) ==
  LET negative == Head(bytes) < 128
      exponent == IF negative THEN 62 - Head(bytes) ELSE Head(bytes) - 193
      terminated == negative /\ Len(bytes) > 1 /\ Last(bytes) = 102
      digits == IF terminated THEN Front(Tail(bytes)) ELSE Tail(bytes)
  IN IF Len(bytes) \notin 1 .. kOracleNumberMaxBytes THEN Malformed
     ELSE IF bytes = <<128>> THEN Zero
     ELSE IF Head(bytes) = 128 THEN Malformed
     ELSE IF bytes = <<0>> THEN Infinity(TRUE)
     ELSE IF bytes = <<255, 101>> THEN Infinity(FALSE)
     ELSE ParseMantissa(negative, exponent, digits)

StreamDigit(n, i) ==
  LET pair == n.pairs[i \div 2 + 1] IN IF i % 2 = 1 THEN pair % 10 ELSE pair \div 10

RECURSIVE Horner(_, _, _)
Horner(base, value, digits) ==
  IF digits = <<>> THEN value ELSE Horner(base, base * value + Head(digits), Tail(digits))

(* The digits pos .. pos + digits - 1 of the stream as an integer. *)
ChunkValue(n, pos, digits) ==
  Horner(10, 0, [i \in 1 .. digits |-> StreamDigit(n, pos + i - 1)])

-----------------------------------------------------------------------------
(* The accumulator of two words. *)
Mul64(a, b) ==
  LET a0 == a % HalfWord
      a1 == a \div HalfWord
      b0 == b % HalfWord
      b1 == b \div HalfWord
      mid == ((a0 * b0) \div HalfWord) + ((a0 * b1) % HalfWord) + ((a1 * b0) % HalfWord)
  IN [hi |-> a1 * b1 + ((a0 * b1) \div HalfWord) + ((a1 * b0) \div HalfWord) + (mid \div HalfWord),
      lo |-> (mid % HalfWord) * HalfWord + ((a0 * b0) % HalfWord)]

Overflow == [ok |-> FALSE, hi |-> 0, lo |-> 0]
Acc(hi, lo) == IF hi < Word THEN [ok |-> TRUE, hi |-> hi, lo |-> lo] ELSE Overflow

(* The sum wrapped below the addend. *)
MutCarry(lo, addend) == 0

Carry(lo, addend) == IF lo < addend THEN 1 ELSE 0

(* acc * multiplier + addend; Overflow beyond two words. *)
MulAdd(acc, multiplier, addend) ==
  LET low == Mul64(acc.lo, multiplier)
      high == Mul64(acc.hi, multiplier)
      lo == (low.lo + addend) % Word
  IN IF acc.hi = 0 /\ acc.lo = 0 THEN Acc(0, addend)
     ELSE IF high.hi # 0 THEN Overflow
     ELSE Acc(high.lo + low.hi + Carry(lo, addend), lo)

Increment(acc) == IF acc.lo + 1 < Word THEN Acc(acc.hi, acc.lo + 1) ELSE Acc(acc.hi + 1, 0)

RECURSIVE TakeChunks(_, _, _, _)
TakeChunks(n, acc, pos, end) ==
  LET digits == Min({end - pos, kChunkDigits})
  IN IF ~acc.ok \/ pos >= end THEN acc
     ELSE TakeChunks(n, MulAdd(acc, 10 ^ digits, ChunkValue(n, pos, digits)), pos + digits, end)

RECURSIVE PadZeros(_, _)
PadZeros(acc, pad) ==
  LET step == Min({pad, kChunkDigits})
  IN IF ~acc.ok \/ pad <= 0 THEN acc ELSE PadZeros(MulAdd(acc, 10 ^ step, 0), pad - step)

(* The first digit dropped decides; with keep < 0 it is a zero. *)
RoundsUp(n, keep) == keep >= 0 /\ StreamDigit(n, n.lead + keep) >= 5

Status(status) == [status |-> status, acc |-> Acc(0, 0)]
Checked(acc) == IF acc.ok THEN [status |-> "ok", acc |-> acc] ELSE Status("overflow")

(* The magnitude of the digits taken, when all were or rounding is asked for. *)
Rounded(n, keep, round, acc) ==
  IF ~acc.ok THEN Status("overflow")
  ELSE IF keep >= n.size THEN Checked(acc)
  ELSE IF ~round THEN Status("inexact")
  ELSE Checked(IF RoundsUp(n, keep) THEN Increment(acc) ELSE acc)

(* value * 10^scale as a magnitude, or why not. *)
ScaledMagnitude(n, scale, round) ==
  LET keep == n.point + scale
      taken == IF keep < n.size THEN Max({keep, 0}) ELSE n.size
  IN IF n.infinity THEN Status("infinity")
     ELSE IF n.zero THEN Status("ok")
     ELSE IF keep > kMaxKeep THEN Status("overflow")
     ELSE Rounded(n, keep, round,
                  PadZeros(TakeChunks(n, Acc(0, 0), n.lead, n.lead + taken), keep - taken))

Signed(n, acc) == (IF n.negative THEN -1 ELSE 1) * (acc.hi * Word + acc.lo)
Decoded(status, value) == [status |-> status, value |-> value]

(* The range of an integer of so many words: one more below zero than above. *)
Fits(n, acc, range) == acc.hi * Word + acc.lo <= range \div 2 - (IF n.negative THEN 0 ELSE 1)

ToInteger(n, scaled, range) ==
  IF scaled.status # "ok" THEN Decoded(scaled.status, 0)
  ELSE IF ~Fits(n, scaled.acc, range) THEN Decoded("overflow", 0)
  ELSE Decoded("ok", Signed(n, scaled.acc))

DecodeOracleNumberScaled(bytes, scale, round, range) ==
  LET n == ParseNumber(bytes)
  IN IF IsMalformed(n) THEN Decoded("malformed", 0)
     ELSE ToInteger(n, ScaledMagnitude(n, scale, round), range)

DecodeOracleNumberScaled64(bytes, scale, round) == DecodeOracleNumberScaled(bytes, scale, round, Word)
DecodeOracleNumberScaled128(bytes, scale, round) == DecodeOracleNumberScaled(bytes, scale, round, Word * Word)

(* The text: a sign, the digits before the point and those after it. *)
Digits(n, from, to) == [i \in 1 .. to - from |-> StreamDigit(n, n.lead + from + i - 1)]
Zeros(k) == [i \in 1 .. k |-> 0]
Text(negative, integer, fraction) == [negative |-> negative, integer |-> integer, fraction |-> fraction]

DecodeOracleNumberText(bytes) ==
  LET n == ParseNumber(bytes)
  IN IF IsMalformed(n) THEN Decoded("malformed", 0)
     ELSE IF n.infinity THEN Decoded("ok", IF n.negative THEN "-Infinity" ELSE "Infinity")
     ELSE IF n.zero THEN Decoded("ok", Text(FALSE, <<0>>, <<>>))
     ELSE Decoded("ok",
       IF n.point <= 0 THEN Text(n.negative, <<0>>, Zeros(-n.point) \o Digits(n, 0, n.size))
       ELSE IF n.point >= n.size THEN Text(n.negative, Digits(n, 0, n.size) \o Zeros(n.point - n.size), <<>>)
       ELSE Text(n.negative, Digits(n, 0, n.point), Digits(n, n.point, n.size)))
=============================================================================
