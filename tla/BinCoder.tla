------------------------------ MODULE BinCoder -------------------------------
(* The arithmetic coder of slice data: BinEncoderBase/TBinEncoder with its  *)
(* carry and outstanding bytes, and BinDecoderBase/TBinDecoder. A context   *)
(* is the state the probability model has when the bin is coded, which the  *)
(* encoder and the decoder share.                                           *)
EXTENDS Integers, Sequences

CONSTANTS Symbols,      \* what may be coded: bins with a context, bypass bins, terminate bins
          MaxSymbols    \* bound on the symbols of a slice

(* n: the number of bypass bins; q: the upper 5 bits of the probability; mps: *)
(* the more probable bin; val: the bins                                     *)
ASSUME CoderAssumption ==
  /\ MaxSymbols \in Nat
  /\ Symbols \subseteq [kind : {"ctx", "ep", "trm"}, n : 1..16, q : 0..31, mps : {0, 1}, val : Nat]
  /\ \A s \in Symbols : s.val < 2^s.n /\ (s.kind = "ep" \/ s.n = 1)

VARIABLES enc,          \* m_low, m_range, m_bufferedByte, m_numBufferedBytes, m_bitsLeft, the bytes written
          coded,        \* the symbols coded
          data,         \* the bytes of the slice data, once it is finished
          dec,          \* m_value, m_range, m_bitsNeeded, m_fifoIdx
          decoded,      \* how many symbols have been decoded
          verdict       \* what the decoder made of them
coderVars == <<enc, coded, data, dec, decoded, verdict>>

Shl(x, n) == x * 2^n
Shr(x, n) == x \div 2^n

Lps(range, s) == Shr(s.q * Shr(range, 5), 1) + 4

(* The shift that brings the range of a less probable bin back to 256 or more *)
RenormBits(lps) == CHOOSE n \in 0..6 : Shl(lps, n) >= 256 /\ (n = 0 \/ Shl(lps, n - 1) < 256)

(***************************************************************************)
(* Encoder                                                                 *)
(***************************************************************************)

Start == [low |-> 0, range |-> 510, buffered |-> 255, outstanding |-> 0, bitsLeft |-> 23, bytes |-> <<>>]

Fill(byte, n) == [i \in 1..n |-> byte]

(* Mutant: a carry stops at the first of the outstanding bytes              *)
ReleasedStoppingCarry(e, carry) == <<e.buffered + carry>> \o Fill(255, e.outstanding - 1)

(* The outstanding bytes, the first of which may take a carry               *)
Released(e, carry) ==
  <<e.buffered + carry>> \o Fill((255 + carry) % 256, e.outstanding - 1)

WriteOut(e) ==
  LET lead == Shr(e.low, 24 - e.bitsLeft)
      f == [e EXCEPT !.bitsLeft = @ + 8, !.low = @ % 2^(24 - e.bitsLeft)]
  IN IF lead = 255 THEN [f EXCEPT !.outstanding = @ + 1]
     ELSE IF e.outstanding > 0
     THEN [f EXCEPT !.bytes = @ \o Released(e, Shr(lead, 8)), !.outstanding = 1, !.buffered = lead % 256]
     ELSE [f EXCEPT !.outstanding = 1, !.buffered = lead]

Shifted(e, low, range, n) ==
  LET f == [e EXCEPT !.low = Shl(low, n), !.range = Shl(range, n), !.bitsLeft = @ - n]
  IN IF f.bitsLeft < 12 THEN WriteOut(f) ELSE f

EncodeBin(e, s) ==
  LET lps == Lps(e.range, s)
      range == e.range - lps
  IN IF s.val # s.mps THEN Shifted(e, e.low + range, lps, RenormBits(lps))
     ELSE IF range < 256 THEN Shifted(e, e.low, range, 1) ELSE [e EXCEPT !.range = range]

(* At most 8 bypass bins; with a range of 256 the aligned coding is the same *)
EncodeByte(e, bins, n) ==
  LET f == [e EXCEPT !.low = Shl(@, n) + e.range * bins, !.bitsLeft = @ - n]
  IN IF f.bitsLeft < 12 THEN WriteOut(f) ELSE f

EncodeBinsEP(e, bins, n) ==
  IF n <= 8 THEN EncodeByte(e, bins, n)
  ELSE EncodeByte(EncodeByte(e, Shr(bins, n - 8), 8), bins % 2^(n - 8), n - 8)

EncodeBinTrm(e, bin) ==
  LET range == e.range - 2
  IN IF bin = 1 THEN [Shifted(e, e.low + range, 2, 7) EXCEPT !.range = 256]
     ELSE IF range >= 256 THEN [e EXCEPT !.range = range] ELSE Shifted(e, e.low, range, 1)

EncodeSymbol(e, s) ==
  CASE s.kind = "ctx" -> EncodeBin(e, s)
    [] s.kind = "ep" -> EncodeBinsEP(e, s.val, s.n)
    [] s.kind = "trm" -> EncodeBinTrm(e, 0)

(* The last n bits, then the alignment bit and zeros up to a byte           *)
Aligned(bits, n) ==
  LET pad == (7 - n) % 8
      word == Shl(2 * bits + 1, pad)
  IN IF n + 1 + pad = 8 THEN <<word>> ELSE <<Shr(word, 8), word % 256>>

Finish(e) ==
  LET top == 2^(32 - e.bitsLeft)
      flushed == IF e.low >= top
                 THEN <<e.buffered + 1>> \o Fill(0, e.outstanding - 1)
                 ELSE IF e.outstanding > 0 THEN <<e.buffered>> \o Fill(255, e.outstanding - 1) ELSE <<>>
  IN e.bytes \o flushed \o Aligned(Shr(e.low % top, 8), 24 - e.bitsLeft)

(***************************************************************************)
(* Decoder                                                                 *)
(***************************************************************************)

(* Reading past the end gives no byte and aborts: see DecodeNext            *)
ByteAt(bytes, i) == IF i \in DOMAIN bytes THEN bytes[i] ELSE 0

StartOf(bytes) ==
  [value |-> Shl(ByteAt(bytes, 1), 8) + ByteAt(bytes, 2), range |-> 510, bitsNeeded |-> -8, read |-> 2]

(* n bits are used: read a byte when eight are needed                       *)
Refilled(d, bytes, n) ==
  IF d.bitsNeeded + n < 0 THEN [d EXCEPT !.value = Shl(@, n), !.bitsNeeded = @ + n]
  ELSE [d EXCEPT !.value = Shl(@, n) + Shl(ByteAt(bytes, d.read + 1), d.bitsNeeded + n),
                 !.bitsNeeded = @ + n - 8, !.read = @ + 1]

(* The result of a step: the bins and the decoder after it                  *)
Result(bins, d) == [bins |-> bins, d |-> d]

DecodeBin(d, bytes, s) ==
  LET lps == Lps(d.range, s)
      range == d.range - lps
      scaled == Shl(range, 7)
      e == [d EXCEPT !.range = range]
  IN IF d.value >= scaled
     THEN Result(1 - s.mps, [Refilled([e EXCEPT !.value = @ - scaled], bytes, RenormBits(lps))
                               EXCEPT !.range = Shl(lps, RenormBits(lps))])
     ELSE Result(s.mps, IF range < 256 THEN [Refilled(e, bytes, 1) EXCEPT !.range = 2 * range] ELSE e)

(* Bin by bin, the scaled range is subtracted from the value where it fits  *)
DecodeByte(d, bytes, n) ==
  LET e == Refilled(d, bytes, n)
      fits == e.value \div Shl(d.range, 7)
      bins == IF fits < 2^n THEN fits ELSE 2^n - 1
  IN Result(bins, [e EXCEPT !.value = @ - bins * Shl(d.range, 7)])

(* With a range of 256 the bins are the upper bits of the value             *)
DecodeAligned(d, bytes, n) ==
  LET e == Refilled([d EXCEPT !.value = @ % 2^(15 - n)], bytes, n)
  IN Result(Shr(d.value, 15 - n) % 2^n, e)

DecodeUpTo8(d, bytes, n) == IF d.range = 256 THEN DecodeAligned(d, bytes, n) ELSE DecodeByte(d, bytes, n)

DecodeBinsEP(d, bytes, n) ==
  IF n <= 8 THEN DecodeUpTo8(d, bytes, n)
  ELSE LET first == DecodeUpTo8(d, bytes, 8)
           rest == DecodeUpTo8(first.d, bytes, n - 8)
       IN Result(Shl(first.bins, n - 8) + rest.bins, rest.d)

DecodeBinTrm(d, bytes) ==
  LET range == d.range - 2
      e == [d EXCEPT !.range = range]
  IN IF d.value >= Shl(range, 7) THEN Result(1, e)
     ELSE Result(0, IF range < 256 THEN [Refilled(e, bytes, 1) EXCEPT !.range = 2 * range] ELSE e)

DecodeSymbol(d, bytes, s) ==
  CASE s.kind = "ctx" -> DecodeBin(d, bytes, s)
    [] s.kind = "ep" -> DecodeBinsEP(d, bytes, s.n)
    [] s.kind = "trm" -> DecodeBinTrm(d, bytes)

(* The bits left of the byte read last are the stop bit and zeros           *)
StopPattern(d, bytes) == Shl(ByteAt(bytes, d.read), 8 + d.bitsNeeded) % 256 = 128

(***************************************************************************)
(* A slice                                                                 *)
(***************************************************************************)

CoderInit ==
  /\ enc = Start /\ coded = <<>> /\ data = <<>>
  /\ dec = [value |-> 0, range |-> 510, bitsNeeded |-> -8, read |-> 0]
  /\ decoded = 0 /\ verdict = "none"

Encode(s) ==
  /\ data = <<>> /\ Len(coded) < MaxSymbols
  /\ enc' = EncodeSymbol(enc, s)
  /\ coded' = Append(coded, s)
  /\ UNCHANGED <<data, dec, decoded, verdict>>

EndOfSlice ==
  /\ data = <<>> /\ coded # <<>>
  /\ data' = Finish(EncodeBinTrm(enc, 1))
  /\ UNCHANGED <<enc, coded, dec, decoded, verdict>>

StartDecoding(bytes) ==
  /\ verdict = "none"
  /\ dec' = StartOf(bytes)
  /\ verdict' = "decoding"
  /\ UNCHANGED <<enc, coded, data, decoded>>

(* The next symbol, or the terminate bin after the last one                 *)
DecodeNext(bytes) ==
  LET last == decoded = Len(coded)
      r == IF last THEN DecodeBinTrm(dec, bytes) ELSE DecodeSymbol(dec, bytes, coded[decoded + 1])
      sent == IF last THEN 1 ELSE IF coded[decoded + 1].kind = "trm" THEN 0 ELSE coded[decoded + 1].val
  IN /\ verdict = "decoding"
     /\ dec' = r.d
     /\ decoded' = decoded + 1
     /\ verdict' = IF r.d.read > Len(bytes) THEN "past the end"
                   ELSE IF r.bins # sent THEN "other bins"
                   ELSE IF ~last THEN "decoding"
                   ELSE IF ~StopPattern(r.d, bytes) THEN "no stop pattern"
                   ELSE IF r.d.read < Len(bytes) THEN "bytes left" ELSE "decoded"
     /\ UNCHANGED <<enc, coded, data>>
=============================================================================
