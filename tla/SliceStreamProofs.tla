-------------------------- MODULE SliceStreamProofs --------------------------
(* The byte stream, proved for every payload. No NAL unit, at no moment of  *)
(* its writing, holds what the parser takes for its end: so the file is cut *)
(* at the start codes where the units are, the decoder removes exactly what *)
(* the writer added, and the slice data comes back to the coder.            *)
EXTENDS SliceStream, BinCoderProofs

(* A unit as the writer keeps it, over some set of bytes                    *)
UnitOver(S) ==
  [type : Types, rbsp : Seq(S), bytes : Seq(S), zeros : 0..2, padded : BOOLEAN]

IsUnit(u) == \E S : u \in UnitOver(S)

(* The count of zeros is what stands at the end of the bytes                *)
CountsZeros(u) ==
  /\ Len(u.bytes) >= 2
  /\ u.zeros = 0 => u.bytes[Len(u.bytes)] # 0
  /\ u.zeros > 0 => u.bytes[Len(u.bytes)] = 0
  /\ u.zeros = 1 => u.bytes[Len(u.bytes) - 1] # 0

Ends(s, i) == s[i] = 0 /\ s[i + 1] = 0 /\ s[i + 2] \in 0..2
Unbroken(s) == \A i \in 1..(Len(s) - 2) : ~Ends(s, i)

(* A payload that does not end in a zero left no zeros to protect           *)
ZerosFromPayload(u) == u.rbsp # <<>> /\ Last(u.rbsp) # 0 => u.zeros = 0

UnitInv(u) == IsUnit(u) /\ CountsZeros(u) /\ Unbroken(u.bytes) /\ ZerosFromPayload(u)

IInv == unit # NoUnit => UnitInv(unit)

(***************************************************************************)
(* Sequences of bytes                                                      *)
(***************************************************************************)

(* A sequence is one over any larger set of bytes                           *)
LEMMA Widen == ASSUME NEW S, NEW T, S \subseteq T, NEW s \in Seq(S) PROVE s \in Seq(T)
  OBVIOUS

(* One more byte breaks nothing unless two zeros stand before it            *)
LEMMA AppendUnbroken ==
  ASSUME NEW S, NEW s \in Seq(S), NEW v \in S, Len(s) >= 2, Unbroken(s),
         s[Len(s)] # 0 \/ s[Len(s) - 1] # 0 \/ v \notin 0..2
  PROVE  Unbroken(Append(s, v))
<1>1. SUFFICES ASSUME NEW i \in 1..(Len(Append(s, v)) - 2) PROVE ~Ends(Append(s, v), i)
  BY DEF Unbroken
<1>2. Len(Append(s, v)) = Len(s) + 1 /\ \A j \in 1..Len(s) : Append(s, v)[j] = s[j]
  OBVIOUS
<1>3. Append(s, v)[Len(s) + 1] = v
  OBVIOUS
<1>4. CASE i = Len(s) - 1
  BY <1>2, <1>3, <1>4 DEF Ends
<1>5. CASE i <= Len(s) - 2
  BY <1>2, <1>5 DEF Ends, Unbroken
<1> QED BY <1>2, <1>4, <1>5

(***************************************************************************)
(* The steps of the writer                                                 *)
(***************************************************************************)

(* One turn of the loop of writeNaluContent keeps the unit well formed      *)
LEMMA EscapedUnit == ASSUME NEW u, NEW v, UnitInv(u) PROVE UnitInv(Escaped(u, v))
<1>1. PICK S : u \in UnitOver(S)
  BY DEF UnitInv, IsUnit
<1> DEFINE T == S \cup {3, v}
<1>2. u \in UnitOver(T)
  <2>1. u.rbsp \in Seq(T) /\ u.bytes \in Seq(T)
    BY <1>1, Widen DEF UnitOver
  <2> QED BY <1>1, <2>1 DEF UnitOver
<1>3. CountsZeros(u) /\ Unbroken(u.bytes)
  BY DEF UnitInv
<1> DEFINE w == Escaped(u, v)
<1>4. /\ w.rbsp = Append(u.rbsp, v)
      /\ w.zeros = IF v # 0 THEN 0 ELSE IF Emulates(u, v) THEN 1 ELSE u.zeros + 1
      /\ w.bytes = u.bytes \o (IF Emulates(u, v) THEN <<3, v>> ELSE <<v>>)
      /\ w = [u EXCEPT !.rbsp = w.rbsp, !.bytes = w.bytes, !.zeros = w.zeros]
  <2> DEFINE b == u.bytes \o (IF Emulates(u, v) THEN <<3, v>> ELSE <<v>>)
             z == IF v # 0 THEN 0 ELSE IF Emulates(u, v) THEN 1 ELSE u.zeros + 1
             r == Append(u.rbsp, v)
  <2>1. w = [u EXCEPT !.rbsp = r, !.bytes = b, !.zeros = z]
    BY Zenon DEF Escaped
  <2> HIDE DEF w, r, b, z
  <2>2. w.rbsp = r /\ w.bytes = b /\ w.zeros = z
    BY <1>2, <2>1 DEF UnitOver
  <2>3. w = [u EXCEPT !.rbsp = w.rbsp, !.bytes = w.bytes, !.zeros = w.zeros]
    BY <2>1, <2>2
  <2> QED BY <2>2, <2>3 DEF r, b, z
<1> HIDE DEF w
<1>5. ZerosFromPayload(w)
  BY <1>2, <1>4 DEF ZerosFromPayload, UnitOver, Last
<1>6. CASE Emulates(u, v)
  <2> DEFINE three == Append(u.bytes, 3)
  <2>1. w.bytes = Append(three, v) /\ three \in Seq(T) /\ Len(three) = Len(u.bytes) + 1
    BY <1>2, <1>4, <1>6 DEF UnitOver
  <2>2. three[Len(three)] = 3
    BY <1>2, <2>1 DEF UnitOver
  <2>3. Unbroken(three)
    BY <1>2, <1>3, AppendUnbroken DEF UnitOver, CountsZeros
  <2>4. Unbroken(w.bytes)
    <3> HIDE DEF three, T
    <3>1. Len(three) >= 2 /\ v \in T
      BY <1>2, <1>3, <2>1 DEF CountsZeros, UnitOver, T
    <3> QED BY <2>1, <2>2, <2>3, <3>1, AppendUnbroken
  <2>5. Len(w.bytes) = Len(three) + 1 /\ w.bytes[Len(w.bytes)] = v /\ w.bytes[Len(w.bytes) - 1] = 3
    BY <2>1, <2>2
  <2>6. CountsZeros(w)
    BY <2>1, <2>5, <1>2, <1>3, <1>4, <1>6 DEF CountsZeros, UnitOver
  <2>7. w.bytes \in Seq(T) /\ w.rbsp \in Seq(T) /\ w.zeros \in 0..2
    BY <2>1, <1>2, <1>4, <1>6 DEF UnitOver
  <2>8. w \in UnitOver(T)
    BY <2>7, <1>2, <1>4 DEF UnitOver
  <2> QED BY <1>5, <2>4, <2>6, <2>8 DEF UnitInv, IsUnit, w
<1>7. CASE ~Emulates(u, v)
  <2>1. w.bytes = Append(u.bytes, v) /\ w.bytes \in Seq(T)
    BY <1>2, <1>4, <1>7 DEF UnitOver
  <2>2. Len(w.bytes) = Len(u.bytes) + 1 /\ w.bytes[Len(w.bytes)] = v
          /\ w.bytes[Len(w.bytes) - 1] = u.bytes[Len(u.bytes)]
    BY <1>2, <1>3, <2>1 DEF UnitOver, CountsZeros
  <2>3. u.zeros = 2 => v \notin 0..2
    BY <1>7 DEF Emulates
  <2>4. u.bytes[Len(u.bytes)] # 0 \/ u.bytes[Len(u.bytes) - 1] # 0 \/ v \notin 0..2
    BY <1>2, <1>3, <2>3 DEF UnitOver, CountsZeros
  <2>5. Unbroken(w.bytes)
    BY <1>2, <1>3, <2>1, <2>4, AppendUnbroken DEF UnitOver, CountsZeros
  <2>6. w.zeros = (IF v # 0 THEN 0 ELSE u.zeros + 1) /\ w.zeros \in 0..2
    BY <1>2, <1>4, <1>7, <2>3 DEF UnitOver
  <2>7. CountsZeros(w)
    BY <1>2, <1>3, <2>1, <2>2, <2>6 DEF CountsZeros, UnitOver
  <2>8. w.rbsp \in Seq(T)
    BY <1>2, <1>4 DEF UnitOver
  <2>9. w \in UnitOver(T)
    BY <1>2, <1>4, <2>1, <2>6, <2>8 DEF UnitOver
  <2> QED BY <1>5, <2>5, <2>7, <2>9 DEF UnitInv, IsUnit, w
<1> QED BY <1>6, <1>7

(* The header of a unit is not broken either                                *)
LEMMA StartedUnit == ASSUME NEW t \in Types, StartUnit(t) PROVE UnitInv(unit')
<1>1. t \in 0..31
  BY NalAssumption
<1> DEFINE u == [type |-> t, rbsp |-> <<>>, bytes |-> <<0, 8 * t + 1>>, zeros |-> 0, padded |-> FALSE]
<1>2. unit' = u
  BY DEF StartUnit, Header
<1>3. u \in UnitOver(Nat)
  BY <1>1 DEF UnitOver
<1>4. CountsZeros(u) /\ Unbroken(u.bytes) /\ ZerosFromPayload(u)
  BY <1>1 DEF CountsZeros, Unbroken, ZerosFromPayload
<1> QED BY <1>2, <1>3, <1>4 DEF UnitInv, IsUnit

(* cabac_zero_words follow a payload that does not end in a zero, and       *)
(* protect themselves                                                       *)
LEMMA PaddedUnit == ASSUME UnitInv(unit), PadUnit PROVE UnitInv(unit')
<1>1. PICK S : unit \in UnitOver(S)
  BY DEF UnitInv, IsUnit
<1> DEFINE T == S \cup {0, 3}
<1>2. unit \in UnitOver(T)
  <2>1. unit.rbsp \in Seq(T) /\ unit.bytes \in Seq(T)
    BY <1>1, Widen DEF UnitOver
  <2> QED BY <1>1, <2>1 DEF UnitOver
<1>3. CountsZeros(unit) /\ Unbroken(unit.bytes) /\ unit.zeros = 0
  BY DEF UnitInv, ZerosFromPayload, PadUnit
<1> DEFINE a == Append(unit.bytes, 0)
           b == Append(a, 0)
           c == Append(b, 3)
           u == [unit EXCEPT !.bytes = c, !.padded = TRUE]
<1>4. a \in Seq(T) /\ Len(a) = Len(unit.bytes) + 1 /\ a[Len(a)] = 0
        /\ a[Len(a) - 1] = unit.bytes[Len(unit.bytes)]
  BY <1>2, <1>3 DEF UnitOver, CountsZeros
<1>5. b \in Seq(T) /\ Len(b) = Len(a) + 1 /\ b[Len(b)] = 0 /\ b[Len(b) - 1] = 0
  BY <1>4
<1>6. c \in Seq(T) /\ Len(c) = Len(b) + 1 /\ c[Len(c)] = 3
  BY <1>5
<1>7. unit.bytes \in Seq(T) /\ unit.bytes[Len(unit.bytes)] # 0 /\ Len(unit.bytes) >= 2
  BY <1>2, <1>3 DEF UnitOver, CountsZeros
<1> HIDE DEF a, b, c, T
<1>8. Unbroken(a)
  BY <1>3, <1>7, AppendUnbroken DEF a, T
<1>9. Unbroken(b)
  BY <1>4, <1>7, <1>8, AppendUnbroken DEF b, T
<1>10. Unbroken(c)
  <2> DEFINE v == 3
  <2>1. v \notin 0..2 /\ v \in T /\ c = Append(b, v)
    BY DEF T, c
  <2>2. b \in Seq(T) /\ Len(b) >= 2
    BY <1>4, <1>5, <1>7
  <2> HIDE DEF v
  <2> QED BY <1>9, <2>1, <2>2, AppendUnbroken
<1>11. unit' = u
  <2>1. unit' = [unit EXCEPT !.bytes = unit.bytes \o <<0, 0, 3>>, !.padded = TRUE]
    BY <1>3 DEF PadUnit, Ended
  <2>2. unit.bytes \o <<0, 0, 3>> = c
    BY <1>7 DEF a, b, c, T
  <2> QED BY <2>1, <2>2
<1>12. u \in UnitOver(T) /\ u.bytes = c /\ u.zeros = 0 /\ u.rbsp = unit.rbsp
  BY <1>2, <1>3, <1>6 DEF UnitOver
<1>13. CountsZeros(u) /\ ZerosFromPayload(u)
  BY <1>4, <1>5, <1>6, <1>7, <1>12 DEF CountsZeros, ZerosFromPayload
<1> QED BY <1>10, <1>11, <1>12, <1>13 DEF UnitInv, IsUnit

(***************************************************************************)
(* The specification                                                       *)
(***************************************************************************)

LEMMA InitEstablishes == Init => IInv
  BY DEF Init, NalInit, IInv

LEMMA StepKeeps == IInv /\ [Next]_vars => IInv'
<1> SUFFICES ASSUME IInv, [Next]_vars PROVE IInv'
  OBVIOUS
<1>1. CASE UNCHANGED unit
  BY <1>1 DEF IInv
<1>2. ASSUME NEW t \in Types, StartUnit(t) PROVE IInv'
  BY <1>2, StartedUnit DEF IInv
<1>3. ASSUME NEW v, PutByte(v) PROVE IInv'
  <2>1. unit # NoUnit /\ unit' = Escaped(unit, v)
    BY <1>3 DEF PutByte
  <2> QED BY <2>1, EscapedUnit DEF IInv
<1>4. CASE PadUnit
  <2>1. UnitInv(unit)
    BY <1>4 DEF IInv, PadUnit
  <2> QED BY <1>4, <2>1, PaddedUnit DEF IInv
<1>5. ASSUME NEW long \in BOOLEAN, EndUnit(long) PROVE IInv'
  BY <1>5 DEF EndUnit, IInv
<1>6. CASE CodeSymbol \/ CodeEnd \/ CloseStream \/ ReadNalUnit \/ DecodeStart \/ DecodeOne \/ UNCHANGED vars
  <2>1. UNCHANGED unit
    BY <1>6 DEF CodeSymbol, CodeEnd, CloseStream, Close, ReadNalUnit, Read, DecodeStart, DecodeOne,
         nalVars, vars
  <2> QED BY <1>1, <2>1
<1> QED
  BY <1>2, <1>3, <1>4, <1>5, <1>6
  DEF Next, StartSlice, StartOther, PutSliceByte, PutOtherByte, PadSlice, EndNalUnit

LEMMA InvSuffices == IInv => NoStartCodeInside
<1> SUFFICES ASSUME unit # NoUnit, UnitInv(unit)
    PROVE /\ \A i \in 1..(Len(unit.bytes) - 2) :
               ~(unit.bytes[i] = 0 /\ unit.bytes[i + 1] = 0 /\ unit.bytes[i + 2] \in 0..2)
          /\ Ended(unit)[Len(Ended(unit))] # 0
  BY DEF IInv, NoStartCodeInside
<1>1. Unbroken(unit.bytes) /\ CountsZeros(unit)
  BY DEF UnitInv
<1>2. PICK S : unit \in UnitOver(S)
  BY DEF UnitInv, IsUnit
<1>3. unit.zeros \in 0..2 /\ unit.bytes \in Seq(S)
  BY <1>2 DEF UnitOver
<1>4. CASE unit.zeros > 0
  <2>1. Ended(unit) = Append(unit.bytes, 3)
    BY <1>4 DEF Ended
  <2>2. unit.bytes \in Seq(S \cup {3})
    BY <1>3, Widen
  <2>3. Len(Ended(unit)) = Len(unit.bytes) + 1 /\ Ended(unit)[Len(unit.bytes) + 1] = 3
    BY <2>1, <2>2
  <2> QED BY <1>1, <2>3 DEF Unbroken, Ends
<1>5. CASE unit.zeros = 0
  <2>1. Ended(unit) = unit.bytes
    BY <1>5 DEF Ended
  <2> QED BY <1>1, <1>5, <2>1 DEF Unbroken, Ends, CountsZeros
<1> QED BY <1>3, <1>4, <1>5

(* No NAL unit holds an end of a NAL unit, whatever the payload, the type   *)
(* and the padding: the loop of writeNaluContent counts the zeros rightly.  *)
THEOREM UnitsStayWhole == Spec => []NoStartCodeInside
<1>1. IInv /\ [Next]_vars => IInv'
  BY StepKeeps
<1> QED BY InitEstablishes, <1>1, InvSuffices, PTL DEF Spec

(***************************************************************************)
(* What the decoder makes of the bytes of a unit                           *)
(***************************************************************************)

Empty == [out |-> <<>>, zeros |-> 0, escape |-> FALSE, ok |-> TRUE]

(* c: what convertPayloadToRBSP has after 0, 1, ... n bytes                 *)
IsConversion(c, s, n) == c = [i \in 0..n |-> IF i = 0 THEN Empty ELSE Convert(c[i - 1], s[i])]
IsRun(c, s, n) == c[0] = Empty /\ \A i \in 1..n : c[i] = Convert(c[i - 1], s[i])

(* There is one, however many bytes.                                        *)
LEMMA ConversionExists ==
  ASSUME NEW s, NEW n \in Nat
  PROVE  \E c : IsConversion(c, s, n)
<1> DEFINE S == {m \in 0..n : \E c : IsConversion(c, s, m)}
<1>1. 0 \in S
  <2>1. IsConversion([i \in 0..0 |-> Empty], s, 0)
    BY DEF IsConversion
  <2> QED BY <2>1
<1>2. ASSUME NEW m \in 0..(n - 1), m \in S PROVE m + 1 \in S
  <2>1. PICK v : IsConversion(v, s, m)
    BY <1>2
  <2> DEFINE w == [i \in 0..(m + 1) |-> IF i <= m THEN v[i] ELSE Convert(v[m], s[m + 1])]
  <2>2. IsConversion(w, s, m + 1)
    <3>1. \A i \in 0..m : v[i] = IF i = 0 THEN Empty ELSE Convert(v[i - 1], s[i])
      BY <2>1 DEF IsConversion
    <3>2. \A i \in 0..(m + 1) : w[i] = IF i = 0 THEN Empty ELSE Convert(w[i - 1], s[i])
      BY <3>1
    <3>3. w = [i \in 0..(m + 1) |-> w[i]]
      OBVIOUS
    <3> HIDE DEF w
    <3> QED BY <3>2, <3>3 DEF IsConversion
  <2> HIDE DEF w
  <2> QED BY <2>2
<1> HIDE DEF S
<1>3. Reaches(S, n)
  BY <1>1, <1>2 DEF Reaches
<1>4. n \in S
  BY <1>3, UpTo
<1> QED BY <1>4 DEF S

(* Two runs over the same bytes agree                                       *)
LEMMA RunsAgree ==
  ASSUME NEW s, NEW t, NEW n \in Nat, NEW c, NEW d, IsRun(c, s, n), IsRun(d, t, n), \A i \in 1..n : s[i] = t[i]
  PROVE  c[n] = d[n]
<1> DEFINE S == {i \in 0..n : c[i] = d[i]}
<1>1. 0 \in S
  BY DEF IsRun
<1>2. ASSUME NEW i \in 0..(n - 1), i \in S PROVE i + 1 \in S
  <2>1. i + 1 \in 1..n /\ i + 1 \in 0..n /\ (i + 1) - 1 = i
    OBVIOUS
  <2>2. c[i + 1] = Convert(c[i], s[i + 1]) /\ d[i + 1] = Convert(d[i], t[i + 1])
    BY <2>1 DEF IsRun
  <2>3. c[i] = d[i] /\ s[i + 1] = t[i + 1]
    BY <1>2, <2>1
  <2>4. c[i + 1] = d[i + 1]
    BY <2>2, <2>3
  <2> QED BY <2>1, <2>4
<1> HIDE DEF S
<1>3. Reaches(S, n)
  BY <1>1, <1>2 DEF Reaches
<1>4. n \in S
  BY <1>3, UpTo
<1> QED BY <1>4 DEF S

(* Converted runs through its bytes.                                        *)
LEMMA ConvertedRun ==
  ASSUME NEW s, Len(s) \in Nat
  PROVE  \E c : IsRun(c, s, Len(s)) /\ Converted(s) = c[Len(s)]
<1> DEFINE c == CHOOSE v : IsConversion(v, s, Len(s))
<1>1. IsConversion(c, s, Len(s))
  BY ConversionExists
<1>2. Converted(s) = c[Len(s)]
  BY DEF Converted, IsConversion, Empty
<1>3. IsRun(c, s, Len(s))
  <2> HIDE DEF c
  <2>1. \A i \in 0..Len(s) : c[i] = IF i = 0 THEN Empty ELSE Convert(c[i - 1], s[i])
    BY <1>1 DEF IsConversion
  <2> QED BY <2>1 DEF IsRun
<1> QED BY <1>2, <1>3

(* No bytes give no payload.                                                *)
LEMMA ConvertedStart == Converted(<<>>) = Empty
<1>1. PICK c : IsRun(c, <<>>, Len(<<>>)) /\ Converted(<<>>) = c[Len(<<>>)]
  BY ConvertedRun
<1> QED BY <1>1 DEF IsRun

(* A byte more is one more turn of the loop.                                *)
LEMMA ConvertedAppend ==
  ASSUME NEW S, NEW s \in Seq(S), NEW b \in S
  PROVE  Converted(Append(s, b)) = Convert(Converted(s), b)
<1> DEFINE t == Append(s, b)
           n == Len(s)
<1>1. n \in Nat /\ Len(t) = n + 1 /\ t[n + 1] = b /\ \A i \in 1..n : t[i] = s[i]
  OBVIOUS
<1> HIDE DEF t, n
<1>2. PICK c : IsRun(c, t, n + 1) /\ Converted(t) = c[n + 1]
  BY <1>1, ConvertedRun
<1>3. PICK d : IsRun(d, s, n) /\ Converted(s) = d[n]
  BY <1>1, ConvertedRun DEF n
<1>4. IsRun(c, t, n) /\ c[n + 1] = Convert(c[n], t[n + 1])
  <2>1. n + 1 \in 1..(n + 1) /\ (n + 1) - 1 = n /\ \A i \in 1..n : i \in 1..(n + 1)
    BY <1>1
  <2> QED BY <1>2, <2>1 DEF IsRun
<1>5. c[n] = d[n]
  BY <1>1, <1>3, <1>4, RunsAgree
<1> QED BY <1>1, <1>2, <1>3, <1>4, <1>5 DEF t

(***************************************************************************)
(* The unit being written, as the decoder will read it                     *)
(***************************************************************************)

Plain(type, rbsp) == Header(type) \o rbsp

Converts(u) ==
  Converted(u.bytes) =
    [out |-> IF u.padded THEN Append(Append(Plain(u.type, u.rbsp), 0), 0) ELSE Plain(u.type, u.rbsp),
     zeros |-> IF u.padded THEN 0 ELSE u.zeros, escape |-> u.padded, ok |-> TRUE]

ByteUnit(u) ==
  /\ u \in UnitOver(Byte)
  /\ u.padded => IsVcl(u.type) /\ u.rbsp # <<>> /\ Last(u.rbsp) # 0
  /\ Len(u.bytes) >= 2 /\ u.bytes[2] = 8 * u.type + 1

UnitGood(u) == ByteUnit(u) /\ Converts(u)

TypeByte(type) == 8 * type + 1

(* The second byte of the header holds the type.                            *)
LEMMA TypeBytes == ASSUME NEW t \in Types PROVE 8 * t + 1 \in Byte /\ (8 * t + 1) \div 8 = t /\ t \in Nat
<1>1. t \in 0..31
  BY NalAssumption
<1> QED BY <1>1 DEF Byte

(* A byte more of the payload is a byte more of the unit.                   *)
LEMMA PlainAppend ==
  ASSUME NEW t, NEW S, NEW r \in Seq(S), NEW v \in S, 0 \in S, 8 * t + 1 \in S
  PROVE  Plain(t, Append(r, v)) = Append(Plain(t, r), v)
<1> DEFINE h == <<0, 8 * t + 1>>
<1>1. h \in Seq(S) /\ Len(h) = 2
  OBVIOUS
<1> HIDE DEF h
<1>2. h \o Append(r, v) = Append(h \o r, v)
  BY <1>1
<1> QED BY <1>2 DEF Plain, Header, h

(* A byte that does not follow two zeros, or is above 3, is taken over.     *)
LEMMA ConvertPlain ==
  ASSUME NEW c, NEW o, NEW z, c = [out |-> o, zeros |-> z, escape |-> FALSE, ok |-> TRUE],
         z \in 0..2, NEW b \in Nat, z = 2 => b > 3
  PROVE  Convert(c, b) = [out |-> Append(o, b), zeros |-> IF b = 0 THEN z + 1 ELSE 0, escape |-> FALSE,
           ok |-> TRUE]
<1>1. c.out = o /\ c.zeros = z /\ c.escape = FALSE /\ c.ok = TRUE
  OBVIOUS
<1>2. Convert(c, b) = [out |-> Append(c.out, b), zeros |-> IF b = 0 THEN c.zeros + 1 ELSE 0, escape |-> FALSE,
        ok |-> c.ok /\ ~(c.escape /\ b > 3) /\ ~(c.zeros >= 2 /\ b < 3)]
  BY <1>1 DEF Convert
<1>3. (c.ok /\ ~(c.escape /\ b > 3) /\ ~(c.zeros >= 2 /\ b < 3)) = TRUE
  BY <1>1
<1> QED BY <1>1, <1>2, <1>3

(* A byte 3 after two zeros is dropped.                                     *)
LEMMA ConvertEscape ==
  ASSUME NEW c, NEW o, c = [out |-> o, zeros |-> 2, escape |-> FALSE, ok |-> TRUE]
  PROVE  Convert(c, 3) = [out |-> o, zeros |-> 0, escape |-> TRUE, ok |-> TRUE]
  BY DEF Convert

(* The byte it protects is taken over.                                      *)
LEMMA ConvertProtected ==
  ASSUME NEW c, NEW o, c = [out |-> o, zeros |-> 0, escape |-> TRUE, ok |-> TRUE], NEW b \in 0..3
  PROVE  Convert(c, b) = [out |-> Append(o, b), zeros |-> IF b = 0 THEN 1 ELSE 0, escape |-> FALSE, ok |-> TRUE]
<1>1. c.out = o /\ c.zeros = 0 /\ c.escape = TRUE /\ c.ok = TRUE
  OBVIOUS
<1>2. Convert(c, b) = [out |-> Append(c.out, b), zeros |-> IF b = 0 THEN c.zeros + 1 ELSE 0, escape |-> FALSE,
        ok |-> c.ok /\ ~(c.escape /\ b > 3) /\ ~(c.zeros >= 2 /\ b < 3)]
  BY <1>1 DEF Convert
<1>3. (c.ok /\ ~(c.escape /\ b > 3) /\ ~(c.zeros >= 2 /\ b < 3)) = TRUE
  BY <1>1
<1>4. (IF b = 0 THEN c.zeros + 1 ELSE 0) = (IF b = 0 THEN 1 ELSE 0)
  BY <1>1
<1> QED BY <1>1, <1>2, <1>3, <1>4

(* A unit begins with its header, which the decoder reads as it is.         *)
LEMMA StartedGood == ASSUME NEW t \in Types, StartUnit(t) PROVE UnitGood(unit')
<1>1. 8 * t + 1 \in Byte /\ t \in Nat /\ 0 \in Byte
  BY TypeBytes DEF Byte
<1> DEFINE x == 8 * t + 1
           b == <<0, x>>
           u == [type |-> t, rbsp |-> <<>>, bytes |-> b, zeros |-> 0, padded |-> FALSE]
<1>2. unit' = u
  BY DEF StartUnit, Header
<1>3. u \in UnitOver(Byte)
  <2>1. b \in Seq(Byte) /\ <<>> \in Seq(Byte)
    BY <1>1
  <2> DEFINE S == Seq(Byte)
  <2> HIDE DEF S, b
  <2> QED BY <2>1 DEF UnitOver, S
<1>4. ByteUnit(u)
  BY <1>3 DEF ByteUnit
<1>5. Converted(b) = [out |-> b, zeros |-> 0, escape |-> FALSE, ok |-> TRUE]
  <2> DEFINE e == <<>>
             a == <<0>>
             p == [out |-> a, zeros |-> 1, escape |-> FALSE, ok |-> TRUE]
  <2>1. e \in Seq(Nat) /\ a \in Seq(Nat) /\ a = Append(e, 0) /\ b = Append(a, x) /\ 0 \in Nat
          /\ x \in Nat /\ x # 0
    BY <1>1
  <2>2. Converted(e) = [out |-> e, zeros |-> 0, escape |-> FALSE, ok |-> TRUE]
    BY ConvertedStart DEF Empty
  <2> HIDE DEF e, a, b, x
  <2>3. Converted(a) = Convert(Converted(e), 0)
    BY <2>1, ConvertedAppend
  <2>4. Converted(a) = p
    <3> DEFINE z == 0
    <3>1. z \in 0..2 /\ z \in Nat /\ (z = 2 => z > 3)
      OBVIOUS
    <3>2. Convert(Converted(e), z) = [out |-> Append(e, z), zeros |-> IF z = 0 THEN z + 1 ELSE 0,
            escape |-> FALSE, ok |-> TRUE]
      <4>1. Converted(e) = [out |-> e, zeros |-> z, escape |-> FALSE, ok |-> TRUE]
        BY <2>2
      <4> HIDE DEF z
      <4> QED BY <3>1, <4>1, ConvertPlain
    <3>3. 0 + 1 = 1
      OBVIOUS
    <3> QED BY <2>1, <2>3, <3>2, <3>3
  <2>5. Converted(b) = Convert(Converted(a), x)
    BY <2>1, ConvertedAppend
  <2>6. Convert(Converted(a), x) = [out |-> Append(a, x), zeros |-> IF x = 0 THEN 1 + 1 ELSE 0,
          escape |-> FALSE, ok |-> TRUE]
    <3> DEFINE z == 1
    <3>1. z \in 0..2 /\ (z = 2 => x > 3) /\ z = 1
      OBVIOUS
    <3>2. Converted(a) = [out |-> a, zeros |-> z, escape |-> FALSE, ok |-> TRUE]
      BY <2>4
    <3> HIDE DEF z
    <3>3. Convert(Converted(a), x) = [out |-> Append(a, x), zeros |-> IF x = 0 THEN z + 1 ELSE 0,
            escape |-> FALSE, ok |-> TRUE]
      BY <2>1, <3>1, <3>2, ConvertPlain
    <3> QED BY <3>1, <3>3
  <2> QED BY <2>1, <2>5, <2>6
<1>6. Plain(t, <<>>) = b
  <2>1. <<0, 8 * t + 1>> \o <<>> = <<0, 8 * t + 1>>
    OBVIOUS
  <2> QED BY <2>1 DEF Plain, Header
<1>7. Converts(u)
  <2> HIDE DEF b
  <2> QED BY <1>5, <1>6 DEF Converts
<1> QED BY <1>2, <1>4, <1>7 DEF UnitGood

(* What one turn of the loop of writeNaluContent changes.                   *)
LEMMA EscapedFields ==
  ASSUME NEW u, u \in UnitOver(Byte), NEW v \in Byte, NEW w, w = Escaped(u, v)
  PROVE  /\ w.type = u.type /\ w.padded = u.padded
         /\ w.rbsp = Append(u.rbsp, v)
         /\ w.zeros = IF v # 0 THEN 0 ELSE IF Emulates(u, v) THEN 1 ELSE u.zeros + 1
         /\ w.bytes = IF Emulates(u, v) THEN Append(Append(u.bytes, 3), v) ELSE Append(u.bytes, v)
         /\ w \in UnitOver(Byte)
         /\ Len(w.bytes) >= Len(u.bytes) /\ (Len(u.bytes) >= 2 => w.bytes[2] = u.bytes[2])
<1> DEFINE b == u.bytes \o (IF Emulates(u, v) THEN <<3, v>> ELSE <<v>>)
           z == IF v # 0 THEN 0 ELSE IF Emulates(u, v) THEN 1 ELSE u.zeros + 1
           r == Append(u.rbsp, v)
<1>1. w = [u EXCEPT !.rbsp = r, !.bytes = b, !.zeros = z]
  BY Zenon DEF Escaped
<1>2. u.bytes \in Seq(Byte) /\ u.rbsp \in Seq(Byte) /\ v \in Byte /\ 3 \in Byte
  BY DEF UnitOver, Byte
<1>3. b = IF Emulates(u, v) THEN Append(Append(u.bytes, 3), v) ELSE Append(u.bytes, v)
  <2> DEFINE S == Byte
  <2>1. u.bytes \in Seq(S) /\ v \in S /\ 3 \in S
    BY <1>2
  <2> HIDE DEF S
  <2>2. u.bytes \o <<3, v>> = Append(Append(u.bytes, 3), v)
    BY <2>1
  <2>3. u.bytes \o <<v>> = Append(u.bytes, v)
    BY <2>1
  <2> QED BY <2>2, <2>3
<1>4. b \in Seq(Byte) /\ r \in Seq(Byte) /\ Len(b) >= Len(u.bytes) /\ (Len(u.bytes) >= 2 => b[2] = u.bytes[2])
  <2> DEFINE S == Byte
             a == Append(u.bytes, 3)
  <2>1. u.bytes \in Seq(S) /\ v \in S /\ 3 \in S /\ u.rbsp \in Seq(S)
    BY <1>2
  <2> HIDE DEF S
  <2>2. a \in Seq(S) /\ Len(a) = Len(u.bytes) + 1 /\ (Len(u.bytes) >= 2 => a[2] = u.bytes[2])
    BY <2>1
  <2> HIDE DEF a
  <2>3. /\ Append(a, v) \in Seq(S) /\ Len(Append(a, v)) = Len(a) + 1 /\ (Len(a) >= 2 => Append(a, v)[2] = a[2])
        /\ Append(u.bytes, v) \in Seq(S) /\ Len(Append(u.bytes, v)) = Len(u.bytes) + 1
        /\ (Len(u.bytes) >= 2 => Append(u.bytes, v)[2] = u.bytes[2])
    BY <2>1, <2>2
  <2>4. r \in Seq(S) /\ Len(u.bytes) \in Nat
    BY <2>1
  <2> HIDE DEF b, r
  <2> QED BY <1>3, <2>2, <2>3, <2>4 DEF a, S
<1>5. z \in 0..2
  <2>1. u.zeros \in 0..2 /\ v \in Nat
    BY DEF UnitOver, Byte
  <2>2. u.zeros = 2 /\ v = 0 => Emulates(u, v)
    BY DEF Emulates
  <2> QED BY <2>1, <2>2
<1> DEFINE S == Seq(Byte)
<1> HIDE DEF b, r, z, S
<1>6. u \in [type : Types, rbsp : S, bytes : S, zeros : 0..2, padded : BOOLEAN] /\ b \in S /\ r \in S
  BY <1>4 DEF UnitOver, S
<1>7. w \in [type : Types, rbsp : S, bytes : S, zeros : 0..2, padded : BOOLEAN]
  BY <1>1, <1>5, <1>6
<1>8. w.type = u.type /\ w.padded = u.padded /\ w.rbsp = r /\ w.zeros = z /\ w.bytes = b
  BY <1>1, <1>6
<1> QED BY <1>3, <1>4, <1>7, <1>8 DEF UnitOver, r, z, S, b

(* The decoder takes over the byte written and drops the one that protects  *)
(* it.                                                                      *)
LEMMA EscapedGood == ASSUME NEW u, NEW v \in Byte, UnitGood(u), ~u.padded PROVE UnitGood(Escaped(u, v))
<1> DEFINE w == Escaped(u, v)
<1>1. u \in UnitOver(Byte)
  BY DEF UnitGood, ByteUnit
<1>2. /\ w.type = u.type /\ w.padded = u.padded
      /\ w.rbsp = Append(u.rbsp, v)
      /\ w.zeros = IF v # 0 THEN 0 ELSE IF Emulates(u, v) THEN 1 ELSE u.zeros + 1
      /\ w.bytes = IF Emulates(u, v) THEN Append(Append(u.bytes, 3), v) ELSE Append(u.bytes, v)
      /\ w \in UnitOver(Byte)
      /\ Len(w.bytes) >= Len(u.bytes) /\ (Len(u.bytes) >= 2 => w.bytes[2] = u.bytes[2])
  BY <1>1, EscapedFields
<1> HIDE DEF w
<1>3. w.padded = FALSE /\ u.padded = FALSE
  BY <1>1, <1>2 DEF UnitOver
<1>4. ByteUnit(w)
  <2>1. Len(u.bytes) >= 2 /\ u.bytes[2] = 8 * u.type + 1
    BY DEF UnitGood, ByteUnit
  <2>2. Len(u.bytes) \in Nat /\ Len(w.bytes) \in Nat
    <3>1. u.bytes \in Seq(Byte) /\ w.bytes \in Seq(Byte)
      BY <1>1, <1>2 DEF UnitOver
    <3> QED BY <3>1
  <2> QED BY <1>2, <1>3, <2>1, <2>2 DEF ByteUnit
<1> DEFINE o == Plain(u.type, u.rbsp)
           z == u.zeros
           c == Converted(u.bytes)
<1>5. c = [out |-> o, zeros |-> z, escape |-> FALSE, ok |-> TRUE]
  BY <1>3 DEF UnitGood, Converts
<1>6. Plain(w.type, w.rbsp) = Append(o, v)
  <2> DEFINE S == Byte
  <2>1. u.rbsp \in Seq(S) /\ v \in S /\ 0 \in S /\ 8 * u.type + 1 \in S
    BY <1>1, TypeBytes DEF UnitOver, Byte
  <2> HIDE DEF S
  <2> QED BY <1>2, <2>1, PlainAppend
<1>7. u.bytes \in Seq(Nat) /\ v \in Nat /\ z \in 0..2 /\ v <= 255 /\ 3 \in Nat
  <2>1. u.bytes \in Seq(Byte) /\ Byte \subseteq Nat
    BY <1>1 DEF UnitOver, Byte
  <2>2. u.bytes \in Seq(Nat)
    <3> HIDE DEF w
    <3> QED BY <2>1, Widen
  <2>3. z \in 0..2 /\ v \in Nat /\ v <= 255
    BY <1>1 DEF UnitOver, Byte
  <2> QED BY <2>2, <2>3
<1> HIDE DEF o, c
<1>8. CASE Emulates(u, v)
  <2>1. z = 2 /\ v \in 0..3
    BY <1>7, <1>8 DEF Emulates
  <2> DEFINE three == Append(u.bytes, 3)
  <2>2. three \in Seq(Nat)
    BY <1>7
  <2>3. Converted(three) = Convert(c, 3)
    BY <1>7, ConvertedAppend DEF c
  <2> HIDE DEF three
  <2>4. Converted(Append(three, v)) = Convert(Converted(three), v)
    BY <1>7, <2>2, ConvertedAppend
  <2>5. Convert(c, 3) = [out |-> o, zeros |-> 0, escape |-> TRUE, ok |-> TRUE]
    BY <1>5, <2>1, ConvertEscape
  <2>6. Convert(Converted(three), v) = [out |-> Append(o, v), zeros |-> IF v = 0 THEN 1 ELSE 0,
          escape |-> FALSE, ok |-> TRUE]
    BY <2>1, <2>3, <2>5, ConvertProtected
  <2>7. w.zeros = IF v = 0 THEN 1 ELSE 0
    BY <1>2, <1>8
  <2>8. Converted(w.bytes) = [out |-> Append(o, v), zeros |-> w.zeros, escape |-> FALSE, ok |-> TRUE]
    BY <1>2, <1>8, <2>4, <2>6, <2>7 DEF three
  <2> QED BY <1>3, <1>4, <1>6, <2>8 DEF UnitGood, Converts, w
<1>9. CASE ~Emulates(u, v)
  <2>1. z = 2 => v > 3
    BY <1>7, <1>9 DEF Emulates
  <2>2. Converted(Append(u.bytes, v)) = Convert(c, v)
    BY <1>7, ConvertedAppend DEF c
  <2>3. w.zeros = IF v = 0 THEN z + 1 ELSE 0
    BY <1>2, <1>9
  <2> HIDE DEF z
  <2>4. Convert(c, v) = [out |-> Append(o, v), zeros |-> IF v = 0 THEN z + 1 ELSE 0, escape |-> FALSE,
          ok |-> TRUE]
    BY <1>5, <1>7, <2>1, ConvertPlain
  <2>5. Converted(w.bytes) = [out |-> Append(o, v), zeros |-> w.zeros, escape |-> FALSE, ok |-> TRUE]
    BY <1>2, <1>9, <2>2, <2>3, <2>4
  <2> QED BY <1>3, <1>4, <1>6, <2>5 DEF UnitGood, Converts, w
<1> QED BY <1>8, <1>9

(* It takes over the cabac_zero_words as two zeros.                         *)
LEMMA PaddedGood == ASSUME UnitGood(unit), UnitInv(unit), PadUnit PROVE UnitGood(unit')
<1>1. unit \in UnitOver(Byte) /\ Len(unit.bytes) >= 2 /\ unit.bytes[2] = 8 * unit.type + 1
  BY DEF UnitGood, ByteUnit
<1>2. unit.zeros = 0 /\ ~unit.padded /\ IsVcl(unit.type) /\ unit.rbsp # <<>> /\ Last(unit.rbsp) # 0
  BY DEF UnitInv, ZerosFromPayload, PadUnit
<1> DEFINE S == Byte
           a == Append(unit.bytes, 0)
           b == Append(a, 0)
           c == Append(b, 3)
           u == [unit EXCEPT !.bytes = c, !.padded = TRUE]
<1>3. unit.bytes \in Seq(S) /\ 0 \in S /\ 3 \in S
  BY <1>1 DEF UnitOver, Byte
<1>4. unit' = u
  <2>1. unit' = [unit EXCEPT !.bytes = unit.bytes \o <<0, 0, 3>>, !.padded = TRUE]
    BY <1>2 DEF PadUnit, Ended
  <2>2. unit.bytes \o <<0, 0, 3>> = c
    <3> HIDE DEF S
    <3> QED BY <1>3
  <2> QED BY <2>1, <2>2
<1>5. a \in Seq(S) /\ Len(a) = Len(unit.bytes) + 1 /\ a[2] = unit.bytes[2]
  <2> HIDE DEF S
  <2> QED BY <1>1, <1>3
<1> HIDE DEF a
<1>6. b \in Seq(S) /\ Len(b) = Len(a) + 1 /\ b[2] = a[2]
  <2> HIDE DEF S
  <2> QED BY <1>1, <1>3, <1>5
<1> HIDE DEF b
<1>7. c \in Seq(S) /\ Len(c) = Len(b) + 1 /\ c[2] = b[2]
  <2> HIDE DEF S
  <2> QED BY <1>1, <1>3, <1>5, <1>6
<1> HIDE DEF c
<1>8. u \in UnitOver(Byte) /\ u.bytes = c /\ u.zeros = 0 /\ u.rbsp = unit.rbsp /\ u.type = unit.type
        /\ u.padded = TRUE
  <2> DEFINE T == Seq(Byte)
  <2>1. c \in T /\ unit \in [type : Types, rbsp : T, bytes : T, zeros : 0..2, padded : BOOLEAN]
    BY <1>1, <1>7 DEF UnitOver
  <2> HIDE DEF T
  <2>2. u \in [type : Types, rbsp : T, bytes : T, zeros : 0..2, padded : BOOLEAN]
    BY <2>1
  <2> QED BY <1>2, <2>1, <2>2 DEF UnitOver, T
<1>9. ByteUnit(u)
  <2>1. Len(unit.bytes) \in Nat
    BY <1>3
  <2> HIDE DEF u
  <2>2. Len(c) >= 2 /\ c[2] = 8 * unit.type + 1
    BY <1>1, <1>5, <1>6, <1>7, <2>1
  <2> QED BY <1>2, <1>8, <2>2 DEF ByteUnit
<1> DEFINE o == Plain(unit.type, unit.rbsp)
           z == 0
           y == 1
           x == 3
<1>10. Converted(unit.bytes) = [out |-> o, zeros |-> z, escape |-> FALSE, ok |-> TRUE]
  <2>1. unit.padded = FALSE
    BY <1>1, <1>2 DEF UnitOver
  <2> QED BY <1>2, <2>1 DEF UnitGood, Converts
<1>11. /\ Converted(a) = Convert(Converted(unit.bytes), z)
       /\ Converted(b) = Convert(Converted(a), z)
       /\ Converted(c) = Convert(Converted(b), x)
  <2> HIDE DEF S
  <2> QED BY <1>3, <1>5, <1>6, ConvertedAppend DEF a, b, c
<1>12. Converted(a) = [out |-> Append(o, z), zeros |-> y, escape |-> FALSE, ok |-> TRUE]
  <2>1. z \in 0..2 /\ z \in Nat /\ (z = 2 => z > 3) /\ z + 1 = y
    OBVIOUS
  <2> HIDE DEF z, y, o
  <2>2. Convert(Converted(unit.bytes), z) = [out |-> Append(o, z), zeros |-> IF z = 0 THEN z + 1 ELSE 0,
          escape |-> FALSE, ok |-> TRUE]
    BY <1>10, <2>1, ConvertPlain
  <2> QED BY <1>11, <2>1, <2>2 DEF z
<1>13. Converted(b) = [out |-> Append(Append(o, z), z), zeros |-> 2, escape |-> FALSE, ok |-> TRUE]
  <2>1. y \in 0..2 /\ z \in Nat /\ (y = 2 => z > 3) /\ y + 1 = 2
    OBVIOUS
  <2> DEFINE p == Append(o, z)
  <2> HIDE DEF z, y, o, p
  <2>2. Convert(Converted(a), z) = [out |-> Append(p, z), zeros |-> IF z = 0 THEN y + 1 ELSE 0,
          escape |-> FALSE, ok |-> TRUE]
    BY <1>12, <2>1, ConvertPlain DEF p
  <2> QED BY <1>11, <2>1, <2>2 DEF z, p
<1>14. Converted(c) = [out |-> Append(Append(o, z), z), zeros |-> 0, escape |-> TRUE, ok |-> TRUE]
  BY <1>11, <1>13, ConvertEscape
<1>15. Converts(u)
  <2> HIDE DEF o, u
  <2> QED BY <1>8, <1>14 DEF Converts, o
<1> QED BY <1>4, <1>9, <1>15 DEF UnitGood

(* Two sequences, one behind the other.                                     *)
LEMMA Joined ==
  ASSUME NEW S, NEW a \in Seq(S), NEW b \in Seq(S)
  PROVE  /\ a \o b \in Seq(S) /\ Len(a \o b) = Len(a) + Len(b)
         /\ \A i \in 1..Len(a) : (a \o b)[i] = a[i]
         /\ \A i \in 1..Len(b) : (a \o b)[Len(a) + i] = b[i]
<1>1. a \o b \in Seq(S) /\ Len(a \o b) = Len(a) + Len(b)
  OBVIOUS
<1>2. \A i \in 1..Len(a) : (a \o b)[i] = a[i]
  OBVIOUS
<1>3. ASSUME NEW i \in 1..Len(b) PROVE (a \o b)[Len(a) + i] = b[i]
  <2>1. Len(a) \in Nat /\ Len(b) \in Nat
    OBVIOUS
  <2>2. Len(a) + i \in 1..(Len(a) + Len(b)) /\ ~(Len(a) + i <= Len(a)) /\ (Len(a) + i) - Len(a) = i
    BY <2>1
  <2> QED BY <2>2
<1> QED BY <1>1, <1>2, <1>3

(* The payload is what follows the header.                                  *)
LEMMA PlainFacts ==
  ASSUME NEW t, NEW S, NEW r \in Seq(S), 0 \in S, TypeByte(t) \in S
  PROVE  /\ Plain(t, r) \in Seq(S) /\ Len(Plain(t, r)) = Len(r) + 2
         /\ \A i \in 1..Len(r) : Plain(t, r)[i + 2] = r[i]
         /\ SubSeq(Plain(t, r), 3, Len(Plain(t, r))) = r
<1>h. PICK h : h = <<0, TypeByte(t)>>
  OBVIOUS
<1>1. h \in Seq(S)
  BY <1>h
<1>l. Len(h) = 2
  BY <1>h
<1>2. Plain(t, r) = h \o r
  BY <1>h DEF Plain, Header, TypeByte
<1>p. PICK p : p = h \o r
  OBVIOUS
<1>3. p \in Seq(S) /\ Len(p) = Len(r) + 2 /\ \A i \in 1..Len(r) : p[i + 2] = r[i]
  <2>1. /\ h \o r \in Seq(S) /\ Len(h \o r) = Len(h) + Len(r)
        /\ \A i \in 1..Len(r) : (h \o r)[Len(h) + i] = r[i]
    BY <1>1, Joined
  <2>2. Len(r) \in Nat /\ \A i \in 1..Len(r) : Len(h) + i = i + 2
    BY <1>l
  <2> QED BY <1>p, <1>l, <2>1, <2>2
<1>4. SubSeq(p, 3, Len(p)) = r
  <2>1. SubSeq(p, 3, Len(p)) \in Seq(S) /\ Len(SubSeq(p, 3, Len(p))) = Len(r)
    BY <1>3
  <2>2. \A i \in 1..Len(r) : SubSeq(p, 3, Len(p))[i] = r[i]
    BY <1>3
  <2> QED BY <2>1, <2>2
<1> QED BY <1>2, <1>3, <1>4, <1>p

(* Zeros behind the last byte that is not zero do not count.                *)
LEMMA LastNonZeroAt ==
  ASSUME NEW S, NEW s \in Seq(S), NEW n \in 1..Len(s), s[n] # 0, \A i \in (n + 1)..Len(s) : s[i] = 0
  PROVE  LastNonZero(s) = n
<1> DEFINE at == {i \in DOMAIN s : s[i] # 0}
<1>1. n \in at /\ \A i \in at : i \in 1..Len(s) /\ i <= n
  OBVIOUS
<1>2. at # {} /\ at \subseteq Int
  BY <1>1
<1> HIDE DEF at
<1>3. Max(at) = n
  <2>1. Max(at) \in at /\ \A y \in at : Max(at) >= y
    <3>1. \E x \in at : \A y \in at : x >= y
      BY <1>1
    <3> QED BY <3>1 DEF Max
  <2> DEFINE m == Max(at)
  <2>2. m \in Int /\ m <= n /\ m >= n
    <3>1. m \in 1..Len(s) /\ m <= n /\ m >= n
      BY Zenon, <1>1, <2>1
    <3> QED BY <3>1
  <2> HIDE DEF m
  <2>3. m = n
    BY <2>2
  <2> QED BY <2>3 DEF m
<1> QED BY <1>2, <1>3 DEF LastNonZero, at

(* The decoder gets the type and the payload back from the bytes of a unit  *)
LEMMA UnitRead ==
  ASSUME NEW u, UnitGood(u), u.zeros = 0, u.rbsp # <<>>, Last(u.rbsp) # 0
  PROVE  ReadUnit(u.bytes) = [ok |-> TRUE, unit |-> [type |-> u.type, rbsp |-> u.rbsp]]
<1>1. u \in UnitOver(Byte) /\ u.bytes[2] = 8 * u.type + 1 /\ (u.padded => IsVcl(u.type))
  BY DEF UnitGood, ByteUnit
<1> DEFINE c == Converted(u.bytes)
           o == Plain(u.type, u.rbsp)
           n == Len(o)
           S == Byte
           type == u.bytes[2] \div 8
           kept == IF IsVcl(type) THEN SubSeq(c.out, 1, LastNonZero(c.out)) ELSE c.out
<1>2. ReadUnit(u.bytes) = [ok |-> c.ok /\ c.zeros = 0,
        unit |-> [type |-> type, rbsp |-> SubSeq(kept, 3, Len(kept))]]
  BY Zenon DEF ReadUnit
<1>3. type = u.type
  BY <1>1, TypeBytes DEF UnitOver
<1>4. u.rbsp \in Seq(S) /\ 0 \in S /\ TypeByte(u.type) \in S
  BY <1>1, TypeBytes DEF UnitOver, Byte, TypeByte
<1> HIDE DEF S
<1>5. o \in Seq(S) /\ Len(o) = Len(u.rbsp) + 2 /\ (\A i \in 1..Len(u.rbsp) : o[i + 2] = u.rbsp[i])
        /\ SubSeq(o, 3, Len(o)) = u.rbsp
  BY <1>4, PlainFacts
<1>6. Len(u.rbsp) \in Nat \ {0} /\ u.rbsp[Len(u.rbsp)] # 0
  <2>1. Len(u.rbsp) \in Nat \ {0}
    BY <1>4
  <2> QED BY <2>1 DEF Last
<1> HIDE DEF o
<1>7. n \in Nat \ {0} /\ o[n] # 0
  <2>1. Len(u.rbsp) \in 1..Len(u.rbsp)
    BY <1>6
  <2> QED BY <1>5, <1>6, <2>1
<1>8. c.ok = TRUE /\ c.zeros = 0 /\ c.out = (IF u.padded THEN Append(Append(o, 0), 0) ELSE o)
  BY DEF UnitGood, Converts, o
<1>9. kept = o
  <2>1. CASE u.padded
    <3> DEFINE a == Append(o, 0)
               b == Append(a, 0)
    <3>1. a \in Seq(S) /\ Len(a) = n + 1 /\ a[n + 1] = 0 /\ \A i \in 1..n : a[i] = o[i]
      BY <1>4, <1>5, <1>7
    <3> HIDE DEF a, n
    <3>2. b \in Seq(S) /\ Len(b) = n + 2 /\ b[n + 2] = 0 /\ \A i \in 1..(n + 1) : b[i] = a[i]
      BY <1>4, <1>7, <3>1
    <3> HIDE DEF b
    <3>3. n \in 1..Len(b) /\ b[n] # 0 /\ \A i \in (n + 1)..Len(b) : b[i] = 0
      <4>1. n \in 1..(n + 1) /\ n \in 1..n /\ n + 1 \in 1..(n + 1)
        BY <1>7
      <4>2. b[n] # 0 /\ b[n + 1] = 0 /\ b[n + 2] = 0
        BY <1>7, <3>1, <3>2, <4>1
      <4>3. \A i \in (n + 1)..(n + 2) : i = n + 1 \/ i = n + 2
        BY <1>7
      <4> QED BY <1>7, <3>2, <4>2, <4>3
    <3>4. LastNonZero(b) = n
      BY <3>2, <3>3, LastNonZeroAt
    <3>5. SubSeq(b, 1, n) = o
      <4>1. SubSeq(b, 1, n) \in Seq(S) /\ Len(SubSeq(b, 1, n)) = n /\ Len(o) = n
        BY <1>5, <1>7, <3>2 DEF n
      <4>2. \A i \in 1..n : SubSeq(b, 1, n)[i] = o[i]
        <5>1. \A i \in 1..n : i \in 1..(n + 1)
          BY <1>7
        <5>2. \A i \in 1..n : b[i] = o[i]
          BY <3>1, <3>2, <5>1
        <5> QED BY <1>7, <3>2, <5>2
      <4> QED BY <1>5, <4>1, <4>2
    <3> QED BY <1>1, <1>3, <1>8, <2>1, <3>4, <3>5 DEF a, b
  <2>2. CASE ~u.padded
    <3>1. n \in 1..Len(o) /\ \A i \in (n + 1)..Len(o) : o[i] = 0
      BY <1>7
    <3>2. LastNonZero(o) = n
      BY <1>5, <1>7, <3>1, LastNonZeroAt
    <3>3. SubSeq(o, 1, n) = o
      BY <1>5, <1>7
    <3> QED BY <1>8, <2>2, <3>2, <3>3
  <2> QED BY <2>1, <2>2
<1> HIDE DEF c, kept, type
<1> QED BY <1>2, <1>3, <1>5, <1>8, <1>9

(***************************************************************************)
(* The byte stream                                                         *)
(***************************************************************************)

(* The bytes between start codes that the decoder takes for unit u          *)
IsBody(b, u) ==
  /\ IsBytes(b) /\ Len(b) >= 2 /\ Unbroken(b) /\ b[Len(b)] # 0
  /\ ReadUnit(b) = [ok |-> TRUE, unit |-> u]

(* A unit that is complete is one the decoder reads.                        *)
LEMMA EndedBody ==
  ASSUME NEW u, UnitGood(u), UnitInv(u), u.rbsp # <<>>, Last(u.rbsp) # 0
  PROVE  IsBody(Ended(u), [type |-> u.type, rbsp |-> u.rbsp])
<1>1. u.zeros = 0
  BY DEF UnitInv, ZerosFromPayload
<1>2. Ended(u) = u.bytes
  BY <1>1 DEF Ended
<1>3. IsBytes(u.bytes)
  BY DEF UnitGood, ByteUnit, UnitOver, IsBytes, AByte, Byte
<1>4. Len(u.bytes) >= 2 /\ Unbroken(u.bytes) /\ u.bytes[Len(u.bytes)] # 0
  BY <1>1 DEF UnitInv, CountsZeros
<1>5. ReadUnit(u.bytes) = [ok |-> TRUE, unit |-> [type |-> u.type, rbsp |-> u.rbsp]]
  BY <1>1, UnitRead
<1> QED BY <1>2, <1>3, <1>4, <1>5 DEF IsBody

(* From p to before e the file holds a start code of k bytes and a body     *)
Holds(f, p, e, k, b) ==
  /\ p \in Nat \ {0} /\ k \in {3, 4}
  /\ e = p + k + Len(b) /\ e <= Len(f) + 1
  /\ f[p] = 0 /\ f[p + 1] = 0 /\ (k = 4 => f[p + 2] = 0) /\ f[p + k - 1] = 1
  /\ \A i \in 1..Len(b) : f[p + k - 1 + i] = b[i]

Piece(f, p, e, u) == \E k, b : IsBody(b, u) /\ Holds(f, p, e, k, b)

(* A least element is the minimum.                                          *)
LEMMA MinIs ==
  ASSUME NEW at, NEW m, m \in at, m \in Int, \A j \in at : j \in Int /\ m <= j
  PROVE  Min(at) = m
<1>1. \E x \in at : \A y \in at : x =< y
  OBVIOUS
<1>2. Min(at) \in at /\ \A y \in at : Min(at) =< y
  BY <1>1 DEF Min
<1> DEFINE n == Min(at)
<1>3. n \in Int /\ n <= m /\ m <= n
  <2>1. n \in at /\ n <= m
    BY <1>2
  <2> HIDE DEF n
  <2> QED BY <2>1
<1> HIDE DEF n
<1>4. n = m
  BY <1>3
<1> QED BY <1>4 DEF n

(* The elements of an excerpt.                                              *)
LEMMA Excerpt ==
  ASSUME NEW S, NEW f \in Seq(S), NEW p \in Nat \ {0}, NEW q, q \in p..Len(f)
  PROVE  \A i \in 1..(q - p + 1) : SubSeq(f, p, q)[i] = f[p + i - 1]
  OBVIOUS

(* Looking at three or four bytes of the file.                              *)
LEMMA PeekFacts ==
  ASSUME NEW S, NEW f \in Seq(S), NEW p \in Nat \ {0}
  PROVE  /\ p + 2 <= Len(f) => Peek(f, p, 3) = <<f[p], f[p + 1], f[p + 2]>>
         /\ p + 3 <= Len(f) => Peek(f, p, 4) = <<f[p], f[p + 1], f[p + 2], f[p + 3]>>
<1>1. Len(f) \in Nat
  OBVIOUS
<1>2. ASSUME p + 2 <= Len(f) PROVE Peek(f, p, 3) = <<f[p], f[p + 1], f[p + 2]>>
  <2>1. p + 3 - 1 = p + 2
    OBVIOUS
  <2> DEFINE x == p + 2
             at == {x, Len(f)}
  <2>2. x \in at /\ x \in Int /\ \A j \in at : j \in Int /\ x <= j
    BY <1>1, <1>2
  <2> HIDE DEF at
  <2>3. Min(at) = x
    <3> HIDE DEF x
    <3> QED BY <2>2, MinIs
  <2>4. Peek(f, p, 3) = SubSeq(f, p, p + 2)
    BY <2>1, <2>3 DEF Peek, at
  <2>5. SubSeq(f, p, p + 2) = <<f[p], f[p + 1], f[p + 2]>>
    <3>1. PICK s : s = SubSeq(f, p, p + 2)
      OBVIOUS
    <3>2. PICK t : t = <<f[p], f[p + 1], f[p + 2]>>
      OBVIOUS
    <3>3. s \in Seq(S) /\ Len(s) = 3
      BY <1>1, <1>2, <3>1
    <3>4. s[1] = f[p] /\ s[2] = f[p + 1] /\ s[3] = f[p + 2]
      <4>0. PICK q : q = p + 2
        OBVIOUS
      <4>1. \A i \in 1..3 : s[i] = f[p + i - 1]
        <5>1. q \in p..Len(f) /\ q - p + 1 = 3 /\ s = SubSeq(f, p, q)
          BY <1>1, <1>2, <3>1, <4>0
        <5> QED BY <5>1, Excerpt
      <4>2. /\ p + 1 - 1 = p
            /\ p + 2 - 1 = p + 1
            /\ p + 3 - 1 = p + 2
        OBVIOUS
      <4> QED BY <4>1, <4>2
    <3>5. t[1] = f[p] /\ t[2] = f[p + 1] /\ t[3] = f[p + 2]
      BY <3>2
    <3>6. t \in Seq(S) /\ Len(t) = 3
      <4>1. f[p] \in S /\ f[p + 1] \in S /\ f[p + 2] \in S
        BY <1>1, <1>2
      <4> QED BY <3>2, <4>1
    <3>7. \A i \in 1..3 : i = 1 \/ i = 2 \/ i = 3
      OBVIOUS
    <3>8. \A i \in 1..3 : s[i] = t[i]
      BY <3>4, <3>5, <3>7
    <3>9. s = t
      BY <3>3, <3>6, <3>8
    <3> QED BY <3>1, <3>2, <3>9
  <2> QED BY <2>4, <2>5
<1>3. ASSUME p + 3 <= Len(f) PROVE Peek(f, p, 4) = <<f[p], f[p + 1], f[p + 2], f[p + 3]>>
  <2>1. p + 4 - 1 = p + 3
    OBVIOUS
  <2> DEFINE x == p + 3
             at == {x, Len(f)}
  <2>2. x \in at /\ x \in Int /\ \A j \in at : j \in Int /\ x <= j
    BY <1>1, <1>3
  <2> HIDE DEF at
  <2>3. Min(at) = x
    <3> HIDE DEF x
    <3> QED BY <2>2, MinIs
  <2>4. Peek(f, p, 4) = SubSeq(f, p, p + 3)
    BY <2>1, <2>3 DEF Peek, at
  <2>5. SubSeq(f, p, p + 3) = <<f[p], f[p + 1], f[p + 2], f[p + 3]>>
    <3>1. PICK s : s = SubSeq(f, p, p + 3)
      OBVIOUS
    <3>2. PICK t : t = <<f[p], f[p + 1], f[p + 2], f[p + 3]>>
      OBVIOUS
    <3>3. s \in Seq(S) /\ Len(s) = 4
      BY <1>1, <1>3, <3>1
    <3>4. s[1] = f[p] /\ s[2] = f[p + 1] /\ s[3] = f[p + 2] /\ s[4] = f[p + 3]
      <4>0. PICK q : q = p + 3
        OBVIOUS
      <4>1. \A i \in 1..4 : s[i] = f[p + i - 1]
        <5>1. q \in p..Len(f) /\ q - p + 1 = 4 /\ s = SubSeq(f, p, q)
          BY <1>1, <1>3, <3>1, <4>0
        <5> QED BY <5>1, Excerpt
      <4>2. /\ p + 1 - 1 = p
            /\ p + 2 - 1 = p + 1
            /\ p + 3 - 1 = p + 2
            /\ p + 4 - 1 = p + 3
        OBVIOUS
      <4> QED BY <4>1, <4>2
    <3>5. t[1] = f[p] /\ t[2] = f[p + 1] /\ t[3] = f[p + 2] /\ t[4] = f[p + 3]
      BY <3>2
    <3>6. t \in Seq(S) /\ Len(t) = 4
      <4>1. f[p] \in S /\ f[p + 1] \in S /\ f[p + 2] \in S /\ f[p + 3] \in S
        BY <1>1, <1>3
      <4> QED BY <3>2, <4>1
    <3>7. \A i \in 1..4 : i = 1 \/ i = 2 \/ i = 3 \/ i = 4
      OBVIOUS
    <3>8. \A i \in 1..4 : s[i] = t[i]
      BY <3>4, <3>5, <3>7
    <3>9. s = t
      BY <3>3, <3>6, <3>8
    <3> QED BY <3>1, <3>2, <3>9
  <2> QED BY <2>4, <2>5
<1> QED BY <1>2, <1>3

(* The length of a unit.                                                    *)
LEMMA BodyNumbers == ASSUME NEW b, NEW u, IsBody(b, u) PROVE Len(b) \in Nat /\ Len(b) >= 2
<1>1. b \in Seq(AByte) /\ Len(b) >= 2
  BY DEF IsBody, IsBytes
<1> QED BY <1>1

(* A piece begins with a start code, and the parser takes it for the end of *)
(* the unit before                                                          *)
LEMMA PieceStarts ==
  ASSUME NEW S, NEW f \in Seq(S), NEW p, NEW e, NEW k, NEW b, NEW u, IsBody(b, u), Holds(f, p, e, k, b)
  PROVE  /\ StartsAt(f, p) /\ EndsAt(f, p) /\ (Peek(f, p, 3) = <<0, 0, 1>> <=> k = 3)
         /\ p \in 1..Len(f)
<1>1. Len(f) \in Nat /\ Len(b) \in Nat /\ Len(b) >= 2
  BY BodyNumbers
<1>2. /\ p \in Nat \ {0} /\ k \in {3, 4} /\ p + k + Len(b) <= Len(f) + 1
      /\ f[p] = 0 /\ f[p + 1] = 0 /\ (k = 4 => f[p + 2] = 0) /\ f[p + k - 1] = 1
  BY DEF Holds
<1>3. p + 3 <= Len(f) /\ p + 2 <= Len(f) /\ p \in 1..Len(f)
  BY <1>1, <1>2
<1>4. Peek(f, p, 3) = <<f[p], f[p + 1], f[p + 2]>> /\ Peek(f, p, 4) = <<f[p], f[p + 1], f[p + 2], f[p + 3]>>
  BY <1>2, <1>3, PeekFacts
<1>5. CASE k = 3
  <2>1. f[p + 2] = 1
    <3>1. p + k - 1 = p + 2
      BY <1>2, <1>5
    <3> QED BY <1>2, <3>1
  <2> QED BY <1>2, <1>3, <1>4, <1>5, <2>1 DEF StartsAt, EndsAt
<1>6. CASE k = 4
  <2>1. f[p + 2] = 0 /\ f[p + 3] = 1
    <3>1. p + k - 1 = p + 3
      BY <1>2, <1>6
    <3> QED BY <1>2, <1>6, <3>1
  <2>2. <<0, 0, 0>> # <<0, 0, 1>>
    OBVIOUS
  <2> QED BY <1>2, <1>3, <1>4, <1>6, <2>1, <2>2 DEF StartsAt, EndsAt
<1> QED BY <1>2, <1>5, <1>6

FirstIn(at, l) == IF at = {} THEN l + 1 ELSE Min(at)

(* The first position is the least one.                                     *)
LEMMA FirstInIs ==
  ASSUME NEW at, NEW l, NEW m, m \in at, m \in Int, \A j \in at : j \in Int /\ m <= j
  PROVE  FirstIn(at, l) = m
  BY MinIs DEF FirstIn

(* No end of a unit before the next piece                                   *)
LEMMA NoEndInside ==
  ASSUME NEW f, IsBytes(f), NEW p, NEW e, NEW k, NEW b, NEW u, IsBody(b, u), Holds(f, p, e, k, b),
         NEW j, j \in (p + k)..(e - 1)
  PROVE  ~EndsAt(f, j)
<1>1. Len(f) \in Nat /\ Len(b) \in Nat /\ Len(b) >= 2
  BY BodyNumbers, BytesAreNumbers DEF IsBytes
<1>2. /\ p \in Nat \ {0} /\ k \in {3, 4} /\ e = p + k + Len(b) /\ e <= Len(f) + 1
      /\ \A i \in 1..Len(b) : f[p + k - 1 + i] = b[i]
  BY DEF Holds
<1>3. Unbroken(b) /\ b[Len(b)] # 0
  BY DEF IsBody
<1> DEFINE i == j - (p + k - 1)
<1>4. i \in 1..Len(b) /\ p + k - 1 + i = j /\ j \in Int
  <2>1. p + k \in Nat /\ e = (p + k) + Len(b) /\ p + k - 1 = (p + k) - 1
    BY <1>1, <1>2
  <2> DEFINE x == p + k
  <2> HIDE DEF x
  <2> QED BY <1>1, <2>1 DEF x
<1>5. f[j] = b[i]
  BY <1>2, <1>4
<1> HIDE DEF i
<1>6. CASE i = Len(b)
  BY <1>3, <1>5, <1>6 DEF EndsAt
<1>7. CASE i = Len(b) - 1
  <2>1. f[j + 1] = b[Len(b)]
    <3>1. Len(b) \in 1..Len(b) /\ p + k - 1 + Len(b) = j + 1
      BY <1>1, <1>2, <1>4, <1>7
    <3> QED BY <1>2, <3>1
  <2> QED BY <1>3, <2>1 DEF EndsAt
<1>8. CASE i <= Len(b) - 2
  <2>1. /\ i + 1 \in 1..Len(b) /\ i + 2 \in 1..Len(b) /\ i \in 1..(Len(b) - 2)
        /\ p + k - 1 + (i + 1) = j + 1 /\ p + k - 1 + (i + 2) = j + 2
    BY <1>1, <1>2, <1>4, <1>8
  <2>2. f[j + 1] = b[i + 1] /\ f[j + 2] = b[i + 2]
    <3>1. f[p + k - 1 + (i + 1)] = b[i + 1] /\ f[p + k - 1 + (i + 2)] = b[i + 2]
      BY Zenon, <1>2, <2>1
    <3> QED BY Zenon, <2>1, <3>1
  <2>3. ~(b[i] = 0 /\ b[i + 1] = 0 /\ b[i + 2] \in 0..2)
    BY <1>3, <2>1 DEF Unbroken, Ends
  <2>4. b[i + 2] \in Nat
    <3>1. b \in Seq(AByte)
      BY DEF IsBody, IsBytes
    <3>2. b[i + 2] \in AByte
      BY <2>1, <3>1
    <3> QED BY <3>2 DEF AByte
  <2> QED BY <1>5, <2>2, <2>3, <2>4 DEF EndsAt
<1> QED BY <1>1, <1>4, <1>6, <1>7, <1>8

(* The bytes between the start code and the next piece are those of the     *)
(* unit.                                                                    *)
LEMMA BodyOfPiece ==
  ASSUME NEW f, IsBytes(f), NEW e, NEW k, NEW b, NEW u, IsBody(b, u), Holds(f, 1, e, k, b)
  PROVE  SubSeq(f, 1 + k, e - 1) = b
<1>1. f \in Seq(AByte) /\ b \in Seq(AByte)
  BY DEF IsBody, IsBytes
<1>2. Len(f) \in Nat /\ Len(b) \in Nat
  BY <1>1
<1>3. /\ k \in {3, 4} /\ e = 1 + k + Len(b) /\ e <= Len(f) + 1
      /\ \A i \in 1..Len(b) : f[1 + k - 1 + i] = b[i]
  BY DEF Holds
<1>4. e - 1 = k + Len(b) /\ k + Len(b) <= Len(f) /\ \A i \in 1..Len(b) : 1 + k - 1 + i = k + i
  BY <1>2, <1>3
<1>5. PICK s : s = SubSeq(f, 1 + k, k + Len(b))
  OBVIOUS
<1>6. s \in Seq(AByte) /\ Len(s) = Len(b) /\ \A i \in 1..Len(b) : s[i] = f[k + i]
  BY <1>1, <1>2, <1>3, <1>4, <1>5
<1>7. \A i \in 1..Len(b) : s[i] = b[i]
  BY <1>3, <1>4, <1>6
<1>8. s = b
  BY <1>1, <1>6, <1>7
<1> QED BY <1>4, <1>5, <1>8

(* The parser finds the first unit of the file                              *)
LEMMA FirstUnit ==
  ASSUME NEW f, IsBytes(f), NEW e, NEW k, NEW b, NEW u, IsBody(b, u), Holds(f, 1, e, k, b),
         e = Len(f) + 1 \/ \E e2, u2 : Piece(f, e, e2, u2)
  PROVE  NextUnit(f) = [bytes |-> b, rest |-> SubSeq(f, e, Len(f)), eof |-> e > Len(f)]
<1> DEFINE code == FirstFrom(f, 1, StartsAt)
           start == code + (IF Peek(f, code, 3) = <<0, 0, 1>> THEN 3 ELSE 4)
           end == FirstFrom(f, start, EndsAt)
           next == FirstFrom(f, end, StartsAt)
           eof == next > Len(f) \/ \E j \in (1..(code - 1)) \cup (end..(next - 1)) : f[j] # 0
<1>1. NextUnit(f) = [bytes |-> SubSeq(f, start, end - 1), rest |-> SubSeq(f, next, Len(f)), eof |-> eof]
  BY Zenon DEF NextUnit
<1>2. f \in Seq(AByte) /\ Len(f) \in Nat
  BY BytesAreNumbers DEF IsBytes
<1>3. k \in {3, 4} /\ e = 1 + k + Len(b) /\ e <= Len(f) + 1 /\ Len(b) \in Nat
  BY BodyNumbers DEF Holds
<1>4. e \in Nat /\ 1 + k \in 1..(e - 1) \cup {e} /\ 1 + k <= e
  BY <1>3
<1>5. StartsAt(f, 1) /\ (Peek(f, 1, 3) = <<0, 0, 1>> <=> k = 3) /\ 1 \in 1..Len(f)
  BY <1>2, PieceStarts
<1>6. e = Len(f) + 1 \/ (StartsAt(f, e) /\ EndsAt(f, e) /\ e \in 1..Len(f))
  <2>1. ASSUME NEW e2, NEW u2, Piece(f, e, e2, u2) PROVE StartsAt(f, e) /\ EndsAt(f, e) /\ e \in 1..Len(f)
    <3>1. PICK k2, b2 : IsBody(b2, u2) /\ Holds(f, e, e2, k2, b2)
      BY <2>1 DEF Piece
    <3> QED BY <1>2, <3>1, PieceStarts
  <2> QED BY <2>1
<1>7. code = 1
  <2> DEFINE at == {j \in 1..Len(f) : StartsAt(f, j)}
  <2>1. code = FirstIn(at, Len(f))
    BY Zenon DEF FirstFrom, FirstIn
  <2>2. 1 \in at /\ 1 \in Int /\ \A j \in at : j \in Int /\ 1 <= j
    BY <1>5
  <2> HIDE DEF at, code
  <2> DEFINE one == 1
  <2>3. one \in at /\ one \in Int /\ \A j \in at : j \in Int /\ one <= j
    BY <2>2
  <2> HIDE DEF one
  <2>4. FirstIn(at, Len(f)) = one
    BY <2>3, FirstInIs
  <2> QED BY <2>1, <2>4 DEF one
<1>8. start = 1 + k
  BY <1>3, <1>5, <1>7
<1> HIDE DEF code
<1>9. end = e
  <2> DEFINE at == {j \in (1 + k)..Len(f) : EndsAt(f, j)}
  <2>1. end = FirstIn(at, Len(f))
    <3>1. FirstFrom(f, start, EndsAt) = FirstIn({j \in start..Len(f) : EndsAt(f, j)}, Len(f))
      BY Zenon DEF FirstFrom, FirstIn
    <3> HIDE DEF start
    <3> QED BY <1>8, <3>1
  <2>2. \A j \in (1 + k)..(e - 1) : ~EndsAt(f, j)
    BY NoEndInside
  <2>3. \A j \in at : j \in Int /\ e <= j
    <3>1. \A j \in (1 + k)..Len(f) : j \in Int /\ (e <= j \/ j \in (1 + k)..(e - 1))
      BY <1>2, <1>3, <1>4
    <3> QED BY <2>2, <3>1
  <2>4. CASE e = Len(f) + 1
    <3>1. at = {}
      <4>1. \A j \in (1 + k)..Len(f) : ~(e <= j)
        BY <1>2, <1>3, <1>4, <2>4
      <4> QED BY <2>3, <4>1
    <3> HIDE DEF at, end
    <3> QED BY <2>1, <2>4, <3>1 DEF FirstIn
  <2>5. CASE EndsAt(f, e) /\ e \in 1..Len(f)
    <3>1. e \in at /\ e \in Int
      BY <1>2, <1>3, <1>4, <2>5
    <3> HIDE DEF at, end
    <3> QED BY <2>1, <2>3, <3>1, FirstInIs
  <2> QED BY <1>6, <2>4, <2>5
<1> HIDE DEF start
<1>10. next = e
  <2> DEFINE at == {j \in e..Len(f) : StartsAt(f, j)}
  <2>1. next = FirstIn(at, Len(f))
    <3>1. FirstFrom(f, end, StartsAt) = FirstIn({j \in end..Len(f) : StartsAt(f, j)}, Len(f))
      BY Zenon DEF FirstFrom, FirstIn
    <3> HIDE DEF end
    <3> QED BY <1>9, <3>1
  <2>2. \A j \in at : j \in Int /\ e <= j
    BY <1>2, <1>4
  <2>3. CASE e = Len(f) + 1
    <3>1. at = {}
      <4>1. \A j \in e..Len(f) : FALSE
        BY <1>2, <1>4, <2>3
      <4> QED BY <4>1
    <3> HIDE DEF at, next
    <3> QED BY <2>1, <2>3, <3>1 DEF FirstIn
  <2>4. CASE StartsAt(f, e) /\ e \in 1..Len(f)
    <3>1. e \in at /\ e \in Int
      BY <1>2, <1>4, <2>4
    <3> HIDE DEF at, next
    <3> QED BY <2>1, <2>2, <3>1, FirstInIs
  <2> QED BY <1>6, <2>3, <2>4
<1> HIDE DEF end, next
<1>11. eof = (e > Len(f))
  <2>1. ~\E j \in (1..(code - 1)) \cup (end..(next - 1)) : f[j] # 0
    <3>1. \A j \in 1..(1 - 1) : FALSE
      OBVIOUS
    <3>2. \A j \in e..(e - 1) : FALSE
      BY <1>4
    <3> QED BY <1>7, <1>9, <1>10, <3>1, <3>2
  <2> QED BY <1>10, <2>1
<1>12. SubSeq(f, start, end - 1) = b
  BY <1>8, <1>9, BodyOfPiece
<1> HIDE DEF eof
<1> QED BY <1>1, <1>10, <1>11, <1>12

(* g holds, s bytes later, what f holds from p to before e                  *)
Copied(f, g, p, e, s) ==
  /\ s \in Int /\ p + s >= 1 /\ e + s <= Len(g) + 1
  /\ \A j \in p..(e - 1) : g[j + s] = f[j]

(* A piece stays one wherever it is copied.                                 *)
LEMMA PieceMoved ==
  ASSUME NEW f, NEW g, NEW p, NEW e, NEW u, Piece(f, p, e, u), NEW s, Copied(f, g, p, e, s)
  PROVE  Piece(g, p + s, e + s, u)
<1>1. PICK k, b : IsBody(b, u) /\ Holds(f, p, e, k, b)
  BY DEF Piece
<1>2. Len(b) \in Nat /\ Len(b) >= 2
  BY <1>1, BodyNumbers
<1>3. /\ p \in Nat \ {0} /\ k \in {3, 4}
      /\ e = p + k + Len(b)
      /\ f[p] = 0 /\ f[p + 1] = 0 /\ (k = 4 => f[p + 2] = 0) /\ f[p + k - 1] = 1
      /\ \A i \in 1..Len(b) : f[p + k - 1 + i] = b[i]
  BY <1>1 DEF Holds
<1>4. s \in Int /\ p + s >= 1 /\ e + s <= Len(g) + 1
  BY DEF Copied
<1>5. \A j \in p..(e - 1) : g[j + s] = f[j]
  BY DEF Copied
<1>6. p \in p..(e - 1) /\ p + 1 \in p..(e - 1) /\ p + 2 \in p..(e - 1) /\ p + k - 1 \in p..(e - 1)
  BY <1>2, <1>3
<1>7. g[p + s] = 0 /\ g[(p + 1) + s] = 0 /\ (k = 4 => g[(p + 2) + s] = 0) /\ g[(p + k - 1) + s] = 1
  BY Zenon, <1>3, <1>5, <1>6
<1>8. (p + 1) + s = (p + s) + 1 /\ (p + 2) + s = (p + s) + 2 /\ (p + k - 1) + s = (p + s) + k - 1
  BY <1>3, <1>4
<1>9. ASSUME NEW i \in 1..Len(b) PROVE g[(p + s) + k - 1 + i] = b[i]
  <2>1. p + k - 1 + i \in p..(e - 1) /\ (p + k - 1 + i) + s = (p + s) + k - 1 + i
    BY <1>2, <1>3, <1>4
  <2>2. g[(p + k - 1 + i) + s] = f[p + k - 1 + i]
    BY Zenon, <1>5, <2>1
  <2>3. f[p + k - 1 + i] = b[i]
    BY Zenon, <1>3
  <2> QED BY Zenon, <2>1, <2>2, <2>3
<1>10. p + s \in Nat \ {0} /\ e + s = (p + s) + k + Len(b)
  BY <1>2, <1>3, <1>4
<1>11. g[p + s] = 0 /\ g[(p + s) + 1] = 0 /\ (k = 4 => g[(p + s) + 2] = 0) /\ g[(p + s) + k - 1] = 1
  BY Zenon, <1>7, <1>8
<1>12. Holds(g, p + s, e + s, k, b)
  BY Zenon, <1>3, <1>4, <1>9, <1>10, <1>11 DEF Holds
<1> QED BY Zenon, <1>1, <1>12 DEF Piece

(* A piece has five bytes or more, and lies in the file.                    *)
LEMMA PieceNumbers ==
  ASSUME NEW f, NEW p, NEW e, NEW u, Piece(f, p, e, u)
  PROVE  p \in Nat \ {0} /\ e \in Nat /\ p + 5 <= e /\ e <= Len(f) + 1
<1>1. PICK k, b : IsBody(b, u) /\ Holds(f, p, e, k, b)
  BY DEF Piece
<1>2. Len(b) \in Nat /\ Len(b) >= 2
  BY <1>1, BodyNumbers
<1> QED BY <1>1, <1>2 DEF Holds

(* The file is the pieces of the units in the queue, one after another      *)
Cuts(f, q, at) ==
  /\ at[1] = 1 /\ at[Len(q) + 1] = Len(f) + 1
  /\ \A i \in 1..Len(q) : Piece(f, at[i], at[i + 1], q[i])

Framed(f, q) == \E at : Cuts(f, q, at)

(* An empty file has no units.                                              *)
LEMMA FramedEmpty == Framed(<<>>, <<>>)
<1> DEFINE at == [i \in {1} |-> 1]
<1>1. Cuts(<<>>, <<>>, at)
  BY DEF Cuts
<1> HIDE DEF at
<1> QED BY <1>1 DEF Framed

Extended(f, g, long, b) == g = f \o StartCode(long) \o b

(* A start code and a body at the end                                       *)
LEMMA AppendedPiece ==
  ASSUME NEW f, IsBytes(f), NEW b, NEW u, IsBody(b, u), NEW long, NEW g, Extended(f, g, long, b)
  PROVE  /\ IsBytes(g) /\ Len(g) >= Len(f) /\ Len(g) \in Nat
         /\ \A j \in 1..Len(f) : g[j] = f[j]
         /\ Piece(g, Len(f) + 1, Len(g) + 1, u)
<1>1. IsBytes(b)
  BY DEF IsBody
<1> DEFINE c == StartCode(long)
           k == IF long THEN 4 ELSE 3
<1>2. c \in Seq(AByte) /\ Len(c) = k /\ c[1] = 0 /\ c[2] = 0 /\ (k = 4 => c[3] = 0) /\ c[k] = 1
  <2>1. 0 \in AByte /\ 1 \in AByte
    BY DEF AByte
  <2> DEFINE S == AByte
  <2> HIDE DEF S
  <2>2. CASE long
    BY <2>1, <2>2 DEF StartCode, S
  <2>3. CASE ~long
    BY <2>1, <2>3 DEF StartCode, S
  <2> QED BY <2>2, <2>3
<1>3. k \in {3, 4}
  OBVIOUS
<1> HIDE DEF c, k
<1>4. PICK h : h = f \o c
  OBVIOUS
<1>5. h \in Seq(AByte) /\ g \in Seq(AByte) /\ Len(h) = Len(f) + Len(c) /\ Len(g) = Len(h) + Len(b)
      /\ Len(f) \in Nat /\ Len(b) \in Nat
  <2>1. f \in Seq(AByte) /\ b \in Seq(AByte) /\ c \in Seq(AByte)
    BY <1>1, <1>2 DEF IsBytes
  <2>2. h \in Seq(AByte) /\ Len(h) = Len(f) + Len(c)
    BY <1>4, <2>1, Joined
  <2>3. g = h \o b
    BY <1>4 DEF c, Extended
  <2>4. g \in Seq(AByte) /\ Len(g) = Len(h) + Len(b)
    BY <2>1, <2>2, <2>3, Joined
  <2> QED BY <2>1, <2>2, <2>4
<1>6. /\ \A i \in 1..Len(f) : h[i] = f[i]
      /\ \A i \in 1..Len(c) : h[Len(f) + i] = c[i]
      /\ \A i \in 1..Len(h) : g[i] = h[i]
      /\ \A i \in 1..Len(b) : g[Len(h) + i] = b[i]
  <2>1. f \in Seq(AByte) /\ b \in Seq(AByte) /\ c \in Seq(AByte) /\ h \in Seq(AByte) /\ g = h \o b
    BY <1>1, <1>2, <1>4, <1>5 DEF IsBytes, c, Extended
  <2>2. /\ \A i \in 1..Len(f) : h[i] = f[i]
        /\ \A i \in 1..Len(c) : h[Len(f) + i] = c[i]
    BY <1>4, <2>1, Joined
  <2>3. /\ \A i \in 1..Len(h) : g[i] = h[i]
        /\ \A i \in 1..Len(b) : g[Len(h) + i] = b[i]
    BY <2>1, Joined
  <2> QED BY <2>2, <2>3
<1> DEFINE p == Len(f) + 1
           e == Len(g) + 1
<1>7. Len(h) = Len(f) + k /\ Len(g) = Len(f) + k + Len(b) /\ p \in Nat \ {0} /\ e = p + k + Len(b)
  BY <1>2, <1>3, <1>5
<1>8. \A i \in 1..k : g[Len(f) + i] = c[i]
  <2>1. \A i \in 1..k : i \in 1..Len(c) /\ Len(f) + i \in 1..Len(h)
    BY <1>2, <1>3, <1>5, <1>7
  <2> QED BY Zenon, <1>6, <2>1
<1>9. g[p] = 0 /\ g[p + 1] = 0 /\ (k = 4 => g[p + 2] = 0) /\ g[p + k - 1] = 1
  <2>1. 1 \in 1..k /\ 2 \in 1..k /\ 3 \in 1..k /\ k \in 1..k
    BY <1>3
  <2>2. p = Len(f) + 1 /\ p + 1 = Len(f) + 2 /\ p + 2 = Len(f) + 3 /\ p + k - 1 = Len(f) + k
    BY <1>3, <1>5
  <2> HIDE DEF p
  <2>3. g[Len(f) + 1] = c[1] /\ g[Len(f) + 2] = c[2] /\ g[Len(f) + 3] = c[3] /\ g[Len(f) + k] = c[k]
    BY Zenon, <1>8, <2>1
  <2> QED BY Zenon, <1>2, <2>2, <2>3
<1>10. ASSUME NEW i \in 1..Len(b) PROVE g[p + k - 1 + i] = b[i]
  <2>1. p + k - 1 + i = Len(h) + i
    <3>1. Len(f) \in Nat /\ i \in Int /\ k \in Int
      BY <1>3, <1>5
    <3>2. Len(h) = Len(f) + k
      BY <1>7
    <3> QED BY <3>1, <3>2
  <2> HIDE DEF p
  <2> QED BY Zenon, <1>6, <2>1
<1>11. Len(f) <= Len(g) /\ e <= Len(g) + 1
  BY <1>3, <1>5, <1>7
<1>12. ASSUME NEW j \in 1..Len(f) PROVE g[j] = f[j]
  <2>1. j \in 1..Len(h)
    BY <1>3, <1>5, <1>7
  <2> QED BY Zenon, <1>6, <2>1
<1>13. Holds(g, p, e, k, b)
  <2> HIDE DEF p, e
  <2> QED BY Zenon, <1>3, <1>7, <1>9, <1>10, <1>11 DEF Holds
<1>14. Len(g) \in Nat /\ Len(g) >= Len(f)
  BY <1>3, <1>5, <1>7
<1>15. Piece(g, p, e, u)
  <2> HIDE DEF p, e
  <2> QED BY Zenon, <1>13 DEF Piece
<1> QED BY <1>5, <1>12, <1>14, <1>15 DEF IsBytes

(* A unit that is written comes behind those in the file.                   *)
LEMMA FramedAppend ==
  ASSUME NEW f, IsBytes(f), NEW Q, NEW q \in Seq(Q), NEW u \in Q, Framed(f, q),
         NEW b, IsBody(b, u), NEW long, NEW g, Extended(f, g, long, b)
  PROVE  IsBytes(g) /\ Framed(g, Append(q, u))
<1>1. /\ IsBytes(g) /\ Len(g) >= Len(f) /\ Len(g) \in Nat
      /\ \A j \in 1..Len(f) : g[j] = f[j]
      /\ Piece(g, Len(f) + 1, Len(g) + 1, u)
  BY AppendedPiece
<1>2. Len(f) \in Nat
  BY BytesAreNumbers DEF IsBytes
<1>3. PICK at : Cuts(f, q, at)
  BY DEF Framed
<1>4. PICK r : r = Append(q, u)
  OBVIOUS
<1> DEFINE n == Len(q)
<1>5. n \in Nat /\ Len(r) = n + 1 /\ r[n + 1] = u /\ \A i \in 1..n : r[i] = q[i]
  BY <1>4
<1>6. PICK w : w = [i \in 1..(n + 2) |-> IF i <= n + 1 THEN at[i] ELSE Len(g) + 1]
  OBVIOUS
<1> HIDE DEF n
<1>7. w[1] = 1 /\ w[n + 2] = Len(g) + 1 /\ w[n + 1] = Len(f) + 1
  <2>1. at[1] = 1 /\ at[n + 1] = Len(f) + 1
    BY <1>3 DEF Cuts, n
  <2> QED BY <1>5, <1>6, <2>1
<1>8. ASSUME NEW i \in 1..n PROVE Piece(g, w[i], w[i + 1], r[i])
  <2>1. Piece(f, at[i], at[i + 1], q[i])
    BY <1>3 DEF Cuts, n
  <2>2. w[i] = at[i] /\ w[i + 1] = at[i + 1] /\ r[i] = q[i]
    BY <1>5, <1>6
  <2> DEFINE p == at[i]
             e == at[i + 1]
             s == 0
  <2>3. p \in Nat \ {0} /\ e \in Nat /\ p + 5 <= e /\ e <= Len(f) + 1
    BY <2>1, PieceNumbers
  <2> HIDE DEF p, e
  <2>4. p + s = p /\ e + s = e /\ s \in Int
    BY <2>3
  <2>5. Copied(f, g, p, e, s)
    <3>1. \A j \in p..(e - 1) : j \in 1..Len(f) /\ j + s = j
      BY <1>2, <2>3
    <3>2. \A j \in p..(e - 1) : g[j + s] = f[j]
      BY <1>1, <3>1
    <3>3. p + s >= 1 /\ e + s <= Len(g) + 1
      BY <1>1, <1>2, <2>3
    <3> HIDE DEF s
    <3> QED BY <2>4, <3>2, <3>3 DEF Copied
  <2> HIDE DEF s
  <2>6. Piece(g, p + s, e + s, q[i])
    BY <2>1, <2>5, PieceMoved DEF p, e
  <2> QED BY Zenon, <2>2, <2>4, <2>6 DEF p, e
<1>9. Piece(g, w[n + 1], w[n + 2], r[n + 1])
  BY <1>1, <1>5, <1>7
<1>10. Cuts(g, r, w)
  <2>1. \A i \in 1..(n + 1) : i \in 1..n \/ i = n + 1
    BY <1>5
  <2>2. (n + 1) + 1 = n + 2
    BY <1>5
  <2>3. ASSUME NEW i \in 1..Len(r) PROVE Piece(g, w[i], w[i + 1], r[i])
    <3>1. i \in 1..n \/ i = n + 1
      BY <1>5, <2>1
    <3> QED BY Zenon, <1>8, <1>9, <2>2, <3>1
  <2>4. w[Len(r) + 1] = Len(g) + 1
    BY <1>5, <1>7, <2>2
  <2> QED BY <1>7, <2>3, <2>4 DEF Cuts
<1> QED BY <1>1, <1>4, <1>10 DEF Framed

(* One unit fewer is left.                                                  *)
LEMMA RestLength ==
  ASSUME NEW Q, NEW q \in Seq(Q), q # <<>>
  PROVE  Len(SubSeq(q, 2, Len(q))) = Len(q) - 1
<1> DEFINE n == Len(q)
<1>1. n \in Nat \ {0}
  OBVIOUS
<1>2. CASE n = 1
  BY <1>2
<1>3. CASE 2 <= n
  BY <1>3
<1>4. n = 1 \/ 2 <= n
  <2> HIDE DEF n
  <2> QED BY <1>1
<1> QED BY <1>2, <1>3, <1>4

(* The parser finds the first unit of the file, leaves the others, and      *)
(* reports the end of the file with the last one.                           *)
LEMMA FramedRest ==
  ASSUME NEW f, IsBytes(f), NEW Q, NEW q \in Seq(Q), q # <<>>, Framed(f, q)
  PROVE  \E b, g : /\ NextUnit(f) = [bytes |-> b, rest |-> g, eof |-> Len(q) = 1]
                   /\ IsBody(b, q[1]) /\ IsBytes(g) /\ Framed(g, SubSeq(q, 2, Len(q)))
<1>1. Len(f) \in Nat
  BY BytesAreNumbers DEF IsBytes
<1>2. PICK at : Cuts(f, q, at)
  BY DEF Framed
<1> DEFINE n == Len(q)
<1>3. n \in Nat \ {0}
  OBVIOUS
<1>4. PICK r : r = SubSeq(q, 2, Len(q))
  OBVIOUS
<1>5. Len(r) = n - 1 /\ \A i \in 1..(n - 1) : r[i] = q[i + 1]
  <2>1. Len(r) = n - 1
    <3>1. Len(SubSeq(q, 2, Len(q))) = Len(q) - 1
      BY RestLength
    <3> QED BY <1>4, <3>1
  <2>a. \A i \in 1..(n - 1) : r[i] = q[2 + i - 1]
    BY <1>3, <1>4
  <2>2. \A i \in 1..(n - 1) : 2 + i - 1 = i + 1
    BY <1>3
  <2> QED BY Zenon, <2>1, <2>2, <2>a
<1> HIDE DEF n
<1>6. at[1] = 1 /\ at[n + 1] = Len(f) + 1 /\ \A i \in 1..n : Piece(f, at[i], at[i + 1], q[i])
  BY <1>2 DEF Cuts, n
<1>7. PICK e : e = at[2]
  OBVIOUS
<1>8. Piece(f, 1, e, q[1])
  <2>1. 1 \in 1..n /\ 1 + 1 = 2
    BY <1>3
  <2> QED BY Zenon, <1>6, <1>7, <2>1
<1>9. PICK k, b : IsBody(b, q[1]) /\ Holds(f, 1, e, k, b)
  BY Zenon, <1>8 DEF Piece
<1>10. e \in Nat /\ 6 <= e /\ e <= Len(f) + 1
  BY <1>8, PieceNumbers
<1>11. CASE n = 1
  <2>1. e = Len(f) + 1
    <3>1. n + 1 = 2
      BY <1>11
    <3> QED BY <1>6, <1>7, <3>1
  <2>2. PICK g : g = SubSeq(f, e, Len(f))
    OBVIOUS
  <2>3. g = <<>>
    <3>1. f \in Seq(AByte)
      BY DEF IsBytes
    <3> QED BY <1>1, <2>1, <2>2, <3>1
  <2>4. r = <<>>
    BY <1>4, <1>11 DEF n
  <2>5. NextUnit(f) = [bytes |-> b, rest |-> g, eof |-> e > Len(f)]
    BY <1>9, <2>1, <2>2, FirstUnit
  <2>6. (e > Len(f)) = (Len(q) = 1)
    BY <1>1, <1>11, <2>1 DEF n
  <2>7. NextUnit(f) = [bytes |-> b, rest |-> g, eof |-> Len(q) = 1]
    BY <2>5, <2>6
  <2>8. IsBytes(g) /\ Framed(g, r)
    <3>1. <<>> \in Seq(AByte)
      OBVIOUS
    <3> QED BY <2>3, <2>4, <3>1, FramedEmpty DEF IsBytes
  <2> QED BY <1>4, <1>9, <2>7, <2>8
<1>12. CASE n # 1
  <2>1. n - 1 \in Nat \ {0} /\ 2 \in 1..n
    BY <1>3, <1>12
  <2>2. Piece(f, e, at[3], q[2])
    <3>1. 2 + 1 = 3
      OBVIOUS
    <3> QED BY Zenon, <1>6, <1>7, <2>1, <3>1
  <2>3. e < Len(f) /\ e \in 1..Len(f)
    <3>1. e + 5 <= at[3] /\ at[3] <= Len(f) + 1 /\ at[3] \in Nat
      BY <2>2, PieceNumbers
    <3> QED BY <1>1, <1>10, <3>1
  <2>4. PICK g : g = SubSeq(f, e, Len(f))
    OBVIOUS
  <2>5. NextUnit(f) = [bytes |-> b, rest |-> g, eof |-> e > Len(f)]
    BY <1>9, <2>2, <2>4, FirstUnit
  <2>6. (e > Len(f)) = (Len(q) = 1)
    BY <1>1, <1>12, <2>3 DEF n
  <2>7. NextUnit(f) = [bytes |-> b, rest |-> g, eof |-> Len(q) = 1]
    BY <2>5, <2>6
  <2>8. IsBytes(g) /\ Len(g) = Len(f) - e + 1 /\ \A i \in 1..Len(g) : g[i] = f[e + i - 1]
    <3>1. f \in Seq(AByte)
      BY DEF IsBytes
    <3> QED BY <1>1, <2>3, <2>4, <3>1 DEF IsBytes
  <2> DEFINE s == 1 - e
  <2>9. PICK w : w = [i \in 1..n |-> at[i + 1] + s]
    OBVIOUS
  <2>10. s \in Int /\ 1 = e + s /\ (Len(f) + 1) + s = Len(g) + 1
    <3>1. Len(g) = Len(f) - e + 1
      BY <2>8
    <3> QED BY <1>1, <1>10, <3>1
  <2>11. w[1] = 1 /\ w[n] = Len(g) + 1
    <3>1. w[1] = at[1 + 1] + s /\ w[n] = at[n + 1] + s
      <4>1. 1 \in 1..n /\ n \in 1..n
        BY <1>3
      <4> QED BY Zenon, <2>9, <4>1
    <3>2. 1 + 1 = 2
      OBVIOUS
    <3> HIDE DEF s
    <3> QED BY Zenon, <1>6, <1>7, <2>10, <3>1, <3>2
  <2>12. ASSUME NEW i \in 1..(n - 1) PROVE Piece(g, w[i], w[i + 1], r[i])
    <3>1. i + 1 \in 1..n /\ i \in 1..n
      BY <1>3
    <3> DEFINE a == at[i + 1]
               c == at[(i + 1) + 1]
    <3>2. Piece(f, a, c, q[i + 1])
      BY <1>6, <3>1
    <3>3. w[i] = a + s /\ w[i + 1] = c + s /\ r[i] = q[i + 1]
      BY Zenon, <1>5, <2>9, <3>1
    <3>4. a \in Nat \ {0} /\ c \in Nat /\ a + 5 <= c /\ c <= Len(f) + 1
      BY <3>2, PieceNumbers
    <3>5. e <= a
      <4> DEFINE S == {j \in 0..(n - 1) : at[j + 2] \in Nat /\ e <= at[j + 2]}
      <4>1. 0 \in S
        BY <1>7, <1>10, <2>1
      <4>2. ASSUME NEW j \in 0..((n - 1) - 1), j \in S PROVE j + 1 \in S
        <5>1. j + 2 \in 1..n /\ (j + 2) + 1 = (j + 1) + 2 /\ j + 1 \in 0..(n - 1)
          BY <1>3
        <5>2. Piece(f, at[j + 2], at[(j + 2) + 1], q[j + 2])
          BY <1>6, <5>1
        <5>3. at[j + 2] \in Nat /\ at[(j + 2) + 1] \in Nat /\ at[j + 2] + 5 <= at[(j + 2) + 1]
          BY <5>2, PieceNumbers
        <5>4. e <= at[j + 2]
          BY <4>2
        <5>5. e <= at[(j + 2) + 1]
          BY <1>10, <5>3, <5>4
        <5> QED BY <5>1, <5>3, <5>5
      <4> DEFINE m == n - 1
      <4>3. m \in Nat
        BY <2>1
      <4> HIDE DEF S
      <4>4. \A j \in 0..(m - 1) : j \in S => j + 1 \in S
        BY <4>2
      <4> HIDE DEF m
      <4>5. \A j \in 0..m : j \in S
        BY <4>1, <4>3, <4>4, UpTo DEF Reaches
      <4>6. i - 1 \in 0..m /\ (i - 1) + 2 = i + 1
        BY <2>1 DEF m
      <4>7. i - 1 \in S
        BY <4>5, <4>6
      <4> QED BY <4>6, <4>7 DEF S
    <3> HIDE DEF a, c
    <3>6. Copied(f, g, a, c, s)
      <4>1. a + s >= 1 /\ c + s <= Len(g) + 1
        <5>1. Len(g) = Len(f) - e + 1
          BY <2>8
        <5> QED BY <1>1, <1>10, <3>4, <3>5, <5>1
      <4>2. ASSUME NEW j \in a..(c - 1) PROVE g[j + s] = f[j]
        <5>1. j + s \in 1..Len(g) /\ e + (j + s) - 1 = j
          <6>1. Len(g) = Len(f) - e + 1
            BY <2>8
          <6> QED BY <1>1, <1>10, <3>4, <3>5, <6>1
        <5> HIDE DEF s
        <5>2. g[j + s] = f[e + (j + s) - 1]
          BY Zenon, <2>8, <5>1
        <5> QED BY Zenon, <5>1, <5>2
      <4> HIDE DEF s
      <4> QED BY <2>10, <4>1, <4>2 DEF Copied
    <3> HIDE DEF s
    <3>7. Piece(g, a + s, c + s, q[i + 1])
      BY <3>2, <3>6, PieceMoved
    <3> QED BY Zenon, <3>3, <3>7
  <2>13. Cuts(g, r, w)
    <3>1. Len(r) = n - 1 /\ (n - 1) + 1 = n
      BY <1>3, <1>5
    <3> QED BY <2>11, <2>12, <3>1 DEF Cuts
  <2> QED BY <1>4, <1>9, <2>7, <2>8, <2>13 DEF Framed
<1> QED BY <1>11, <1>12

(***************************************************************************)
(* The invariant of the stream                                             *)
(***************************************************************************)

Units == [type : Types, rbsp : Seq(Byte)]

WriterInv == unit # NoUnit => UnitInv(unit) /\ UnitGood(unit)

FileInv == IsBytes(file) /\ queue \in Seq(Units) /\ Framed(file, queue)

ReaderInv ==
  /\ closed \in BOOLEAN /\ reader \in {"reading", "ended"}
  /\ reader = "ended" => closed /\ queue = <<>>
  /\ closed /\ reader = "reading" => queue # <<>>
  /\ closed => unit = NoUnit

SliceInv ==
  /\ unit # NoUnit /\ IsVcl(unit.type) => data # <<>>
  /\ \A i \in 1..Len(queue) : IsVcl(queue[i].type) => data # <<>> /\ queue[i].rbsp = SlicePayload
  /\ SliceReceived => data # <<>> /\ received.rbsp = SlicePayload
  /\ verdict = "decoding" => SliceReceived

StreamInv == CoderInv /\ WriterInv /\ FileInv /\ ReaderInv /\ SliceInv

(* Nothing is written at the start.                                         *)
LEMMA StreamStarts == Init => StreamInv
<1> SUFFICES ASSUME CoderInit, NalInit PROVE StreamInv
  BY DEF Init
<1>1. unit = NoUnit /\ file = <<>> /\ closed = FALSE /\ queue = <<>> /\ received = NoUnit /\ reader = "reading"
      /\ verdict = "none"
  BY DEF NalInit, CoderInit
<1>2. CoderInv
  BY CoderStarts
<1>3. FileInv
  <2>1. <<>> \in Seq(AByte) /\ <<>> \in Seq(Units)
    OBVIOUS
  <2> QED BY <1>1, <2>1, FramedEmpty DEF FileInv, IsBytes
<1>4. SliceInv
  <2>1. Len(<<>>) = 0
    OBVIOUS
  <2>2. \A i \in 1..Len(queue) : FALSE
    BY <1>1, <2>1
  <2> QED BY <1>1, <2>2 DEF SliceInv, SliceReceived
<1> QED BY <1>1, <1>2, <1>3, <1>4 DEF StreamInv, WriterInv, ReaderInv

(* The payload of the slice, and the data it carries                        *)
LEMMA PayloadFacts ==
  ASSUME CoderInv
  PROVE  SlicePayload \in Seq(Byte)
<1>1. IsBytes(data)
  <2>1. CASE data = <<>>
    <3>1. <<>> \in Seq(AByte)
      OBVIOUS
    <3> QED BY <2>1, <3>1 DEF IsBytes
  <2>2. CASE data # <<>>
    <3>1. PICK tr : Traced(tr)
      BY DEF CoderInv
    <3> QED BY <2>2, <3>1, Finished
  <2> QED BY <2>1, <2>2
<1>2. data \in Seq(Byte) /\ SliceHeader \in Seq(Byte)
  BY <1>1, SliceAssumption DEF IsBytes, AByte, Byte
<1> QED BY <1>2, Joined DEF SlicePayload

(* Behind the slice header the decoder finds the data of the slice.         *)
LEMMA ReceivedIsData ==
  ASSUME CoderInv, SliceInv, SliceReceived
  PROVE  ReceivedData = data /\ data # <<>>
<1>1. data # <<>> /\ received.rbsp = SliceHeader \o data
  BY DEF SliceInv, SlicePayload
<1>2. IsBytes(data)
  <2>1. PICK tr : Traced(tr)
    BY DEF CoderInv
  <2> QED BY <1>1, <2>1, Finished
<1> DEFINE S == Byte
<1>3. data \in Seq(S) /\ SliceHeader \in Seq(S)
  BY <1>2, SliceAssumption DEF IsBytes, AByte, Byte
<1> HIDE DEF S
<1>4. PICK h : h = SliceHeader
  OBVIOUS
<1>5. PICK d : d = data
  OBVIOUS
<1>6. PICK p : p = h \o d
  OBVIOUS
<1>7. p \in Seq(S) /\ Len(p) = Len(h) + Len(d) /\ \A i \in 1..Len(d) : p[Len(h) + i] = d[i]
  BY <1>3, <1>4, <1>5, <1>6, Joined
<1>8. Len(h) \in Nat /\ Len(d) \in Nat /\ d \in Seq(S)
  BY <1>3, <1>4, <1>5
<1>9. PICK s : s = SubSeq(p, Len(h) + 1, Len(p))
  OBVIOUS
<1>10. s \in Seq(S) /\ Len(s) = Len(d)
  <2>1. Len(p) \in Nat
    BY <1>7
  <2> QED BY <1>7, <1>8, <1>9, <2>1
<1>11. \A i \in 1..Len(d) : s[i] = p[(Len(h) + 1) + i - 1]
  BY <1>7, <1>8, <1>9
<1>12. \A i \in 1..Len(d) : (Len(h) + 1) + i - 1 = Len(h) + i
  <2>1. Len(h) \in Nat /\ Len(d) \in Nat
    BY <1>8
  <2> QED BY <2>1
<1>13. \A i \in 1..Len(d) : s[i] = d[i]
  BY Zenon, <1>7, <1>11, <1>12
<1>14. s = d
  BY <1>8, <1>10, <1>13
<1>15. ReceivedData = s
  BY <1>1, <1>4, <1>5, <1>6, <1>9 DEF ReceivedData
<1> QED BY <1>1, <1>5, <1>14, <1>15

(***************************************************************************)
(* The steps of the encoder                                                *)
(***************************************************************************)

(* The coder does not touch the units.                                      *)
LEMMA NalKeeps ==
  ASSUME StreamInv, UNCHANGED nalVars
  PROVE  WriterInv' /\ FileInv' /\ ReaderInv'
<1>1. unit' = unit /\ file' = file /\ closed' = closed /\ queue' = queue /\ received' = received
        /\ reader' = reader
  BY DEF nalVars
<1> QED BY <1>1 DEF StreamInv, WriterInv, FileInv, ReaderInv

(* A symbol is coded.                                                       *)
LEMMA CodeSymbolKeeps == ASSUME StreamInv, CodeSymbol PROVE StreamInv'
<1>1. PICK s \in Symbols : Encode(s)
  BY DEF CodeSymbol
<1>2. CoderInv'
  BY <1>1, EncodeKeeps DEF StreamInv
<1>3. WriterInv' /\ FileInv' /\ ReaderInv'
  BY NalKeeps DEF CodeSymbol
<1>4. data' = data /\ verdict' = verdict /\ unit' = unit /\ queue' = queue /\ received' = received
  BY <1>1 DEF Encode, CodeSymbol, nalVars
<1>5. SliceInv'
  BY <1>4 DEF StreamInv, SliceInv, SliceReceived, SlicePayload
<1> QED BY <1>2, <1>3, <1>5 DEF StreamInv

(* The slice is finished; no unit could hold it before.                     *)
LEMMA CodeEndKeeps == ASSUME StreamInv, CodeEnd PROVE StreamInv'
<1>1. EndOfSlice /\ UNCHANGED nalVars
  BY DEF CodeEnd
<1>2. CoderInv'
  BY <1>1, EndOfSliceKeeps DEF StreamInv
<1>3. WriterInv' /\ FileInv' /\ ReaderInv'
  BY <1>1, NalKeeps
<1>4. data = <<>> /\ verdict' = verdict /\ unit' = unit /\ queue' = queue /\ received' = received
  BY <1>1 DEF EndOfSlice, nalVars
<1>5. SliceInv'
  BY <1>4 DEF StreamInv, SliceInv, SliceReceived
<1> QED BY <1>2, <1>3, <1>5 DEF StreamInv

(* The writer and the reader of the units do not touch the coder.           *)
LEMMA CoderStays == ASSUME StreamInv, UNCHANGED coderVars PROVE CoderInv' /\ data' = data /\ verdict' = verdict
  BY CoderUnchanged DEF StreamInv, coderVars

(* A unit is started, grows or is padded                                    *)
LEMMA WritingKeeps ==
  ASSUME StreamInv, UNCHANGED coderVars, UNCHANGED <<file, closed, queue, received, reader>>,
         ~closed, UnitInv(unit'), UnitGood(unit'), unit' # NoUnit /\ IsVcl(unit'.type) => data # <<>>
  PROVE  StreamInv'
<1>1. CoderInv' /\ data' = data /\ verdict' = verdict
  BY CoderStays
<1>2. file' = file /\ closed' = closed /\ queue' = queue /\ received' = received /\ reader' = reader
  OBVIOUS
<1>3. WriterInv'
  BY DEF WriterInv
<1>4. FileInv' /\ ReaderInv'
  BY <1>2 DEF StreamInv, FileInv, ReaderInv
<1>5. SliceInv'
  BY <1>1, <1>2 DEF StreamInv, SliceInv, SliceReceived, SlicePayload
<1> QED BY <1>1, <1>3, <1>4, <1>5 DEF StreamInv

(* The unit of the slice is started.                                        *)
LEMMA StartSliceKeeps == ASSUME StreamInv, StartSlice PROVE StreamInv'
<1>1. PICK t \in Types : IsVcl(t) /\ StartUnit(t)
  BY DEF StartSlice
<1>2. data # <<>> /\ UNCHANGED coderVars
  BY DEF StartSlice
<1>3. ~closed /\ UNCHANGED <<file, closed, queue, received, reader>>
  BY <1>1 DEF StartUnit
<1>4. UnitInv(unit') /\ UnitGood(unit')
  BY <1>1, StartedUnit, StartedGood
<1> QED BY <1>2, <1>3, <1>4, WritingKeeps

(* Another unit is started.                                                 *)
LEMMA StartOtherKeeps == ASSUME StreamInv, StartOther PROVE StreamInv'
<1>1. PICK t \in Types : ~IsVcl(t) /\ StartUnit(t)
  BY DEF StartOther
<1>2. UNCHANGED coderVars
  BY DEF StartOther
<1>3. ~closed /\ UNCHANGED <<file, closed, queue, received, reader>> /\ unit'.type = t
  BY <1>1 DEF StartUnit
<1>4. UnitInv(unit') /\ UnitGood(unit')
  BY <1>1, StartedUnit, StartedGood
<1> QED BY <1>1, <1>2, <1>3, <1>4, WritingKeeps

(* A byte is written.                                                       *)
LEMMA PutKeeps == ASSUME StreamInv, UNCHANGED coderVars, NEW v \in Byte, PutByte(v) PROVE StreamInv'
<1>1. unit # NoUnit /\ ~unit.padded /\ unit' = Escaped(unit, v)
        /\ UNCHANGED <<file, closed, queue, received, reader>>
  BY DEF PutByte
<1>2. UnitInv(unit) /\ UnitGood(unit) /\ ~closed
  BY <1>1 DEF StreamInv, WriterInv, ReaderInv
<1>3. UnitInv(unit') /\ UnitGood(unit')
  BY <1>1, <1>2, EscapedUnit, EscapedGood
<1>4. unit'.type = unit.type
  BY <1>1, <1>2, EscapedFields DEF UnitGood, ByteUnit
<1>5. unit' # NoUnit /\ IsVcl(unit'.type) => data # <<>>
  BY <1>1, <1>4 DEF StreamInv, SliceInv
<1> QED BY <1>1, <1>2, <1>3, <1>5, WritingKeeps

(* A byte of the slice is written.                                          *)
LEMMA PutSliceByteKeeps == ASSUME StreamInv, PutSliceByte PROVE StreamInv'
<1>1. unit # NoUnit /\ Len(unit.rbsp) < Len(SlicePayload) /\ UNCHANGED coderVars
  BY DEF PutSliceByte
<1>2. SlicePayload \in Seq(Byte)
  BY PayloadFacts DEF StreamInv
<1>3. unit.rbsp \in Seq(Byte)
  BY <1>1 DEF StreamInv, WriterInv, UnitGood, ByteUnit, UnitOver
<1>4. Len(unit.rbsp) + 1 \in 1..Len(SlicePayload)
  <2>1. Len(unit.rbsp) \in Nat /\ Len(SlicePayload) \in Nat
    BY <1>2, <1>3
  <2> QED BY <1>1, <2>1
<1>5. SlicePayload[Len(unit.rbsp) + 1] \in Byte
  BY <1>2, <1>4
<1> QED BY <1>1, <1>5, PutKeeps DEF PutSliceByte

(* A byte of another payload is written.                                    *)
LEMMA PutOtherByteKeeps == ASSUME StreamInv, PutOtherByte PROVE StreamInv'
<1>1. PICK v \in RawBytes : PutByte(v)
  BY DEF PutOtherByte
<1>2. v \in Byte /\ UNCHANGED coderVars
  BY SliceAssumption DEF PutOtherByte
<1> QED BY <1>1, <1>2, PutKeeps

(* The slice is padded.                                                     *)
LEMMA PadSliceKeeps == ASSUME StreamInv, PadSlice PROVE StreamInv'
<1>1. PadUnit /\ UNCHANGED coderVars
  BY DEF PadSlice
<1>2. /\ unit # NoUnit /\ UNCHANGED <<file, closed, queue, received, reader>>
      /\ unit' = [unit EXCEPT !.bytes = Ended(unit) \o <<0, 0, 3>>, !.padded = TRUE]
  BY <1>1 DEF PadUnit
<1>3. UnitInv(unit) /\ UnitGood(unit) /\ ~closed
  BY <1>2 DEF StreamInv, WriterInv, ReaderInv
<1>4. UnitInv(unit') /\ UnitGood(unit')
  BY <1>1, <1>3, PaddedUnit, PaddedGood
<1>5. unit'.type = unit.type
  <2>1. unit \in UnitOver(Byte)
    BY <1>3 DEF UnitGood, ByteUnit
  <2> DEFINE b == Ended(unit) \o <<0, 0, 3>>
             S == Seq(Byte)
  <2>2. unit \in [type : Types, rbsp : S, bytes : S, zeros : 0..2, padded : BOOLEAN]
    BY <2>1 DEF UnitOver
  <2> HIDE DEF b, S
  <2>3. [unit EXCEPT !.bytes = b, !.padded = TRUE].type = unit.type
    BY <2>2
  <2> QED BY <1>2, <2>3 DEF b
<1>6. unit' # NoUnit /\ IsVcl(unit'.type) => data # <<>>
  BY <1>2, <1>5 DEF StreamInv, SliceInv
<1> QED BY <1>1, <1>2, <1>3, <1>4, <1>6, WritingKeeps

(* A unit goes into the file, behind a short or a long start code, and into *)
(* the queue.                                                               *)
LEMMA EndNalUnitKeeps ==
  ASSUME StreamInv, EndNalUnit
  PROVE  StreamInv' /\ UNCHANGED received /\ \E u \in Units : queue' = Append(queue, u)
<1>1. PICK long \in BOOLEAN : EndUnit(long)
  BY DEF EndNalUnit
<1>2. UNCHANGED coderVars /\ SliceComplete
  BY DEF EndNalUnit
<1> DEFINE u == [type |-> unit.type, rbsp |-> unit.rbsp]
           b == Ended(unit)
<1>3. /\ unit # NoUnit /\ unit.rbsp # <<>> /\ Last(unit.rbsp) # 0
      /\ file' = file \o StartCode(long) \o b
      /\ queue' = Append(queue, u)
      /\ unit' = NoUnit /\ closed' = closed /\ received' = received /\ reader' = reader
  BY <1>1 DEF EndUnit
<1>4. UnitInv(unit) /\ UnitGood(unit)
  BY <1>3 DEF StreamInv, WriterInv
<1>5. IsBody(b, u)
  BY <1>3, <1>4, EndedBody
<1>6. u \in Units
  BY <1>4 DEF UnitGood, ByteUnit, UnitOver, Units
<1>7. IsBytes(file) /\ queue \in Seq(Units) /\ Framed(file, queue)
  BY DEF StreamInv, FileInv
<1>8. u.type = unit.type /\ u.rbsp = unit.rbsp
  OBVIOUS
<1> HIDE DEF u, b
<1>9. FileInv'
  <2>1. IsBytes(file') /\ Framed(file', Append(queue, u))
    <3>1. Extended(file, file', long, b)
      BY <1>3 DEF Extended
    <3> QED BY <1>5, <1>6, <1>7, <3>1, FramedAppend
  <2>2. Append(queue, u) \in Seq(Units)
    BY <1>6, <1>7
  <2> QED BY <1>3, <2>1, <2>2 DEF FileInv
<1>10. CoderInv' /\ data' = data /\ verdict' = verdict
  BY <1>2, CoderStays
<1>11. WriterInv'
  BY <1>3 DEF WriterInv
<1>12. ReaderInv'
  BY <1>3 DEF StreamInv, ReaderInv
<1>13. SliceInv'
  <2>1. /\ Len(queue) \in Nat /\ Len(queue') = Len(queue) + 1 /\ queue'[Len(queue) + 1] = u
        /\ \A i \in 1..Len(queue) : queue'[i] = queue[i]
    BY <1>3, <1>6, <1>7
  <2>2. IsVcl(u.type) => data # <<>> /\ u.rbsp = SlicePayload
    BY <1>2, <1>3, <1>8 DEF SliceComplete, StreamInv, SliceInv
  <2>3. ASSUME NEW i \in 1..Len(queue') PROVE IsVcl(queue'[i].type) => data # <<>>
                 /\ queue'[i].rbsp = SlicePayload
    <3>1. i \in 1..Len(queue) \/ i = Len(queue) + 1
      BY <2>1
    <3> QED BY <2>1, <2>2, <3>1 DEF StreamInv, SliceInv
  <2>4. \A i \in 1..Len(queue') : IsVcl(queue'[i].type) => data' # <<>> /\ queue'[i].rbsp = SlicePayload'
    BY <1>10, <2>3 DEF SlicePayload
  <2> QED BY <1>3, <1>10, <2>4 DEF StreamInv, SliceInv, SliceReceived, SlicePayload
<1> QED BY <1>3, <1>6, <1>9, <1>10, <1>11, <1>12, <1>13 DEF StreamInv

(* The file is complete.                                                    *)
LEMMA CloseStreamKeeps == ASSUME StreamInv, CloseStream PROVE StreamInv' /\ UNCHANGED <<queue, received>>
<1>1. /\ UNCHANGED coderVars
      /\ unit = NoUnit /\ ~closed /\ queue # <<>> /\ closed' = TRUE
      /\ unit' = unit /\ file' = file /\ queue' = queue /\ received' = received /\ reader' = reader
  BY DEF CloseStream, Close
<1>2. CoderInv' /\ data' = data /\ verdict' = verdict
  BY <1>1, CoderStays
<1>3. WriterInv' /\ FileInv' /\ ReaderInv'
  BY <1>1 DEF StreamInv, WriterInv, FileInv, ReaderInv
<1>4. SliceInv'
  BY <1>1, <1>2 DEF StreamInv, SliceInv, SliceReceived, SlicePayload
<1> QED BY <1>1, <1>2, <1>3, <1>4 DEF StreamInv

(* The parser delivers the first unit of the queue, and ends with the last. *)
LEMMA ReadNalUnitKeeps ==
  ASSUME StreamInv, ReadNalUnit
  PROVE  StreamInv' /\ queue # <<>> /\ received' = Head(queue) /\ queue' = Tail(queue)
<1> DEFINE n == NextUnit(file)
           r == ReadUnit(n.bytes)
<1>1. /\ UNCHANGED coderVars /\ closed /\ reader = "reading"
      /\ IF Len(n.bytes) < 2 \/ ~r.ok
         THEN reader' = "aborted" /\ UNCHANGED <<received, queue>>
         ELSE /\ reader' = IF n.eof THEN "ended" ELSE "reading"
              /\ received' = r.unit
              /\ queue' = SubSeq(queue, 2, Len(queue))
      /\ file' = n.rest
      /\ unit' = unit /\ closed' = closed
      /\ SliceReceived => verdict \notin {"none", "decoding"}
  BY DEF ReadNalUnit, Read
<1>2. queue # <<>> /\ unit = NoUnit /\ IsBytes(file) /\ queue \in Seq(Units) /\ Framed(file, queue)
  BY <1>1 DEF StreamInv, ReaderInv, FileInv
<1>3. PICK b, g : /\ NextUnit(file) = [bytes |-> b, rest |-> g, eof |-> Len(queue) = 1]
                  /\ IsBody(b, queue[1]) /\ IsBytes(g) /\ Framed(g, SubSeq(queue, 2, Len(queue)))
  BY <1>2, FramedRest
<1>4. n.bytes = b /\ n.rest = g /\ n.eof = (Len(queue) = 1)
  BY <1>3
<1>5. Len(b) \in Nat /\ Len(b) >= 2 /\ ReadUnit(b) = [ok |-> TRUE, unit |-> queue[1]]
  BY <1>3, BodyNumbers DEF IsBody
<1> HIDE DEF n
<1>6. r.ok = TRUE /\ r.unit = queue[1] /\ ~(Len(n.bytes) < 2)
  BY <1>4, <1>5
<1> HIDE DEF r
<1>7. /\ reader' = IF Len(queue) = 1 THEN "ended" ELSE "reading"
      /\ received' = queue[1]
      /\ queue' = SubSeq(queue, 2, Len(queue))
      /\ file' = g
  BY Zenon, <1>1, <1>4, <1>6
<1>8. /\ Len(queue) \in Nat \ {0} /\ queue' \in Seq(Units) /\ Head(queue) = queue[1]
  BY <1>2, <1>7
<1>9. Len(queue') = Len(queue) - 1
  BY <1>2, <1>7, RestLength
<1>10. \A i \in 1..(Len(queue) - 1) : queue'[i] = queue[2 + i - 1]
  BY <1>2, <1>7, <1>8
<1>11. Tail(queue) = SubSeq(queue, 2, Len(queue))
  BY <1>2
<1>12. CoderInv' /\ data' = data /\ verdict' = verdict
  BY <1>1, CoderStays
<1>13. WriterInv' /\ FileInv'
  BY <1>1, <1>2, <1>3, <1>7, <1>8 DEF WriterInv, FileInv
<1>14. ReaderInv'
  <2> DEFINE l == Len(queue)
  <2>1. l \in Nat \ {0} /\ Len(queue') = l - 1
    BY <1>8, <1>9
  <2>2. CASE l = 1
    <3>1. queue' = <<>>
      BY <1>2, <1>7, <2>2
    <3> QED BY <1>1, <1>2, <1>7, <2>2, <3>1 DEF ReaderInv, StreamInv
  <2>3. CASE l # 1
    <3> HIDE DEF l
    <3>1. Len(queue') # 0
      BY <2>1, <2>3
    <3>2. queue' # <<>>
      BY <3>1
    <3> QED BY <1>1, <1>2, <1>7, <2>3, <3>2 DEF ReaderInv, StreamInv, l
  <2> QED BY <2>2, <2>3
<1>15. SliceInv'
  <2>1. ASSUME NEW i \in 1..Len(queue') PROVE IsVcl(queue'[i].type) => data # <<>>
                 /\ queue'[i].rbsp = SlicePayload
    <3>1. i \in 1..(Len(queue) - 1)
      BY <1>9
    <3>2. 2 + i - 1 \in 1..Len(queue)
      BY <1>8, <3>1
    <3>3. queue'[i] = queue[2 + i - 1]
      BY <1>10, <3>1
    <3> QED BY Zenon, <3>2, <3>3 DEF StreamInv, SliceInv
  <2>2. \A i \in 1..Len(queue') : IsVcl(queue'[i].type) => data' # <<>> /\ queue'[i].rbsp = SlicePayload'
    BY <1>12, <2>1 DEF SlicePayload
  <2>3. IsVcl(received'.type) => data' # <<>> /\ received'.rbsp = SlicePayload'
    <3>1. 1 \in 1..Len(queue)
      BY <1>8
    <3> QED BY <1>7, <1>12, <3>1 DEF StreamInv, SliceInv, SlicePayload
  <2>4. verdict' # "decoding"
    BY <1>1, <1>12 DEF StreamInv, SliceInv
  <2>5. unit' = NoUnit
    BY <1>1, <1>2
  <2> QED BY <2>2, <2>3, <2>4, <2>5 DEF SliceInv, SliceReceived
<1> QED BY <1>2, <1>7, <1>8, <1>11, <1>12, <1>13, <1>14, <1>15 DEF StreamInv

(* The decoder starts on a slice it has received.                           *)
LEMMA DecodeStartKeeps == ASSUME StreamInv, DecodeStart PROVE StreamInv'
<1>1. SliceReceived /\ StartDecoding(ReceivedData) /\ UNCHANGED nalVars
  BY DEF DecodeStart
<1>2. ReceivedData = data /\ data # <<>>
  BY <1>1, ReceivedIsData DEF StreamInv
<1>3. CoderInv'
  BY <1>1, <1>2, StartDecodingKeeps DEF StreamInv
<1>4. WriterInv' /\ FileInv' /\ ReaderInv'
  BY <1>1, NalKeeps
<1>5. data' = data /\ unit' = unit /\ queue' = queue /\ received' = received
  BY <1>1 DEF StartDecoding, nalVars
<1>6. SliceInv'
  BY <1>1, <1>5 DEF StreamInv, SliceInv, SliceReceived, SlicePayload
<1> QED BY <1>3, <1>4, <1>6 DEF StreamInv

(* A symbol is decoded.                                                     *)
LEMMA DecodeOneKeeps == ASSUME StreamInv, DecodeOne PROVE StreamInv'
<1>1. DecodeNext(ReceivedData) /\ UNCHANGED nalVars
  BY DEF DecodeOne
<1>2. verdict = "decoding" /\ data' = data
  BY <1>1 DEF DecodeNext
<1>3. SliceReceived
  BY <1>2 DEF StreamInv, SliceInv
<1>4. ReceivedData = data
  BY <1>3, ReceivedIsData DEF StreamInv
<1>5. CoderInv'
  BY <1>1, <1>4, DecodeNextKeeps DEF StreamInv
<1>6. WriterInv' /\ FileInv' /\ ReaderInv'
  BY <1>1, NalKeeps
<1>7. unit' = unit /\ queue' = queue /\ received' = received
  BY <1>1 DEF nalVars
<1>8. SliceInv'
  BY <1>2, <1>3, <1>7 DEF StreamInv, SliceInv, SliceReceived, SlicePayload
<1> QED BY <1>5, <1>6, <1>8 DEF StreamInv

(* Nothing happens.                                                         *)
LEMMA StreamUnchanged == ASSUME StreamInv, UNCHANGED vars PROVE StreamInv'
<1>1. UNCHANGED coderVars /\ UNCHANGED nalVars
  BY DEF vars, coderVars, nalVars
<1>2. CoderInv' /\ data' = data /\ verdict' = verdict
  BY <1>1, CoderStays
<1>3. WriterInv' /\ FileInv' /\ ReaderInv'
  BY <1>1, NalKeeps
<1>4. unit' = unit /\ queue' = queue /\ received' = received
  BY <1>1 DEF nalVars
<1>5. SliceInv'
  BY <1>2, <1>4 DEF StreamInv, SliceInv, SliceReceived, SlicePayload
<1> QED BY <1>2, <1>3, <1>5 DEF StreamInv

(* The invariant is inductive.                                              *)
LEMMA StreamStepKeeps == StreamInv /\ [Next]_vars => StreamInv'
<1> SUFFICES ASSUME StreamInv, [Next]_vars PROVE StreamInv'
  OBVIOUS
<1>1. CASE CodeSymbol
  BY <1>1, CodeSymbolKeeps
<1>2. CASE CodeEnd
  BY <1>2, CodeEndKeeps
<1>3. CASE StartSlice
  BY <1>3, StartSliceKeeps
<1>4. CASE StartOther
  BY <1>4, StartOtherKeeps
<1>5. CASE PutSliceByte
  BY <1>5, PutSliceByteKeeps
<1>6. CASE PutOtherByte
  BY <1>6, PutOtherByteKeeps
<1>7. CASE PadSlice
  BY <1>7, PadSliceKeeps
<1>8. CASE EndNalUnit
  BY <1>8, EndNalUnitKeeps
<1>9. CASE CloseStream
  BY <1>9, CloseStreamKeeps
<1>10. CASE ReadNalUnit
  BY <1>10, ReadNalUnitKeeps
<1>11. CASE DecodeStart
  BY <1>11, DecodeStartKeeps
<1>12. CASE DecodeOne
  BY <1>12, DecodeOneKeeps
<1>13. CASE UNCHANGED vars
  BY <1>13, StreamUnchanged
<1> QED BY <1>1, <1>2, <1>3, <1>4, <1>5, <1>6, <1>7, <1>8, <1>9, <1>10, <1>11, <1>12, <1>13 DEF Next

(* The decoder gets the bins that were coded, whatever the symbols, their   *)
(* number and the carries: TBinEncoder and TBinDecoder agree, the stop      *)
(* pattern BinDecoderBase::finish CHECKs is found, and no byte is left or   *)
(* missing.                                                                 *)
THEOREM BinsComeBack == Spec => []SameBins
<1>1. Init => StreamInv
  BY StreamStarts
<1>2. StreamInv /\ [Next]_vars => StreamInv'
  BY StreamStepKeeps
<1>3. StreamInv => SameBins
  BY DEF StreamInv, CoderInv, SameBins
<1> QED BY <1>1, <1>2, <1>3, PTL DEF Spec

(* The parser of the byte stream finds every unit that was written, however *)
(* many there are and whatever they hold, and none of its CHECKs fails.     *)
THEOREM UnitsDelivered == Spec => []AllDelivered
<1>1. Init => StreamInv
  BY StreamStarts
<1>2. StreamInv /\ [Next]_vars => StreamInv'
  BY StreamStepKeeps
<1>3. StreamInv => AllDelivered
  BY DEF StreamInv, ReaderInv, AllDelivered
<1> QED BY <1>1, <1>2, <1>3, PTL DEF Spec

(* The channel is empty at the start.                                       *)
LEMMA TransportStarts == Init => Channel!Init
  BY DEF Init, NalInit, NoUnit, Channel!Init

(* EndUnit sends, Read receives, and no other step of the stream touches    *)
(* the channel.                                                             *)
LEMMA TransportSteps ==
  StreamInv /\ [Next]_vars => [Channel!Send \/ Channel!Receive]_<<queue, received>>
<1> SUFFICES ASSUME StreamInv, [Next]_vars
    PROVE  Channel!Send \/ Channel!Receive \/ UNCHANGED <<queue, received>>
  OBVIOUS
<1>1. CASE EndNalUnit
  <2>1. UNCHANGED received
    BY <1>1, EndNalUnitKeeps
  <2>2. PICK u \in Units : queue' = Append(queue, u)
    BY <1>1, EndNalUnitKeeps
  <2>3. queue \in Seq(Units)
    BY DEF StreamInv, FileInv
  <2>4. Len(queue') = Len(queue) + 1 /\ queue'[Len(queue')] = u
    BY <2>2, <2>3
  <2>5. Channel!Send
    BY <2>1, <2>2, <2>4 DEF Channel!Send, Units
  <2> QED BY <2>5
<1>2. CASE ReadNalUnit
  BY <1>2, ReadNalUnitKeeps DEF Channel!Receive
<1>3. CASE ~EndNalUnit /\ ~ReadNalUnit
  BY <1>3 DEF Next, vars, CodeSymbol, CodeEnd, StartSlice, StartOther, StartUnit, PutSliceByte,
       PutOtherByte, PutByte,
       PadSlice, PadUnit, CloseStream, Close, DecodeStart, DecodeOne, nalVars
<1> QED BY <1>1, <1>2, <1>3

(* The byte stream is a channel of units: writing one sends it, reading one *)
(* receives it, with its type and its payload, in order.                    *)
THEOREM StreamIsTransport == Spec => ImplementsTransport
<1>1. Init => StreamInv
  BY StreamStarts
<1>2. StreamInv /\ [Next]_vars => StreamInv'
  BY StreamStepKeeps
<1>3. Init => Channel!Init
  BY TransportStarts
<1>4. StreamInv /\ [Next]_vars => [Channel!Send \/ Channel!Receive]_<<queue, received>>
  BY TransportSteps
<1> QED BY <1>1, <1>2, <1>3, <1>4, PTL DEF Spec, ImplementsTransport, Channel!Spec

=============================================================================
