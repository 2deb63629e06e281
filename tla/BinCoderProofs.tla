--------------------------- MODULE BinCoderProofs ---------------------------
(* The arithmetic coder, proved for every sequence of symbols. What the     *)
(* encoder has in its register, its byte held back and its outstanding      *)
(* bytes is an interval of binary fractions (Low, Bits and the range); a    *)
(* symbol narrows it, a carry only changes how it is written. The decoder   *)
(* holds the distance of the bytes from its lower end (Value), and finds    *)
(* the symbol that leaves the bytes inside.                                 *)
EXTENDS BinCoder, TLAPS, NaturalsInduction, WellFoundedInduction

(***************************************************************************)
(* Powers of two                                                           *)
(***************************************************************************)

(* The powers of two that a register of 32 bits holds                       *)
Power(k) == 2^k

(* The powers, written out: the provers do not evaluate them.               *)
LEMMA PowerTable ==
  /\ Power(0) = 1 /\ Power(1) = 2 /\ Power(2) = 4 /\ Power(3) = 8 /\ Power(4) = 16 /\ Power(5) = 32
  /\ Power(6) = 64 /\ Power(7) = 128 /\ Power(8) = 256 /\ Power(9) = 512 /\ Power(10) = 1024 /\ Power(11) = 2048
  /\ Power(12) = 4096 /\ Power(13) = 8192 /\ Power(14) = 16384 /\ Power(15) = 32768 /\ Power(16) = 65536
  /\ Power(17) = 131072
  /\ Power(18) = 262144 /\ Power(19) = 524288 /\ Power(20) = 1048576 /\ Power(21) = 2097152
  /\ Power(22) = 4194304 /\ Power(23) = 8388608
  /\ Power(24) = 16777216 /\ Power(25) = 33554432 /\ Power(26) = 67108864 /\ Power(27) = 134217728
  /\ Power(28) = 268435456 /\ Power(29) = 536870912
  /\ Power(30) = 1073741824 /\ Power(31) = 2147483648 /\ Power(32) = 4294967296
  BY DEF Power

(* They are positive, and the next one is the double                        *)
LEMMA PowerNext ==
  ASSUME NEW k \in 0..31
  PROVE  Power(k) \in Nat \ {0} /\ Power(k + 1) = 2 * Power(k)
<1>1. k + 1 \in 1..32
  OBVIOUS
<1>2. CASE k \in 0..7
  <2>1. \/ k = 0 \/ k = 1 \/ k = 2 \/ k = 3 \/ k = 4 \/ k = 5 \/ k = 6 \/ k = 7
    BY <1>2
  <2> QED BY <2>1, PowerTable
<1>3. CASE k \in 8..15
  <2>1. \/ k = 8 \/ k = 9 \/ k = 10 \/ k = 11 \/ k = 12 \/ k = 13 \/ k = 14 \/ k = 15
    BY <1>3
  <2> QED BY <2>1, PowerTable
<1>4. CASE k \in 16..23
  <2>1. \/ k = 16 \/ k = 17 \/ k = 18 \/ k = 19 \/ k = 20 \/ k = 21 \/ k = 22 \/ k = 23
    BY <1>4
  <2> QED BY <2>1, PowerTable
<1>5. CASE k \in 24..31
  <2>1. \/ k = 24 \/ k = 25 \/ k = 26 \/ k = 27 \/ k = 28 \/ k = 29 \/ k = 30 \/ k = 31
    BY <1>5
  <2> QED BY <2>1, PowerTable
<1> QED BY <1>2, <1>3, <1>4, <1>5

(* A shift by two amounts is a shift by their sum                           *)
LEMMA PowerSum ==
  ASSUME NEW k \in 0..23, NEW n \in 0..8
  PROVE  Power(k + n) = Power(k) * Power(n)
<1> DEFINE p(i) == Power(k + i)
<1>1. p(0) = Power(k) /\ p(0) \in Nat
  BY PowerNext
<1>2. \A i \in 0..7 : p(i + 1) = 2 * p(i)
  <2>1. ASSUME NEW i \in 0..7 PROVE p(i + 1) = 2 * p(i)
    <3>1. k + i \in 0..31 /\ k + (i + 1) = (k + i) + 1
      OBVIOUS
    <3> QED BY <3>1, PowerNext
  <2> QED BY <2>1
<1> HIDE DEF p
<1>3. /\ p(1) = 2 * p(0) /\ p(2) = 2 * p(1) /\ p(3) = 2 * p(2) /\ p(4) = 2 * p(3)
      /\ p(5) = 2 * p(4) /\ p(6) = 2 * p(5) /\ p(7) = 2 * p(6) /\ p(8) = 2 * p(7)
  BY <1>2
<1>4. /\ p(1) = p(0) * 2 /\ p(2) = p(0) * 4 /\ p(3) = p(0) * 8 /\ p(4) = p(0) * 16
      /\ p(5) = p(0) * 32 /\ p(6) = p(0) * 64 /\ p(7) = p(0) * 128 /\ p(8) = p(0) * 256
  BY <1>1, <1>3
<1>5. p(n) = p(0) * Power(n)
  <2>1. n = 0 \/ n = 1 \/ n = 2 \/ n = 3 \/ n = 4 \/ n = 5 \/ n = 6 \/ n = 7 \/ n = 8
    OBVIOUS
  <2> QED BY <1>1, <1>4, <2>1, PowerTable
<1> QED BY <1>1, <1>5 DEF p

(***************************************************************************)
(* The number that bytes stand for                                         *)
(***************************************************************************)

(* Induction up to a bound: the naturals are well-founded                   *)
Reaches(S, n) == 0 \in S /\ \A i \in 0..(n - 1) : i \in S => i + 1 \in S

(* What holds at 0 and goes on from each number below n holds up to n.      *)
LEMMA UpTo ==
  ASSUME NEW n \in Nat, NEW S, Reaches(S, n)
  PROVE  \A i \in 0..n : i \in S
<1> DEFINE T == {i \in 0..n : i \notin S}
<1> SUFFICES ASSUME T # {} PROVE FALSE
  OBVIOUS
<1>1. T \in SUBSET Nat
  OBVIOUS
<1>2. PICK m \in T : \A i \in T : <<i, m>> \notin OpToRel(<, Nat)
  <2> HIDE DEF T
  <2> QED BY <1>1, WFMin, NatLessThanWellFounded
<1>3. m \in 1..n /\ m - 1 \in 0..(n - 1) /\ (m - 1) + 1 = m
  BY DEF Reaches
<1>4. m - 1 \notin S
  BY <1>3 DEF Reaches
<1>5. m - 1 \in T
  BY <1>3, <1>4
<1>6. ~(m - 1 < m)
  BY <1>1, <1>2, <1>5 DEF OpToRel
<1> QED BY <1>3, <1>6

(* The number of the first bytes, for each count of them                    *)
IsNumbers(v, s, n) == v = [i \in 0..n |-> IF i = 0 THEN 0 ELSE 256 * v[i - 1] + s[i]]
Numbers(s) == CHOOSE v : IsNumbers(v, s, Len(s))
Number(s, i) == Numbers(s)[i]

(* The number of the first bytes is 256 times the one before plus the byte, *)
(* and natural.                                                             *)
LEMMA NumberFacts ==
  ASSUME NEW s \in Seq(Nat)
  PROVE  /\ Number(s, 0) = 0
         /\ \A i \in 1..Len(s) : Number(s, i) = 256 * Number(s, i - 1) + s[i]
         /\ \A i \in 0..Len(s) : Number(s, i) \in Nat
<1> DEFINE S == {n \in 0..Len(s) : \E v : IsNumbers(v, s, n)}
<1>1. 0 \in S
  <2>1. IsNumbers([i \in 0..0 |-> 0], s, 0)
    BY DEF IsNumbers
  <2> QED BY <2>1
<1>2. ASSUME NEW n \in 0..(Len(s) - 1), n \in S PROVE n + 1 \in S
  <2>1. PICK v : IsNumbers(v, s, n)
    BY <1>2
  <2> DEFINE w == [i \in 0..(n + 1) |-> IF i <= n THEN v[i] ELSE 256 * v[n] + s[n + 1]]
  <2>2. IsNumbers(w, s, n + 1)
    <3>1. \A i \in 0..n : v[i] = IF i = 0 THEN 0 ELSE 256 * v[i - 1] + s[i]
      BY <2>1 DEF IsNumbers
    <3>2. \A i \in 0..(n + 1) : w[i] = IF i = 0 THEN 0 ELSE 256 * w[i - 1] + s[i]
      BY <3>1
    <3>3. w = [i \in 0..(n + 1) |-> w[i]]
      OBVIOUS
    <3> HIDE DEF w
    <3> QED BY <3>2, <3>3 DEF IsNumbers
  <2> HIDE DEF w
  <2>3. n + 1 \in 0..Len(s)
    OBVIOUS
  <2> QED BY <2>2, <2>3
<1>3. Len(s) \in S
  <2>1. Len(s) \in Nat
    OBVIOUS
  <2> HIDE DEF S
  <2>2. Reaches(S, Len(s))
    BY <1>1, <1>2 DEF Reaches
  <2> QED BY <2>1, <2>2, UpTo
<1>4. IsNumbers(Numbers(s), s, Len(s))
  BY <1>3 DEF Numbers
<1>5. \A i \in 0..Len(s) : Numbers(s)[i] = IF i = 0 THEN 0 ELSE 256 * Numbers(s)[i - 1] + s[i]
  BY <1>4 DEF IsNumbers
<1>6. Number(s, 0) = 0 /\ \A i \in 1..Len(s) : Number(s, i) = 256 * Number(s, i - 1) + s[i]
  BY <1>5 DEF Number
<1> DEFINE U == {i \in 0..Len(s) : Number(s, i) \in Nat}
<1>7. 0 \in U
  BY <1>6
<1>8. ASSUME NEW i \in 0..(Len(s) - 1), i \in U PROVE i + 1 \in U
  <2>1. Number(s, i + 1) = 256 * Number(s, i) + s[i + 1] /\ s[i + 1] \in Nat
    <3>1. i + 1 \in 1..Len(s) /\ (i + 1) - 1 = i
      OBVIOUS
    <3> QED BY <1>6, <3>1
  <2> QED BY <1>8, <2>1
<1>9. \A i \in 0..Len(s) : i \in U
  <2> HIDE DEF U
  <2>1. Reaches(U, Len(s)) /\ Len(s) \in Nat
    BY <1>7, <1>8 DEF Reaches
  <2> QED BY <2>1, UpTo
<1> QED BY <1>6, <1>9

(* Numbers of the same bytes are the same                                   *)
SameUpTo(s, t, n) == n \in 0..Len(s) /\ n <= Len(t) /\ \A i \in 1..n : s[i] = t[i]

(* It depends on those bytes only.                                          *)
LEMMA NumberOfPrefix ==
  ASSUME NEW s \in Seq(Nat), NEW t \in Seq(Nat), NEW n, SameUpTo(s, t, n)
  PROVE  Number(s, n) = Number(t, n)
<1> USE DEF SameUpTo
<1> DEFINE S == {i \in 0..n : Number(s, i) = Number(t, i)}
<1>1. 0 \in S
  BY NumberFacts
<1>2. ASSUME NEW i \in 0..(n - 1), i \in S PROVE i + 1 \in S
  <2>1. i + 1 \in 1..Len(s) /\ i + 1 \in 1..Len(t) /\ (i + 1) - 1 = i /\ i + 1 \in 1..n
    OBVIOUS
  <2>2. Number(s, i + 1) = 256 * Number(s, i) + s[i + 1] /\ Number(t, i + 1) = 256 * Number(t, i) + t[i + 1]
    BY <2>1, NumberFacts
  <2> QED BY <1>2, <2>1, <2>2
<1>3. \A i \in 0..n : i \in S
  <2> HIDE DEF S
  <2>1. Reaches(S, n) /\ n \in Nat
    BY <1>1, <1>2 DEF Reaches
  <2> QED BY <2>1, UpTo
<1> QED BY <1>3

(* A byte more                                                              *)
LEMMA NumberAppend ==
  ASSUME NEW s \in Seq(Nat), NEW b \in Nat
  PROVE  Number(Append(s, b), Len(s) + 1) = 256 * Number(s, Len(s)) + b
<1>1. Append(s, b) \in Seq(Nat) /\ Len(Append(s, b)) = Len(s) + 1 /\ Append(s, b)[Len(s) + 1] = b
  OBVIOUS
<1>2. \A i \in 1..Len(s) : Append(s, b)[i] = s[i]
  OBVIOUS
<1>3. Number(Append(s, b), Len(s)) = Number(s, Len(s))
  <2>1. SameUpTo(s, Append(s, b), Len(s))
    BY <1>1, <1>2 DEF SameUpTo
  <2> QED BY <1>1, <2>1, NumberOfPrefix
<1>4. Len(s) + 1 \in 1..Len(Append(s, b)) /\ (Len(s) + 1) - 1 = Len(s)
  BY <1>1
<1>5. Number(Append(s, b), Len(s) + 1) = 256 * Number(Append(s, b), Len(s)) + Append(s, b)[Len(s) + 1]
  <2> DEFINE t == Append(s, b)
  <2>1. t \in Seq(Nat) /\ Len(s) + 1 \in 1..Len(t)
    BY <1>1, <1>4
  <2> HIDE DEF t
  <2>2. Number(t, Len(s) + 1) = 256 * Number(t, (Len(s) + 1) - 1) + t[Len(s) + 1]
    BY <2>1, NumberFacts
  <2> QED BY <2>2, <1>4 DEF t
<1> QED BY <1>1, <1>3, <1>5

(* A carry into a byte in front of bytes of 255 makes them zeros            *)
LEMMA NumberCarry ==
  ASSUME NEW s \in Seq(Nat), NEW t \in Seq(Nat), NEW m \in 1..Len(s), Len(t) = Len(s),
         \A i \in 1..(m - 1) : s[i] = t[i], t[m] = s[m] + 1,
         \A i \in (m + 1)..Len(s) : s[i] = 255 /\ t[i] = 0
  PROVE  Number(t, Len(s)) = Number(s, Len(s)) + 1
<1> DEFINE S == {j \in 0..(Len(s) - m) : Number(t, m + j) = Number(s, m + j) + 1}
<1>1. 0 \in S
  <2>1. m - 1 \in 0..Len(s) /\ m - 1 <= Len(t) /\ m \in 1..Len(t)
    OBVIOUS
  <2>2. Number(s, m - 1) = Number(t, m - 1)
    <3>1. SameUpTo(s, t, m - 1)
      BY <2>1 DEF SameUpTo
    <3> QED BY <3>1, NumberOfPrefix
  <2>3. Number(s, m) = 256 * Number(s, m - 1) + s[m] /\ Number(t, m) = 256 * Number(t, m - 1) + t[m]
    BY <2>1, NumberFacts
  <2>4. Number(s, m - 1) \in Nat /\ s[m] \in Nat
    <3>1. Number(s, m - 1) \in Nat
      BY <2>1, NumberFacts
    <3>2. s[m] \in Nat
      OBVIOUS
    <3> QED BY <3>1, <3>2
  <2>5. Number(t, m + 0) = Number(s, m + 0) + 1
    BY <2>2, <2>3, <2>4
  <2> QED BY <2>5
<1>2. ASSUME NEW j \in 0..((Len(s) - m) - 1), j \in S PROVE j + 1 \in S
  <2>1. m + (j + 1) \in 1..Len(s) /\ m + (j + 1) \in 1..Len(t) /\ (m + (j + 1)) - 1 = m + j
          /\ m + (j + 1) \in (m + 1)..Len(s)
    OBVIOUS
  <2>2. /\ Number(s, m + (j + 1)) = 256 * Number(s, m + j) + s[m + (j + 1)]
        /\ Number(t, m + (j + 1)) = 256 * Number(t, m + j) + t[m + (j + 1)]
    <3> DEFINE i == m + (j + 1)
    <3>1. i \in 1..Len(s) /\ i \in 1..Len(t) /\ i - 1 = m + j
      BY <2>1
    <3> HIDE DEF i
    <3>2. Number(s, i) = 256 * Number(s, i - 1) + s[i]
      BY Zenon, <3>1, NumberFacts
    <3>3. Number(t, i) = 256 * Number(t, i - 1) + t[i]
      BY Zenon, <3>1, NumberFacts
    <3>4. Number(s, i) = 256 * Number(s, m + j) + s[i] /\ Number(t, i) = 256 * Number(t, m + j) + t[i]
      BY <3>1, <3>2, <3>3
    <3> QED BY <3>4 DEF i
  <2>3. Number(s, m + j) \in Nat
    <3>1. m + j \in 0..Len(s)
      OBVIOUS
    <3> QED BY <3>1, NumberFacts
  <2>4. s[m + (j + 1)] = 255 /\ t[m + (j + 1)] = 0
    BY <2>1
  <2>5. Number(t, m + j) = Number(s, m + j) + 1
    BY <1>2
  <2>6. Number(t, m + (j + 1)) = Number(s, m + (j + 1)) + 1
    BY <2>2, <2>3, <2>4, <2>5
  <2>7. j + 1 \in 0..(Len(s) - m)
    OBVIOUS
  <2> QED BY <2>6, <2>7
<1>3. Len(s) - m \in S
  <2>1. Len(s) - m \in Nat
    OBVIOUS
  <2> HIDE DEF S
  <2>2. Reaches(S, Len(s) - m)
    BY <1>1, <1>2 DEF Reaches
  <2> QED BY <2>1, <2>2, UpTo
<1>4. m + (Len(s) - m) = Len(s)
  OBVIOUS
<1> QED BY <1>3, <1>4

(***************************************************************************)
(* The encoder                                                             *)
(***************************************************************************)

AByte == 0..255
Top(e) == Power(32 - e.bitsLeft)

(* The bytes written and held back, which only a carry may still change     *)
Held(e) == IF e.outstanding = 0 THEN <<>> ELSE <<e.buffered>> \o Fill(255, e.outstanding - 1)
Prefix(e) == e.bytes \o Held(e)
PrefixNumber(e) == Number(Prefix(e), Len(Prefix(e)))

(* The lower end of the interval that is coded, and how many bits it has    *)
Low(e) == PrefixNumber(e) * Top(e) + e.low
Bits(e) == 8 * (Len(e.bytes) + e.outstanding) + (32 - e.bitsLeft)

(* The interval ends where the prefix plus one would begin, or where the    *)
(* prefix plus two would if a carry still fits into the byte held back      *)
Roomy(e) ==
  /\ e \in [low : Nat, range : 1..510, buffered : AByte, outstanding : Nat, bitsLeft : 4..23, bytes : Seq(AByte)]
  /\ e.low + e.range <= 2 * Top(e)
  /\ e.buffered = 255 => e.low + e.range <= Top(e)
  /\ e.outstanding = 0 => e.buffered = 255 /\ e.bytes = <<>>

EncoderInv(e) == Roomy(e) /\ e.bitsLeft >= 12 /\ e.range >= 256

(* Fill repeats its byte.                                                   *)
LEMMA FillFacts == ASSUME NEW b \in AByte, NEW n \in Nat
  PROVE Fill(b, n) \in Seq(AByte) /\ Len(Fill(b, n)) = n /\ \A i \in 1..n : Fill(b, n)[i] = b
  BY DEF Fill

(* Bytes are numbers.                                                       *)
LEMMA BytesAreNumbers == ASSUME NEW s \in Seq(AByte) PROVE s \in Seq(Nat)
<1>1. \A i \in 1..Len(s) : s[i] \in AByte
  OBVIOUS
<1>a. AByte \subseteq Nat
  BY DEF AByte
<1>2. \A i \in 1..Len(s) : s[i] \in Nat
  BY <1>1, <1>a
<1> QED BY <1>2

(* What a prefix holds                                                      *)
LEMMA PrefixFacts ==
  ASSUME NEW e, Roomy(e)
  PROVE  /\ Prefix(e) \in Seq(AByte) /\ Len(Prefix(e)) = Len(e.bytes) + e.outstanding
         /\ e.outstanding = 0 => Prefix(e) = <<>>
         /\ e.outstanding > 0 => 
              /\ \A i \in 1..Len(e.bytes) : Prefix(e)[i] = e.bytes[i]
              /\ Prefix(e)[Len(e.bytes) + 1] = e.buffered
              /\ \A i \in (Len(e.bytes) + 2)..(Len(e.bytes) + e.outstanding) : Prefix(e)[i] = 255
<1>1. e.bytes \in Seq(AByte) /\ e.outstanding \in Nat /\ e.buffered \in AByte
  BY DEF Roomy
<1>2. CASE e.outstanding = 0
  BY <1>1, <1>2 DEF Prefix, Held, Roomy
<1>3. CASE e.outstanding > 0
  <2> DEFINE t == Fill(255, e.outstanding - 1)
             h == <<e.buffered>> \o t
             b == e.bytes
  <2>1. t \in Seq(AByte) /\ Len(t) = e.outstanding - 1 /\ \A i \in 1..(e.outstanding - 1) : t[i] = 255
    <3>1. e.outstanding - 1 \in Nat /\ 255 \in AByte
      BY <1>1, <1>3 DEF AByte
    <3> DEFINE n == e.outstanding - 1
           x == 255
    <3>a. n \in Nat
      BY <3>1
    <3>b. x \in AByte
      BY <3>1
    <3> HIDE DEF n, x
    <3>2. Fill(x, n) \in Seq(AByte) /\ Len(Fill(x, n)) = n /\ \A i \in 1..n : Fill(x, n)[i] = x
      BY <3>b, <3>a, FillFacts
    <3> QED BY <3>2 DEF n, x
  <2> HIDE DEF t
  <2>2. h \in Seq(AByte) /\ Len(h) = e.outstanding /\ h[1] = e.buffered
    BY <1>1, <1>3, <2>1
  <2>3. \A i \in 2..e.outstanding : h[i] = 255
    BY <1>1, <1>3, <2>1
  <2>4. Prefix(e) = b \o h
    <3>1. e.outstanding # 0
      BY <1>3
    <3>2. Held(e) = h
      BY <3>1 DEF Held, t
    <3> QED BY <3>2 DEF Prefix
  <2>5. b \in Seq(AByte)
    BY <1>1
  <2> HIDE DEF h, b
  <2>6. Len(b \o h) = Len(b) + e.outstanding /\ b \o h \in Seq(AByte)
    BY <2>2, <2>5
  <2>7. \A i \in 1..Len(b) : (b \o h)[i] = b[i]
    BY <2>2, <2>5
  <2>8. (b \o h)[Len(b) + 1] = e.buffered
    BY <2>2, <2>5, <1>1, <1>3
  <2>9. \A i \in (Len(b) + 2)..(Len(b) + e.outstanding) : (b \o h)[i] = 255
    <3> SUFFICES ASSUME NEW i \in (Len(b) + 2)..(Len(b) + e.outstanding) PROVE (b \o h)[i] = 255
      OBVIOUS
    <3>1. i - Len(b) \in 2..e.outstanding /\ i \in 1..(Len(b) + Len(h)) /\ i > Len(b)
      BY <1>1, <2>2, <2>5
    <3>2. (b \o h)[i] = h[i - Len(b)]
      BY <3>1, <2>2, <2>5
    <3> QED BY <3>1, <3>2, <2>3
  <2> QED BY <1>3, <2>4, <2>6, <2>7, <2>8, <2>9 DEF b
<1> QED BY <1>1, <1>2, <1>3

(* The number of a prefix is natural, and 0 where nothing is held back.     *)
LEMMA PrefixNumberFacts ==
  ASSUME NEW e, Roomy(e)
  PROVE  PrefixNumber(e) \in Nat /\ (e.outstanding = 0 => PrefixNumber(e) = 0)
<1>1. Prefix(e) \in Seq(Nat)
  <2>1. Prefix(e) \in Seq(AByte)
    BY PrefixFacts
  <2> QED BY <2>1, BytesAreNumbers
<1>2. PrefixNumber(e) \in Nat
  BY <1>1, NumberFacts DEF PrefixNumber
<1>3. CASE e.outstanding = 0
  <2>1. Prefix(e) = <<>> /\ Len(Prefix(e)) = 0
    BY <1>3, PrefixFacts
  <2>2. Number(Prefix(e), 0) = 0
    BY <1>1, NumberFacts
  <2> QED BY <1>2, <2>1, <2>2 DEF PrefixNumber
<1>4. e.outstanding \in Nat
  BY DEF Roomy
<1> QED BY <1>2, <1>3, <1>4

(* The bytes held back are released with their carry: as a number, the      *)
(* carry is added                                                           *)
LEMMA ReleasedNumber ==
  ASSUME NEW e, Roomy(e), e.outstanding > 0, NEW carry \in {0, 1}, e.buffered + carry <= 255
  PROVE  LET s == e.bytes \o Released(e, carry)
         IN /\ s \in Seq(AByte) /\ Len(s) = Len(Prefix(e))
            /\ Number(s, Len(s)) = PrefixNumber(e) + carry
<1>1. e.outstanding \in Nat /\ e.buffered \in 0..255
  BY DEF Roomy, AByte
<1>a. e.bytes \in Seq(AByte)
  BY DEF Roomy
<1> DEFINE b == e.bytes
           n == e.outstanding - 1
           c == e.buffered + carry
           x == (255 + carry) % 256
           t == Fill(x, n)
           h == <<c>> \o t
           s == b \o h
<1>2. s = e.bytes \o Released(e, carry)
  BY DEF Released
<1>3. x = (IF carry = 0 THEN 255 ELSE 0) /\ x \in AByte /\ c \in AByte /\ n \in Nat
  <2>1. 255 % 256 = 255 /\ 256 % 256 = 0
    OBVIOUS
  <2>2. x = IF carry = 0 THEN 255 ELSE 0
    <3>1. CASE carry = 0
      BY <2>1, <3>1
    <3>2. CASE carry = 1
      BY <2>1, <3>2
    <3> QED BY <3>1, <3>2
  <2> HIDE DEF x
  <2>3. x \in AByte
    BY <2>2 DEF AByte
  <2>4. c \in AByte /\ n \in Nat
    BY <1>1 DEF AByte
  <2> QED BY <2>2, <2>3, <2>4
<1>b. carry = 0 => c = e.buffered
  <2>1. e.buffered + 0 = e.buffered
    BY <1>1
  <2> QED BY <2>1
<1>4. t \in Seq(AByte) /\ Len(t) = n /\ \A i \in 1..n : t[i] = x
  <2> HIDE DEF x, n
  <2> QED BY <1>3, FillFacts
<1> HIDE DEF t, c, x
<1>5. h \in Seq(AByte) /\ Len(h) = e.outstanding /\ h[1] = c
  BY <1>1, <1>3, <1>4
<1>6. \A i \in 2..e.outstanding : h[i] = x
  BY <1>1, <1>3, <1>4
<1>7. b \in Seq(AByte)
  BY <1>a
<1> HIDE DEF h, b
<1>8. Len(s) = Len(b) + e.outstanding /\ s \in Seq(AByte)
  BY <1>5, <1>7
<1>9. \A i \in 1..Len(b) : s[i] = b[i]
  BY <1>5, <1>7
<1>10. s[Len(b) + 1] = c
  BY <1>1, <1>5, <1>7
<1>11. \A i \in (Len(b) + 2)..(Len(b) + e.outstanding) : s[i] = x
  <2> SUFFICES ASSUME NEW i \in (Len(b) + 2)..(Len(b) + e.outstanding) PROVE s[i] = x
    OBVIOUS
  <2>1. i - Len(b) \in 2..e.outstanding /\ i \in 1..(Len(b) + Len(h)) /\ i > Len(b)
    BY <1>1, <1>5, <1>7
  <2>2. (b \o h)[i] = h[i - Len(b)]
    BY <2>1, <1>5, <1>7
  <2> QED BY <2>1, <2>2, <1>6
<1> DEFINE p == Prefix(e)
<1>12. /\ p \in Seq(AByte) /\ Len(p) = Len(b) + e.outstanding
       /\ \A i \in 1..Len(b) : p[i] = b[i]
       /\ p[Len(b) + 1] = e.buffered
       /\ \A i \in (Len(b) + 2)..(Len(b) + e.outstanding) : p[i] = 255
  BY PrefixFacts DEF b
<1>13. p \in Seq(Nat) /\ s \in Seq(Nat)
  BY <1>8, <1>12, BytesAreNumbers
<1>14. Len(b) \in Nat
  BY <1>7
<1> HIDE DEF p, s
<1>15. CASE carry = 0
  <2>1. SameUpTo(s, p, Len(s))
    <3>1. \A i \in 1..Len(s) : s[i] = p[i]
      <4> SUFFICES ASSUME NEW i \in 1..Len(s) PROVE s[i] = p[i]
        OBVIOUS
      <4>1. i \in 1..Len(b) \/ i = Len(b) + 1 \/ i \in (Len(b) + 2)..(Len(b) + e.outstanding)
        BY <1>1, <1>8, <1>14
      <4>2. c = e.buffered /\ x = 255
        BY <1>3, <1>15, <1>b
      <4> QED BY <4>1, <4>2, <1>9, <1>10, <1>11, <1>12
    <3> QED BY <3>1, <1>8, <1>12, <1>14, <1>1 DEF SameUpTo
  <2>2. Number(s, Len(s)) = Number(p, Len(s))
    BY <1>13, <2>1, NumberOfPrefix
  <2>3. Number(p, Len(s)) \in Nat
    <3>1. Len(s) \in 0..Len(p)
      BY <1>8, <1>12, <1>14, <1>1
    <3> QED BY <3>1, <1>13, NumberFacts
  <2> QED BY <1>2, <1>8, <1>12, <1>15, <2>2, <2>3 DEF PrefixNumber, p
<1>16. CASE carry = 1
  <2> DEFINE m == Len(b) + 1
  <2>1. m \in 1..Len(p) /\ Len(s) = Len(p)
    BY <1>1, <1>8, <1>12, <1>14
  <2>2. \A i \in 1..(m - 1) : p[i] = s[i]
    BY <1>9, <1>12, <1>14
  <2>3. s[m] = p[m] + 1
    BY <1>10, <1>12, <1>16 DEF c
  <2>4. \A i \in (m + 1)..Len(p) : p[i] = 255 /\ s[i] = 0
    <3> SUFFICES ASSUME NEW i \in (m + 1)..Len(p) PROVE p[i] = 255 /\ s[i] = 0
      OBVIOUS
    <3>1. i \in (Len(b) + 2)..(Len(b) + e.outstanding)
      BY <1>12, <1>14
    <3>2. x = 0
      BY <1>3, <1>16
    <3> QED BY <3>1, <3>2, <1>11, <1>12
  <2> HIDE DEF m
  <2>5. Number(s, Len(p)) = Number(p, Len(p)) + 1
    BY <1>13, <2>1, <2>2, <2>3, <2>4, NumberCarry
  <2> QED BY <1>2, <1>8, <1>12, <1>16, <2>1, <2>5 DEF PrefixNumber, p
<1> QED BY <1>15, <1>16

CoderRec == [low : Nat, range : 1..510, buffered : AByte, outstanding : Nat, bitsLeft : 4..23,
             bytes : Seq(AByte)]

(* The room that is left, without the fields' types.                        *)
LEMMA RoomyFields ==
  ASSUME NEW e
  PROVE  Roomy(e) <=> /\ e \in CoderRec
                      /\ e.low + e.range <= 2 * Top(e)
                      /\ e.buffered = 255 => e.low + e.range <= Top(e)
                      /\ e.outstanding = 0 => e.buffered = 255 /\ e.bytes = <<>>
  BY DEF Roomy, CoderRec

(* The types of the fields.                                                 *)
LEMMA RoomyNumbers ==
  ASSUME NEW e, Roomy(e)
  PROVE  /\ e.low \in Nat /\ e.range \in 1..510 /\ e.buffered \in 0..255 /\ e.outstanding \in Nat
         /\ e.bitsLeft \in 4..23
         /\ Top(e) \in Nat \ {0}
<1>1. /\ e.low \in Nat /\ e.range \in 1..510 /\ e.buffered \in 0..255 /\ e.outstanding \in Nat
      /\ e.bitsLeft \in 4..23
  BY RoomyFields DEF CoderRec, AByte
<1>2. 32 - e.bitsLeft \in 0..31
  BY <1>1
<1>3. Top(e) \in Nat \ {0}
  BY <1>2, PowerNext DEF Top
<1> QED BY <1>1, <1>3

(* The bytes of the new prefix: one more, and the carry taken               *)
LEMMA PrefixNumberAppend ==
  ASSUME NEW f, Roomy(f), NEW s \in Seq(AByte), NEW b \in AByte, Prefix(f) = Append(s, b)
  PROVE  PrefixNumber(f) = 256 * Number(s, Len(s)) + b
<1>1. s \in Seq(Nat) /\ b \in Nat
  <2>1. AByte \subseteq Nat
    BY DEF AByte
  <2> QED BY <2>1, BytesAreNumbers
<1>2. Len(Append(s, b)) = Len(s) + 1
  OBVIOUS
<1> QED BY <1>1, <1>2, NumberAppend DEF PrefixNumber

(* The 8 bits and the carry that leave the register                         *)
Lead(e) == e.low \div Power(24 - e.bitsLeft)
Rest(e) == e.low % Power(24 - e.bitsLeft)

(* m_low splits into what leaves the register in writeOut and what stays;   *)
(* what leaves is 511 at most, and a carry comes only where the byte held   *)
(* back can take it.                                                        *)
LEMMA LeadFacts ==
  ASSUME NEW e, Roomy(e), e.bitsLeft <= 11
  PROVE  LET q == Power(24 - e.bitsLeft)
         IN /\ q \in Nat /\ q >= 8192 /\ Top(e) = 256 * q
            /\ Lead(e) \in 0..511 /\ Rest(e) \in 0..(q - 1)
            /\ e.low = Lead(e) * q + Rest(e)
            /\ e.buffered = 255 => Lead(e) <= 255
            /\ Rest(e) + e.range <= 2 * q
            /\ Lead(e) = 511 \/ (Lead(e) = 255 /\ e.buffered = 255) => Rest(e) + e.range <= q
<1> DEFINE q == Power(24 - e.bitsLeft)
           k == 24 - e.bitsLeft
<1>1. e.bitsLeft \in 4..11 /\ e.low \in Nat /\ e.range \in 1..510
  BY RoomyNumbers
<1>2. k \in 13..20
  BY <1>1
<1>3. q = Power(k) /\ q \in Nat \ {0}
  <2> HIDE DEF k
  <2>1. k \in 0..31
    BY <1>2
  <2>2. Power(k) \in Nat \ {0}
    BY <2>1, PowerNext
  <2> QED BY <2>2 DEF k
<1>4. q >= 8192
  <2>1. k = 13 \/ k = 14 \/ k = 15 \/ k = 16 \/ k = 17 \/ k = 18 \/ k = 19 \/ k = 20
    BY <1>2
  <2>2. q = Power(k)
    BY <1>3
  <2> HIDE DEF k, q
  <2> QED BY <2>1, <2>2, PowerTable
<1>5. Top(e) = 256 * q
  <2>1. 32 - e.bitsLeft = k + 8
    BY <1>1
  <2>2. k \in 0..23 /\ 8 \in 0..8
    BY <1>2
  <2>3. q = Power(k)
    BY <1>3
  <2>4. Top(e) = Power(k + 8)
    BY <2>1 DEF Top
  <2> HIDE DEF k, q
  <2>5. Power(k + 8) = Power(k) * Power(8)
    BY <2>2, PowerSum
  <2>6. Power(8) = 256
    BY PowerTable
  <2> QED BY <1>3, <2>3, <2>4, <2>5, <2>6
<1>6. e.low + e.range <= 512 * q /\ (e.buffered = 255 => e.low + e.range <= 256 * q)
  BY <1>1, <1>3, <1>5, RoomyFields
<1>7. Lead(e) = e.low \div q /\ Rest(e) = e.low % q
  BY DEF Lead, Rest
<1> DEFINE l == e.low
           d == e.low \div q
           r == e.low % q
<1>8. /\ d \in 0..511 /\ r \in 0..(q - 1) /\ l = d * q + r
      /\ e.buffered = 255 => d <= 255
      /\ r + e.range <= 2 * q
      /\ d = 511 \/ (d = 255 /\ e.buffered = 255) => r + e.range <= q
  <2>1. l \in Nat /\ q \in Nat \ {0}
    BY <1>1, <1>3
  <2>2. d = l \div q /\ r = l % q
    OBVIOUS
  <2> HIDE DEF q, l, d, r
  <2>3. d \in Nat /\ r \in 0..(q - 1) /\ l = d * q + r
    BY <2>1, <2>2
  <2>4. l < 512 * q /\ (e.buffered = 255 => l < 256 * q)
    BY <1>1, <1>6, <2>1 DEF l
  <2>5. d < 512 /\ (e.buffered = 255 => d < 256)
    <3>1. ASSUME d >= 512 PROVE FALSE
      <4>1. d * q >= 512 * q
        BY <2>1, <2>3, <3>1
      <4> QED BY <2>1, <2>3, <2>4, <4>1
    <3>2. ASSUME d >= 256, e.buffered = 255 PROVE FALSE
      <4>1. d * q >= 256 * q
        BY <2>1, <2>3, <3>2
      <4> QED BY <2>1, <2>3, <2>4, <3>2, <4>1
    <3> QED BY <2>3, <3>1, <3>2
  <2>6. r + e.range <= 2 * q
    BY <1>1, <1>4, <2>1, <2>3
  <2>7. ASSUME d = 511 \/ (d = 255 /\ e.buffered = 255) PROVE r + e.range <= q
    <3>1. d = 511 => d * q = 511 * q
      BY <2>1
    <3>2. d = 255 => d * q = 255 * q
      BY <2>1
    <3> QED BY <1>1, <1>6, <2>1, <2>3, <2>7, <3>1, <3>2 DEF l
  <2> QED BY <2>3, <2>5, <2>6, <2>7
<1>9. d = Lead(e) /\ r = Rest(e) /\ l = e.low
  BY <1>7
<1> HIDE DEF d, r, l, q
<1>10. /\ q \in Nat /\ q >= 8192 /\ Top(e) = 256 * q
       /\ Lead(e) \in 0..511 /\ Rest(e) \in 0..(q - 1)
       /\ e.low = Lead(e) * q + Rest(e)
  BY <1>3, <1>4, <1>5, <1>8, <1>9
<1>11. /\ e.buffered = 255 => Lead(e) <= 255
       /\ Rest(e) + e.range <= 2 * q
       /\ Lead(e) = 511 \/ (Lead(e) = 255 /\ e.buffered = 255) => Rest(e) + e.range <= q
  BY <1>8, <1>9
<1> QED BY <1>10, <1>11 DEF q

(* The state after a byte has left the register                             *)
Moved(e, f) ==
  /\ Roomy(f) /\ f.range = e.range /\ f.bitsLeft = e.bitsLeft + 8
  /\ Low(f) = Low(e) /\ Bits(f) = Bits(e)

(* The arithmetic of a byte that moves from the register to the prefix.     *)
LEMMA MovedNumbers ==
  ASSUME NEW n \in Nat, NEW l \in Nat, NEW q \in Nat, NEW r \in Nat
  PROVE  (256 * n + l) * q + r = n * (256 * q) + (l * q + r)
  OBVIOUS

(* A byte is added to the prefix, or the number of the prefix takes the     *)
(* carry and a byte                                                         *)
Grown(e, f, s, b) ==
  /\ f \in CoderRec /\ f.outstanding > 0
  /\ f.range = e.range /\ f.bitsLeft = e.bitsLeft + 8 /\ f.low = Rest(e)
  /\ f.buffered = 255 => Lead(e) = 511 \/ (Lead(e) = 255 /\ e.buffered = 255)
  /\ s \in Seq(AByte) /\ b \in AByte /\ Prefix(f) = Append(s, b)
  /\ 256 * Number(s, Len(s)) + b = 256 * PrefixNumber(e) + Lead(e)
  /\ Len(s) = Len(e.bytes) + e.outstanding

(* In each case of writeOut the interval stays where it is.                 *)
LEMMA GrownIsMoved ==
  ASSUME NEW e, Roomy(e), e.bitsLeft <= 11, NEW f, NEW s, NEW b, Grown(e, f, s, b)
  PROVE  Moved(e, f)
<1> DEFINE q == Power(24 - e.bitsLeft)
<1>1. /\ q \in Nat /\ q >= 8192 /\ Top(e) = 256 * q
      /\ Lead(e) \in 0..511 /\ Rest(e) \in 0..(q - 1)
      /\ e.low = Lead(e) * q + Rest(e)
  BY LeadFacts
<1>2. /\ Rest(e) + e.range <= 2 * q
      /\ Lead(e) = 511 \/ (Lead(e) = 255 /\ e.buffered = 255) => Rest(e) + e.range <= q
  BY LeadFacts
<1>3. e.bitsLeft \in 4..11 /\ e.outstanding \in Nat
  BY RoomyNumbers
<1>4. f.bitsLeft = e.bitsLeft + 8 /\ f.low = Rest(e) /\ f.range = e.range
  BY DEF Grown
<1>5. Top(f) = q
  <2>1. 32 - f.bitsLeft = 24 - e.bitsLeft
    BY <1>3, <1>4
  <2> QED BY <2>1 DEF Top
<1>6. f.low + f.range <= 2 * Top(f) /\ (f.buffered = 255 => f.low + f.range <= Top(f))
  <2>1. f.buffered = 255 => Lead(e) = 511 \/ (Lead(e) = 255 /\ e.buffered = 255)
    BY DEF Grown
  <2> QED BY <1>2, <1>4, <1>5, <2>1
<1>7. f \in CoderRec /\ f.outstanding # 0
  <2>1. f \in CoderRec /\ f.outstanding > 0
    BY DEF Grown
  <2>2. f.outstanding \in Nat
    BY <2>1 DEF CoderRec
  <2> QED BY <2>1, <2>2
<1>8. Roomy(f)
  BY <1>6, <1>7, RoomyFields
<1>9. PrefixNumber(f) = 256 * PrefixNumber(e) + Lead(e)
  <2>1. s \in Seq(AByte) /\ b \in AByte /\ Prefix(f) = Append(s, b)
    BY DEF Grown
  <2>2. PrefixNumber(f) = 256 * Number(s, Len(s)) + b
    BY <1>8, <2>1, PrefixNumberAppend
  <2> QED BY <2>2 DEF Grown
<1>10. Low(f) = Low(e)
  <2>1. PrefixNumber(e) \in Nat
    BY PrefixNumberFacts
  <2>2. Low(f) = (256 * PrefixNumber(e) + Lead(e)) * q + Rest(e)
    BY <1>4, <1>5, <1>9 DEF Low
  <2>3. Low(e) = PrefixNumber(e) * (256 * q) + (Lead(e) * q + Rest(e))
    BY <1>1 DEF Low
  <2> HIDE DEF q
  <2>4. Lead(e) \in Nat /\ Rest(e) \in Nat
    BY <1>1
  <2> QED BY <1>1, <2>1, <2>2, <2>3, <2>4, MovedNumbers
<1>11. Bits(f) = Bits(e)
  <2>1. Len(Prefix(f)) = Len(f.bytes) + f.outstanding
    BY <1>8, PrefixFacts
  <2>2. Len(Prefix(f)) = Len(s) + 1 /\ Len(s) = Len(e.bytes) + e.outstanding /\ Len(s) \in Nat
    BY DEF Grown
  <2> DEFINE n == Len(f.bytes) + f.outstanding
             m == Len(e.bytes) + e.outstanding
  <2>3. n = m + 1 /\ m \in Nat
    BY <2>1, <2>2
  <2>4. Bits(f) = 8 * n + (32 - f.bitsLeft) /\ Bits(e) = 8 * m + (32 - e.bitsLeft)
    BY DEF Bits
  <2> HIDE DEF n, m
  <2>5. 8 * n + (32 - f.bitsLeft) = 8 * m + (32 - e.bitsLeft)
    BY <1>3, <1>4, <2>3
  <2> QED BY <2>4, <2>5
<1> QED BY <1>4, <1>8, <1>10, <1>11 DEF Moved

(* One byte more of 255 held back                                           *)
WithFill(s, c, n) == s \o (<<c>> \o Fill(255, n))
Fillable(s, c, n) == s \in Seq(AByte) /\ c \in AByte /\ n \in Nat

LEMMA HeldGrows ==
  ASSUME NEW s, NEW c, NEW n, Fillable(s, c, n)
  PROVE  WithFill(s, c, n + 1) = Append(WithFill(s, c, n), 255)
<1>0. s \in Seq(AByte) /\ c \in AByte /\ n \in Nat
  BY DEF Fillable
<1> DEFINE t == Fill(255, n)
           u == Fill(255, n + 1)
<1>1. t \in Seq(AByte) /\ u \in Seq(AByte) /\ u = Append(t, 255)
  <2>1. 255 \in AByte
    BY DEF AByte
  <2>2. t \in Seq(AByte) /\ u \in Seq(AByte) 
    BY <1>0, <2>1 DEF Fill
  <2>3. u = Append(t, 255)
    BY <1>0 DEF Fill
  <2> QED BY <2>2, <2>3
<1> HIDE DEF t, u
<1>2. <<c>> \o u = Append(<<c>> \o t, 255)
  BY <1>0, <1>1
<1>3. <<c>> \o t \in Seq(AByte)
  BY <1>0, <1>1
<1> DEFINE h == <<c>> \o t
<1> HIDE DEF h
<1>4. 255 \in AByte
  BY DEF AByte
<1>5. s \o Append(h, 255) = Append(s \o h, 255)
  BY <1>0, <1>3, <1>4 DEF h
<1> QED BY <1>2, <1>5 DEF h, t, u, WithFill

(* The fields that change keep their types                                  *)
LEMMA Rewritten ==
  ASSUME NEW e \in CoderRec, NEW f, NEW bl \in 4..23, NEW r \in Nat, NEW o \in Nat, NEW b \in AByte,
         NEW s \in Seq(AByte),
         f = [e EXCEPT !.bitsLeft = bl, !.low = r, !.bytes = s, !.outstanding = o, !.buffered = b]
  PROVE  f \in CoderRec
<1> DEFINE S == Seq(AByte)
           R == 1..510
           L == 4..23
<1>1. e \in [low : Nat, range : R, buffered : AByte, outstanding : Nat, bitsLeft : L, bytes : S]
  BY DEF CoderRec
<1>2. s \in S /\ bl \in L
  OBVIOUS
<1> HIDE DEF S, R, L
<1>3. f = [low |-> r, range |-> e.range, buffered |-> b, outstanding |-> o, bitsLeft |-> bl, bytes |-> s]
  BY <1>1
<1>4. f \in [low : Nat, range : R, buffered : AByte, outstanding : Nat, bitsLeft : L, bytes : S]
  BY <1>1, <1>2, <1>3
<1> QED BY <1>4 DEF CoderRec, S, R, L

(* No bytes are held back behind the first.                                 *)
LEMMA FillNone == Fill(255, 0) = <<>>
  BY DEF Fill

(* writeOut does not move the interval, whichever of its branches it takes: *)
(* a byte of 255 is held back, another one releases those held back with    *)
(* the carry, the first one is kept.                                        *)
LEMMA WriteOutFacts ==
  ASSUME NEW e, Roomy(e), e.bitsLeft <= 11
  PROVE  Moved(e, WriteOut(e))
<1>1. /\ e.low \in Nat /\ e.range \in 1..510 /\ e.buffered \in 0..255 /\ e.outstanding \in Nat
      /\ e.bitsLeft \in 4..11
  BY RoomyNumbers
<1>2. e.bytes \in Seq(AByte) /\ e.buffered \in AByte /\ e \in CoderRec
  BY RoomyFields DEF CoderRec
<1>3. Lead(e) \in 0..511 /\ Rest(e) \in Nat /\ (e.buffered = 255 => Lead(e) <= 255)
  <2>1. Power(24 - e.bitsLeft) \in Nat
    BY LeadFacts
  <2> QED BY <2>1, LeadFacts
<1> DEFINE lead == Lead(e)
           bl == e.bitsLeft + 8
           r == Rest(e)
<1>4. WriteOut(e) = IF lead = 255 THEN [e EXCEPT !.bitsLeft = bl, !.low = r, !.outstanding = e.outstanding + 1]
                    ELSE IF e.outstanding > 0
                    THEN [e EXCEPT !.bitsLeft = bl, !.low = r,
                           !.bytes = e.bytes \o Released(e, lead \div 256), !.outstanding = 1,
                           !.buffered = lead % 256]
                    ELSE [e EXCEPT !.bitsLeft = bl, !.low = r, !.outstanding = 1, !.buffered = lead]
  <2> DEFINE f == [e EXCEPT !.bitsLeft = @ + 8, !.low = @ % 2^(24 - e.bitsLeft)]
  <2>1. Shr(e.low, 24 - e.bitsLeft) = lead /\ Shr(lead, 8) = lead \div 256
    <3>1. 2^8 = 256
      OBVIOUS
    <3> QED BY <3>1 DEF Shr, Lead, Power
  <2>2. f = [e EXCEPT !.bitsLeft = bl, !.low = r]
    BY DEF Rest, Power
  <2>3. f.outstanding = e.outstanding /\ f.bytes = e.bytes
    BY <1>2 DEF CoderRec
  <2>a. WriteOut(e) = IF Shr(e.low, 24 - e.bitsLeft) = 255 THEN [f EXCEPT !.outstanding = @ + 1]
                      ELSE IF e.outstanding > 0
                      THEN [f EXCEPT !.bytes = @ \o Released(e, Shr(Shr(e.low, 24 - e.bitsLeft), 8)),
                             !.outstanding = 1,
                                     !.buffered = Shr(e.low, 24 - e.bitsLeft) % 256]
                      ELSE [f EXCEPT !.outstanding = 1, !.buffered = Shr(e.low, 24 - e.bitsLeft)]
    BY Zenon DEF WriteOut
  <2> HIDE DEF f, lead
  <2>4. WriteOut(e) = IF lead = 255 THEN [f EXCEPT !.outstanding = @ + 1]
                      ELSE IF e.outstanding > 0
                      THEN [f EXCEPT !.bytes = @ \o Released(e, lead \div 256), !.outstanding = 1,
                             !.buffered = lead % 256]
                      ELSE [f EXCEPT !.outstanding = 1, !.buffered = lead]
    BY <2>1, <2>a
  <2> HIDE DEF lead, bl, r
  <2> QED BY <1>2, <2>2, <2>3, <2>4 DEF CoderRec
<1> DEFINE f == WriteOut(e)
<1>6. CASE lead = 255
  <2> DEFINE s == Prefix(e)
             b == 255
  <2>1. f = [e EXCEPT !.bitsLeft = bl, !.low = r, !.outstanding = e.outstanding + 1]
    BY <1>4, <1>6
  <2>2. bl \in 4..23 /\ r \in Nat /\ e.outstanding + 1 \in Nat
    BY <1>1, <1>3
  <2> HIDE DEF f, bl, r, lead
  <2>3. f \in CoderRec
    <3>1. f = [e EXCEPT !.bitsLeft = bl, !.low = r, !.bytes = e.bytes,
            !.outstanding = e.outstanding + 1, !.buffered = e.buffered]
      BY <1>2, <2>1 DEF CoderRec
    <3> DEFINE o == e.outstanding + 1
    <3>2. f = [e EXCEPT !.bitsLeft = bl, !.low = r, !.bytes = e.bytes, !.outstanding = o,
            !.buffered = e.buffered] /\ o \in Nat
      BY <3>1, <2>2
    <3> HIDE DEF o
    <3> QED BY <1>2, <2>2, <3>2, Rewritten
  <2>4. /\ f.range = e.range /\ f.bitsLeft = bl /\ f.low = r /\ f.outstanding = e.outstanding + 1
        /\ f.buffered = e.buffered /\ f.bytes = e.bytes
    BY <1>2, <2>1 DEF CoderRec
  <2>5. f.outstanding > 0 /\ f.outstanding # 0
    BY <1>1, <2>4
  <2>6. s \in Seq(AByte) /\ Len(s) = Len(e.bytes) + e.outstanding
    BY PrefixFacts
  <2>7. b \in AByte
    BY DEF AByte
  <2>8. Held(f) = <<e.buffered>> \o Fill(255, e.outstanding)
    <3>1. (e.outstanding + 1) - 1 = e.outstanding
      BY <1>1
    <3> QED BY <2>4, <2>5, <3>1 DEF Held
  <2>9. Prefix(f) = Append(s, b)
    <3>1. CASE e.outstanding = 0
      <4>1. s = <<>> /\ e.bytes = <<>> /\ e.buffered = 255
        BY <3>1, PrefixFacts, RoomyFields
      <4>2. Held(f) = <<255>>
        <5>1. <<255>> \o <<>> = <<255>>
          OBVIOUS
        <5>2. Fill(255, e.outstanding) = <<>>
          BY <3>1, FillNone
        <5>3. Held(f) = <<255>> \o <<>>
          BY <2>8, <4>1, <5>2
        <5> QED BY <5>1, <5>3
      <4>3. Prefix(f) = <<>> \o <<255>>
        BY <2>4, <4>1, <4>2 DEF Prefix
      <4>4. <<>> \o <<255>> = Append(<<>>, 255)
        OBVIOUS
      <4> QED BY <4>1, <4>3, <4>4
    <3>2. CASE e.outstanding > 0
      <4> DEFINE n == e.outstanding - 1
      <4>1. n \in Nat /\ n + 1 = e.outstanding /\ e.outstanding # 0
        BY <1>1, <3>2
      <4>2. Held(e) = <<e.buffered>> \o Fill(255, n)
        BY <4>1 DEF Held
      <4>3. s = e.bytes \o (<<e.buffered>> \o Fill(255, n))
        BY <4>2 DEF Prefix
      <4>4. Prefix(f) = e.bytes \o (<<e.buffered>> \o Fill(255, n + 1))
        BY <2>4, <2>8, <4>1 DEF Prefix
      <4> HIDE DEF n, s
      <4>5. e.bytes \o (<<e.buffered>> \o Fill(255, n + 1))
              = Append(e.bytes \o (<<e.buffered>> \o Fill(255, n)), 255)
        <5>1. n \in Nat
          BY <4>1
        <5>2. Fillable(e.bytes, e.buffered, n)
          BY <1>2, <5>1 DEF Fillable
        <5>3. WithFill(e.bytes, e.buffered, n + 1) = Append(WithFill(e.bytes, e.buffered, n), 255)
          BY <5>2, HeldGrows
        <5> QED BY <5>3 DEF WithFill
      <4> QED BY <4>3, <4>4, <4>5
    <3> QED BY <1>1, <3>1, <3>2
  <2>10. 256 * Number(s, Len(s)) + b = 256 * PrefixNumber(e) + Lead(e)
    BY <1>6 DEF PrefixNumber, lead
  <2>11. f.buffered = 255 => Lead(e) = 255 /\ e.buffered = 255
    BY <1>6, <2>4 DEF lead
  <2>12. f.bitsLeft = e.bitsLeft + 8 /\ f.low = Rest(e)
    BY <2>4 DEF bl, r
  <2> HIDE DEF s, b
  <2>13. Grown(e, f, s, b)
    BY <2>3, <2>4, <2>5, <2>6, <2>7, <2>9, <2>10, <2>11, <2>12 DEF Grown
  <2> QED BY <2>13, GrownIsMoved DEF f
<1>7. CASE lead # 255 /\ e.outstanding > 0
  <2> DEFINE carry == lead \div 256
             s == e.bytes \o Released(e, carry)
             b == lead % 256
  <2>1. carry \in {0, 1} /\ lead = 256 * carry + b /\ b \in 0..255 /\ (carry = 1 => e.buffered # 255)
          /\ (b = 255 => lead = 511)
    <3>1. lead \in 0..511
      BY <1>3
    <3>2. e.buffered = 255 => lead <= 255
      BY <1>3
    <3>3. lead # 255
      BY <1>7
    <3> HIDE DEF lead
    <3> QED BY <3>1, <3>2, <3>3
  <2>2. f = [e EXCEPT !.bitsLeft = bl, !.low = r, !.bytes = s, !.outstanding = 1, !.buffered = b]
    BY <1>4, <1>7
  <2>3. bl \in 4..23 /\ r \in Nat /\ b \in AByte
    BY <1>1, <1>3, <2>1 DEF AByte
  <2> HIDE DEF f, bl, r, lead, carry, b
  <2>4. e.buffered + carry <= 255
    BY <1>1, <2>1
  <2>5. s \in Seq(AByte) /\ Len(s) = Len(Prefix(e)) /\ Number(s, Len(s)) = PrefixNumber(e) + carry
    BY <1>7, <2>1, <2>4, ReleasedNumber
  <2> HIDE DEF s
  <2>6. f \in CoderRec
    <3>1. 1 \in Nat
      OBVIOUS
    <3> DEFINE o == 1
    <3>2. f = [e EXCEPT !.bitsLeft = bl, !.low = r, !.bytes = s, !.outstanding = o, !.buffered = b] /\ o \in Nat
      BY <2>2
    <3> HIDE DEF o
    <3> QED BY <1>2, <2>3, <2>5, <3>2, Rewritten
  <2>7. /\ f.range = e.range /\ f.bitsLeft = bl /\ f.low = r /\ f.outstanding = 1
        /\ f.buffered = b /\ f.bytes = s
    BY <1>2, <2>2 DEF CoderRec
  <2>8. Prefix(f) = Append(s, b)
    <3>1. Held(f) = <<b>> \o Fill(255, 1 - 1)
      BY <2>7 DEF Held
    <3>2. Held(f) = <<b>>
      <4>1. <<b>> \o <<>> = <<b>> /\ 1 - 1 = 0
        OBVIOUS
      <4> QED BY <3>1, <4>1, FillNone
    <3>3. s \o <<b>> = Append(s, b)
      BY <2>3, <2>5
    <3> QED BY <2>7, <3>2, <3>3 DEF Prefix
  <2>9. 256 * Number(s, Len(s)) + b = 256 * PrefixNumber(e) + Lead(e)
    <3>1. PrefixNumber(e) \in Nat
      BY PrefixNumberFacts
    <3>2. lead = 256 * carry + b /\ carry \in {0, 1} /\ b \in 0..255
      BY <2>1
    <3>3. Number(s, Len(s)) = PrefixNumber(e) + carry
      BY <2>5
    <3>4. 256 * (PrefixNumber(e) + carry) + b = 256 * PrefixNumber(e) + lead
      BY <3>1, <3>2
    <3> QED BY <3>3, <3>4 DEF lead
  <2>10. Len(s) = Len(e.bytes) + e.outstanding
    BY <2>5, PrefixFacts
  <2>11. f.buffered = 255 => Lead(e) = 511
    BY <2>1, <2>7 DEF lead
  <2>12. f.bitsLeft = e.bitsLeft + 8 /\ f.low = Rest(e) /\ f.outstanding > 0
    BY <2>7 DEF bl, r
  <2>13. Grown(e, f, s, b)
    BY <2>3, <2>5, <2>6, <2>7, <2>8, <2>9, <2>10, <2>11, <2>12 DEF Grown
  <2> QED BY <2>13, GrownIsMoved DEF f
<1>8. CASE lead # 255 /\ e.outstanding = 0
  <2>1. f = [e EXCEPT !.bitsLeft = bl, !.low = r, !.outstanding = 1, !.buffered = lead]
    BY <1>4, <1>8
  <2>2. e.buffered = 255 /\ e.bytes = <<>> /\ PrefixNumber(e) = 0
    BY <1>8, RoomyFields, PrefixNumberFacts
  <2>3. lead \in 0..254 /\ bl \in 4..23 /\ r \in Nat
    <3>1. lead \in 0..511 /\ lead <= 255 /\ lead # 255 /\ r \in Nat
      BY <1>3, <1>8, <2>2
    <3>2. bl \in 4..23
      BY <1>1
    <3> HIDE DEF lead, r
    <3> QED BY <3>1, <3>2
  <2>4. lead \in AByte
    BY <2>3 DEF AByte
  <2> HIDE DEF f, bl, r, lead
  <2>5. f \in CoderRec
    <3>1. f = [e EXCEPT !.bitsLeft = bl, !.low = r, !.bytes = e.bytes, !.outstanding = 1, !.buffered = lead]
      BY <1>2, <2>1 DEF CoderRec
    <3> DEFINE o == 1
    <3>2. f = [e EXCEPT !.bitsLeft = bl, !.low = r, !.bytes = e.bytes, !.outstanding = o,
            !.buffered = lead] /\ o \in Nat
      BY <3>1
    <3> HIDE DEF o
    <3> QED BY <1>2, <2>3, <2>4, <3>2, Rewritten
  <2>6. /\ f.range = e.range /\ f.bitsLeft = bl /\ f.low = r /\ f.outstanding = 1
        /\ f.buffered = lead /\ f.bytes = <<>>
    BY <1>2, <2>1, <2>2 DEF CoderRec
  <2> DEFINE s == <<>>
  <2>7. Prefix(f) = Append(s, lead)
    <3>1. Held(f) = <<lead>> \o Fill(255, 1 - 1)
      BY <2>6 DEF Held
    <3>2. Held(f) = <<lead>>
      <4>1. <<lead>> \o <<>> = <<lead>> /\ 1 - 1 = 0
        OBVIOUS
      <4> QED BY <3>1, <4>1, FillNone
    <3>3. <<>> \o <<lead>> = Append(<<>>, lead)
      OBVIOUS
    <3> QED BY <2>6, <3>2, <3>3 DEF Prefix
  <2>8. s \in Seq(AByte) /\ Len(s) = 0 /\ s \in Seq(Nat) /\ Len(e.bytes) = 0
    BY <2>2
  <2> HIDE DEF s
  <2>9. 256 * Number(s, Len(s)) + lead = 256 * PrefixNumber(e) + Lead(e)
    <3>1. Number(s, Len(s)) = 0
      BY <2>8, NumberFacts
    <3> QED BY <2>2, <3>1 DEF lead
  <2>10. Len(s) = Len(e.bytes) + e.outstanding
    BY <1>8, <2>8
  <2>11. f.buffered # 255
    BY <2>3, <2>6
  <2>12. f.bitsLeft = e.bitsLeft + 8 /\ f.low = Rest(e) /\ f.outstanding > 0
    BY <2>6 DEF bl, r
  <2>13. Grown(e, f, s, lead)
    BY <2>4, <2>5, <2>6, <2>7, <2>8, <2>9, <2>10, <2>11, <2>12 DEF Grown
  <2> QED BY <2>13, GrownIsMoved DEF f
<1>9. e.outstanding = 0 \/ e.outstanding > 0
  BY <1>1
<1> QED BY <1>6, <1>7, <1>8, <1>9

(* The interval after a symbol: a part of the one before, in finer steps    *)
Narrowed(e, f, n, add, range) ==
  EncoderInv(f) /\ f.range = range /\ Low(f) = Low(e) * Power(n) + add /\ Bits(f) = Bits(e) + n

WithRegister(e, l, r, bl) == [e EXCEPT !.low = l, !.range = r, !.bitsLeft = bl]
Lower(e, n, add, range) == WithRegister(e, e.low * Power(n) + add, range, e.bitsLeft - n)

Registers(l, r, bl) == l \in Nat /\ r \in 1..510 /\ bl \in 4..23

(* The fields of an encoder whose register has been replaced.               *)
LEMMA LowerFields ==
  ASSUME NEW e \in CoderRec, NEW l, NEW r, NEW bl, Registers(l, r, bl)
  PROVE  LET f == WithRegister(e, l, r, bl)
         IN /\ f \in CoderRec /\ f.low = l /\ f.range = r /\ f.bitsLeft = bl
            /\ f.buffered = e.buffered /\ f.outstanding = e.outstanding /\ f.bytes = e.bytes
<1> DEFINE f == WithRegister(e, l, r, bl)
<1>0. f = [e EXCEPT !.low = l, !.range = r, !.bitsLeft = bl]
  BY DEF WithRegister
<1> DEFINE S == Seq(AByte)
           R == 1..510
           L == 4..23
<1>1. e \in [low : Nat, range : R, buffered : AByte, outstanding : Nat, bitsLeft : L, bytes : S]
  BY DEF CoderRec
<1>2. l \in Nat /\ r \in R /\ bl \in L
  BY DEF Registers
<1> HIDE DEF S, R, L, f
<1>3. f = [low |-> l, range |-> r, buffered |-> e.buffered, outstanding |-> e.outstanding,
        bitsLeft |-> bl, bytes |-> e.bytes]
  BY <1>0, <1>1
<1>4. f \in [low : Nat, range : R, buffered : AByte, outstanding : Nat, bitsLeft : L, bytes : S]
  BY <1>1, <1>2, <1>3
<1>5. /\ f.low = l /\ f.range = r /\ f.bitsLeft = bl
      /\ f.buffered = e.buffered /\ f.outstanding = e.outstanding /\ f.bytes = e.bytes
  BY <1>3
<1>6. f \in CoderRec
  BY <1>4 DEF CoderRec, S, R, L
<1> QED BY <1>5, <1>6 DEF f

(* What is narrowed lies in what was there                                  *)
Within(e, n, add, range) == n \in 0..8 /\ add \in Nat /\ range \in 256..510 /\ add + range <= e.range * Power(n)

(* A register that has been narrowed and shifted stands for the narrower    *)
(* interval.                                                                *)
LEMMA LowerFacts ==
  ASSUME NEW e, EncoderInv(e), NEW n, NEW add, NEW range, Within(e, n, add, range)
  PROVE  LET f == Lower(e, n, add, range)
         IN /\ Roomy(f) /\ f.range = range /\ f.bitsLeft = e.bitsLeft - n
            /\ Low(f) = Low(e) * Power(n) + add /\ Bits(f) = Bits(e) + n
<1>1. e.low \in Nat /\ e.range \in 256..510 /\ e.bitsLeft \in 12..23 /\ e.outstanding \in Nat /\ Roomy(e)
  BY RoomyNumbers DEF EncoderInv
<1>2. n \in 0..8 /\ add \in Nat /\ range \in 256..510 /\ add + range <= e.range * Power(n)
  BY DEF Within
<1>3. Power(n) \in Nat
  <2>1. n \in 0..31
    BY <1>2
  <2> QED BY <2>1, PowerNext
<1> DEFINE f == Lower(e, n, add, range)
           l == e.low * Power(n) + add
           bl == e.bitsLeft - n
<1>4. l \in Nat /\ bl \in 4..23 /\ range \in 1..510
  BY <1>1, <1>2, <1>3
<1>5. e \in CoderRec
  BY <1>1, RoomyFields
<1>a. f = WithRegister(e, l, range, bl)
  BY DEF Lower
<1> HIDE DEF f, l, bl
<1>6. /\ f \in CoderRec /\ f.low = l /\ f.range = range /\ f.bitsLeft = bl
      /\ f.buffered = e.buffered /\ f.outstanding = e.outstanding /\ f.bytes = e.bytes
  <2> DEFINE g == WithRegister(e, l, range, bl)
  <2>1. /\ g \in CoderRec /\ g.low = l /\ g.range = range /\ g.bitsLeft = bl
        /\ g.buffered = e.buffered /\ g.outstanding = e.outstanding /\ g.bytes = e.bytes
    <3>1. Registers(l, range, bl)
      BY <1>4 DEF Registers
    <3> QED BY <1>5, <3>1, LowerFields
  <2> HIDE DEF g
  <2>2. f = g
    BY <1>a DEF g
  <2> QED BY <2>1, <2>2
<1>7. Top(f) = Top(e) * Power(n) /\ Top(e) \in Nat
  <2> DEFINE k == 32 - e.bitsLeft
  <2>1. k \in 0..23 /\ 32 - f.bitsLeft = k + n
    BY <1>1, <1>2, <1>6 DEF bl
  <2>2. Top(f) = Power(k + n) /\ Top(e) = Power(k)
    BY <2>1 DEF Top
  <2> HIDE DEF k
  <2>3. Power(k + n) = Power(k) * Power(n)
    BY <1>2, <2>1, PowerSum
  <2> QED BY <1>1, <2>2, <2>3, RoomyNumbers
<1>8. e.low + e.range <= 2 * Top(e) /\ (e.buffered = 255 => e.low + e.range <= Top(e))
  BY <1>1, RoomyFields
<1>9. f.low + f.range <= 2 * Top(f) /\ (f.buffered = 255 => f.low + f.range <= Top(f))
  <2> DEFINE p == Power(n)
             t == Top(e)
             el == e.low
             er == e.range
  <2>1. p \in Nat /\ t \in Nat /\ el \in Nat /\ er \in Nat /\ add \in Nat /\ range \in Nat
    BY <1>1, <1>2, <1>3, <1>7
  <2>2. add + range <= er * p
    BY <1>2
  <2>3. f.low + f.range = (el * p + add) + range /\ Top(f) = t * p
    BY <1>6, <1>7 DEF l
  <2>4. el + er <= 2 * t /\ (e.buffered = 255 => el + er <= t)
    BY <1>8
  <2> HIDE DEF p, t, el, er
  <2>5. el * p + er * p = (el + er) * p
    BY <2>1
  <2>6. (el * p + add) + range <= (el + er) * p
    BY <2>1, <2>2, <2>5
  <2>7. (el + er) * p <= 2 * (t * p)
    <3>1. (el + er) * p <= (2 * t) * p
      BY <2>1, <2>4
    <3> QED BY <2>1, <3>1
  <2>8. e.buffered = 255 => (el + er) * p <= t * p
    BY <2>1, <2>4
  <2> DEFINE lr == (el * p + add) + range
             s == (el + er) * p
             tp == t * p
  <2>9. lr \in Nat /\ s \in Nat /\ tp \in Nat
    BY <2>1
  <2>10. lr <= s /\ s <= 2 * tp /\ (e.buffered = 255 => s <= tp) /\ f.low + f.range = lr /\ Top(f) = tp
    BY <2>3, <2>6, <2>7, <2>8
  <2> HIDE DEF lr, s, tp
  <2>11. lr <= 2 * tp /\ (e.buffered = 255 => lr <= tp)
    BY <2>9, <2>10
  <2> QED BY <1>6, <2>10, <2>11
<1>10. Roomy(f)
  <2>1. e.outstanding = 0 => e.buffered = 255 /\ e.bytes = <<>>
    BY <1>1, RoomyFields
  <2> QED BY <1>6, <1>9, <2>1, RoomyFields
<1>11. Prefix(f) = Prefix(e)
  BY <1>6 DEF Prefix, Held
<1>12. Low(f) = Low(e) * Power(n) + add
  <2> DEFINE p == Power(n)
             t == Top(e)
             pn == PrefixNumber(e)
  <2>1. pn \in Nat /\ p \in Nat /\ t \in Nat
    BY <1>1, <1>3, <1>7, PrefixNumberFacts
  <2>2. PrefixNumber(f) = pn
    BY <1>11 DEF PrefixNumber
  <2>3. Low(f) = pn * (t * p) + (e.low * p + add) /\ Low(e) = pn * t + e.low
    BY <1>6, <1>7, <2>2 DEF Low, l
  <2>4. e.low \in Nat /\ add \in Nat
    BY <1>1, <1>2
  <2> HIDE DEF p, t, pn
  <2>5. pn * (t * p) + (e.low * p + add) = (pn * t + e.low) * p + add
    BY <2>1, <2>4
  <2> QED BY <2>3, <2>5 DEF p
<1>13. Bits(f) = Bits(e) + n
  <2> DEFINE m == 8 * (Len(e.bytes) + e.outstanding)
  <2>1. m \in Nat
    <3>1. Len(e.bytes) \in Nat
      BY <1>5 DEF CoderRec
    <3> QED BY <1>1, <3>1
  <2>2. Bits(f) = m + (32 - (e.bitsLeft - n)) /\ Bits(e) = m + (32 - e.bitsLeft)
    BY <1>6 DEF Bits, bl
  <2> HIDE DEF m
  <2>3. m + (32 - (e.bitsLeft - n)) = (m + (32 - e.bitsLeft)) + n
    BY <1>1, <1>2, <2>1
  <2> QED BY <2>2, <2>3
<1> QED BY <1>6, <1>10, <1>12, <1>13 DEF f, bl

(* So does it after the byte that is full has been written out.             *)
LEMMA NarrowFacts ==
  ASSUME NEW e, EncoderInv(e), NEW n, NEW add, NEW range, Within(e, n, add, range),
         NEW f, f = Lower(e, n, add, range)
  PROVE  Narrowed(e, IF f.bitsLeft < 12 THEN WriteOut(f) ELSE f, n, add, range)
<1>1. /\ Roomy(f) /\ f.range = range /\ f.bitsLeft = e.bitsLeft - n
      /\ Low(f) = Low(e) * Power(n) + add /\ Bits(f) = Bits(e) + n
  BY LowerFacts
<1>2. f.bitsLeft \in 4..23 /\ range \in 256..510
  BY <1>1, RoomyNumbers DEF Within
<1>3. CASE f.bitsLeft < 12
  <2>1. f.bitsLeft <= 11
    BY <1>2, <1>3
  <2>2. Moved(f, WriteOut(f))
    BY <1>1, <2>1, WriteOutFacts
  <2>3. WriteOut(f).bitsLeft >= 12 /\ WriteOut(f).range >= 256
    BY <1>1, <1>2, <2>2 DEF Moved
  <2> QED BY <1>1, <1>3, <2>2, <2>3 DEF Moved, Narrowed, EncoderInv
<1>4. CASE ~(f.bitsLeft < 12)
  <2>1. f.bitsLeft >= 12 /\ f.range >= 256
    BY <1>1, <1>2, <1>4
  <2> QED BY <1>1, <1>4, <2>1 DEF Narrowed, EncoderInv
<1> QED BY <1>3, <1>4

(* One symbol narrows the interval                                          *)
Narrows(e, f, n, add, range) == Within(e, n, add, range) /\ Narrowed(e, f, n, add, range)

(* Between two symbols the range is 256 to 510.                             *)
LEMMA RangeFacts == ASSUME NEW e, EncoderInv(e) PROVE e.range \in 256..510 /\ e.low \in Nat
  BY RoomyNumbers DEF EncoderInv

(* The shift at the end of encodeBin and encodeBinTrm narrows the interval. *)
LEMMA ShiftedFacts ==
  ASSUME NEW e, EncoderInv(e), NEW sub, NEW r, NEW n, sub \in Nat, Within(e, n, sub * Power(n), r * Power(n))
  PROVE  Narrows(e, Shifted(e, e.low + sub, r, n), n, sub * Power(n), r * Power(n))
<1> DEFINE f == Lower(e, n, sub * Power(n), r * Power(n))
           l == Shl(e.low + sub, n)
           rr == Shl(r, n)
<1>1. l = e.low * Power(n) + sub * Power(n)
  <2>1. e.low \in Nat
    BY RangeFacts
  <2>2. n \in 0..31
    BY DEF Within
  <2>3. Power(n) \in Nat
    BY <2>2, PowerNext
  <2>4. (e.low + sub) * Power(n) = e.low * Power(n) + sub * Power(n)
    BY <2>1, <2>3
  <2> QED BY <2>4 DEF Shl, Power
<1>2. rr = r * Power(n)
  BY DEF Shl, Power
<1>3. f = [e EXCEPT !.low = l, !.range = rr, !.bitsLeft = e.bitsLeft - n]
  BY <1>1, <1>2 DEF Lower, WithRegister
<1>4. Shifted(e, e.low + sub, r, n) = IF f.bitsLeft < 12 THEN WriteOut(f) ELSE f
  <2> DEFINE g == [e EXCEPT !.low = Shl(e.low + sub, n), !.range = Shl(r, n), !.bitsLeft = @ - n]
  <2>1. Shifted(e, e.low + sub, r, n) = IF g.bitsLeft < 12 THEN WriteOut(g) ELSE g
    BY Zenon DEF Shifted
  <2>2. f = g
    BY <1>3
  <2> HIDE DEF f, g
  <2> QED BY <2>1, <2>2
<1> HIDE DEF f
<1>5. Narrowed(e, IF f.bitsLeft < 12 THEN WriteOut(f) ELSE f, n, sub * Power(n), r * Power(n))
  BY NarrowFacts DEF f
<1> QED BY <1>4, <1>5 DEF Narrows

(* A range that needs no shift                                              *)
LEMMA KeptFacts ==
  ASSUME NEW e, EncoderInv(e), NEW r, Within(e, 0, 0, r)
  PROVE  Narrows(e, [e EXCEPT !.range = r], 0, 0, r)
<1> DEFINE f == Lower(e, 0, 0, r)
<1>1. f = [e EXCEPT !.range = r]
  <2>1. e \in CoderRec /\ e.bitsLeft \in 12..23 /\ e.low \in Nat
    <3>1. Roomy(e) /\ e.bitsLeft >= 12
      BY DEF EncoderInv
    <3>2. e \in CoderRec
      BY <3>1, RoomyFields
    <3>3. e.bitsLeft \in 4..23 /\ e.low \in Nat
      BY <3>1, RoomyNumbers
    <3>4. e.bitsLeft \in 12..23
      BY <3>1, <3>3
    <3> QED BY <3>2, <3>3, <3>4
  <2>2. e.low * Power(0) + 0 = e.low /\ e.bitsLeft - 0 = e.bitsLeft
    BY <2>1, PowerTable
  <2>3. f = [e EXCEPT !.low = e.low, !.range = r, !.bitsLeft = e.bitsLeft]
    BY <2>2 DEF Lower, WithRegister
  <2> HIDE DEF f
  <2> QED BY <2>1, <2>3 DEF CoderRec
<1>2. Roomy(f) /\ f.range = r /\ f.bitsLeft = e.bitsLeft - 0 /\ Low(f) = Low(e) * Power(0) + 0
        /\ Bits(f) = Bits(e) + 0
  BY LowerFacts
<1>3. f.bitsLeft >= 12 /\ f.range >= 256
  <2>1. e.bitsLeft \in 12..23
    BY RoomyNumbers DEF EncoderInv
  <2>2. r >= 256
    BY DEF Within
  <2> QED BY <1>2, <2>1, <2>2
<1> HIDE DEF f
<1>4. Narrowed(e, f, 0, 0, r)
  BY <1>2, <1>3 DEF Narrowed, EncoderInv
<1> QED BY <1>1, <1>4 DEF Narrows

(* The range of a less probable bin, and its shift                          *)
LEMMA LpsFacts ==
  ASSUME NEW range \in 256..510, NEW s, s.q \in 0..31
  PROVE  Lps(range, s) \in 4..236 /\ range - Lps(range, s) >= 128
<1> DEFINE x == range \div 32
           q == s.q
           y == (q * x) \div 2
<1>1. Lps(range, s) = y + 4
  <2>1. 2^5 = 32 /\ 2^1 = 2
    OBVIOUS
  <2> QED BY <2>1 DEF Lps, Shr
<1>2. x \in 8..15 /\ 32 * x <= range
  OBVIOUS
<1>3. q \in 0..31
  OBVIOUS
<1> HIDE DEF x, q
<1>4. q * x \in Nat /\ q * x <= 31 * x
  BY <1>2, <1>3
<1>5. y \in Nat /\ 2 * y <= 31 * x
  BY <1>2, <1>4
<1> HIDE DEF y
<1>6. y + 4 \in 4..236
  BY <1>2, <1>5
<1>7. range - (y + 4) >= 128
  BY <1>2, <1>5
<1> QED BY <1>1, <1>6, <1>7

(* The renormalisation shift of a less probable bin, 1 to 6 bits, brings    *)
(* its range back to 256 to 510.                                            *)
LEMMA RenormFacts ==
  ASSUME NEW lps \in 4..236
  PROVE  RenormBits(lps) \in 1..6 /\ lps * Power(RenormBits(lps)) \in 256..510
<1> DEFINE R(n) == Shl(lps, n) >= 256 /\ (n = 0 \/ Shl(lps, n - 1) < 256)
<1>1. /\ lps * Power(0) = lps /\ lps * Power(1) = 2 * lps /\ lps * Power(2) = 4 * lps
      /\ lps * Power(3) = 8 * lps
      /\ lps * Power(4) = 16 * lps /\ lps * Power(5) = 32 * lps /\ lps * Power(6) = 64 * lps
  BY PowerTable
<1>2. \A n : Shl(lps, n) = lps * Power(n)
  BY DEF Shl, Power
<1>3. \E n \in 0..6 : R(n)
  <2>1. CASE lps \in 4..7
    <3>1. lps * Power(6) >= 256 /\ lps * Power(6 - 1) < 256
      BY <1>1, <2>1
    <3>2. R(6)
      BY <1>2, <3>1
    <3> QED BY <3>2
  <2>2. CASE lps \in 8..15
    <3>1. lps * Power(5) >= 256 /\ lps * Power(5 - 1) < 256
      BY <1>1, <2>2
    <3>2. R(5)
      BY <1>2, <3>1
    <3> QED BY <3>2
  <2>3. CASE lps \in 16..31
    <3>1. lps * Power(4) >= 256 /\ lps * Power(4 - 1) < 256
      BY <1>1, <2>3
    <3>2. R(4)
      BY <1>2, <3>1
    <3> QED BY <3>2
  <2>4. CASE lps \in 32..63
    <3>1. lps * Power(3) >= 256 /\ lps * Power(3 - 1) < 256
      BY <1>1, <2>4
    <3>2. R(3)
      BY <1>2, <3>1
    <3> QED BY <3>2
  <2>5. CASE lps \in 64..127
    <3>1. lps * Power(2) >= 256 /\ lps * Power(2 - 1) < 256
      BY <1>1, <2>5
    <3>2. R(2)
      BY <1>2, <3>1
    <3> QED BY <3>2
  <2>6. CASE lps \in 128..236
    <3>1. lps * Power(1) >= 256 /\ lps * Power(1 - 1) < 256
      BY <1>1, <2>6
    <3>2. R(1)
      BY <1>2, <3>1
    <3> QED BY <3>2
  <2> QED BY <2>1, <2>2, <2>3, <2>4, <2>5, <2>6
<1> DEFINE b == RenormBits(lps)
<1>4. b \in 0..6 /\ R(b)
  <2>1. b = CHOOSE n \in 0..6 : R(n)
    BY DEF RenormBits
  <2> HIDE DEF R, b
  <2> QED BY <1>3, <2>1
<1>5. lps * Power(b) >= 256 /\ (b = 0 \/ lps * Power(b - 1) < 256)
  BY <1>2, <1>4
<1> HIDE DEF b, R
<1>6. b # 0
  <2>1. lps * Power(0) < 256
    BY <1>1
  <2> SUFFICES ASSUME b = 0 PROVE FALSE
    OBVIOUS
  <2>2. lps * Power(0) >= 256
    BY <1>5
  <2> QED BY <1>1, <2>1, <2>2
<1>7. b \in 1..6 /\ lps * Power(b) = 2 * (lps * Power(b - 1))
  <2>1. b \in 1..6 /\ b - 1 \in 0..31 /\ (b - 1) + 1 = b
    BY <1>4, <1>6
  <2>2. Power(b) = 2 * Power(b - 1) /\ Power(b - 1) \in Nat
    BY <2>1, PowerNext
  <2> QED BY <2>1, <2>2
<1>8. lps * Power(b - 1) \in Nat
  <2>1. b - 1 \in 0..31
    BY <1>7
  <2>2. Power(b - 1) \in Nat
    BY <2>1, PowerNext
  <2> QED BY <2>2
<1> DEFINE h == lps * Power(b - 1)
           w == lps * Power(b)
<1>9. h \in Nat /\ w = 2 * h /\ w >= 256 /\ h < 256
  BY <1>5, <1>6, <1>7, <1>8
<1> HIDE DEF h, w
<1>10. w \in 256..510
  BY <1>9
<1> QED BY <1>7, <1>10 DEF b, w

(* A shift by one without a change of the lower end                         *)
LEMMA DoubledFacts ==
  ASSUME NEW e, EncoderInv(e), NEW r, r \in 128..255, r <= e.range
  PROVE  Narrows(e, Shifted(e, e.low, r, 1), 1, 0, 2 * r)
<1>1. e.range \in 256..510 /\ e.low \in Nat
  BY RangeFacts
<1>2. Power(1) = 2
  BY PowerTable
<1>3. 0 * Power(1) = 0 /\ r * Power(1) = 2 * r /\ e.low + 0 = e.low
  BY <1>1, <1>2
<1>4. Within(e, 1, 0, 2 * r)
  BY <1>1, <1>2 DEF Within
<1> DEFINE z == 0
           n == 1
<1>5. Within(e, n, z * Power(n), r * Power(n)) /\ z \in Nat
  BY <1>3, <1>4
<1> HIDE DEF z, n
<1>6. Narrows(e, Shifted(e, e.low + z, r, n), n, z * Power(n), r * Power(n))
  BY <1>5, ShiftedFacts
<1> QED BY <1>3, <1>6 DEF z, n

(* A bin with a context: the less probable one takes the upper part         *)
LEMMA BinNarrows ==
  ASSUME NEW e, EncoderInv(e), NEW s, s.q \in 0..31
  PROVE  LET lps == Lps(e.range, s)
             r == e.range - lps
             n == RenormBits(lps)
         IN /\ lps \in 4..236 /\ r \in 128..506 /\ n \in 1..6 /\ lps * Power(n) \in 256..510
            /\ s.val # s.mps => Narrows(e, EncodeBin(e, s), n, r * Power(n), lps * Power(n))
            /\ s.val = s.mps /\ r < 256 => Narrows(e, EncodeBin(e, s), 1, 0, 2 * r)
            /\ s.val = s.mps /\ r >= 256 => Narrows(e, EncodeBin(e, s), 0, 0, r)
<1> DEFINE lps == Lps(e.range, s)
           r == e.range - lps
           n == RenormBits(lps)
<1>1. e.range \in 256..510 /\ e.low \in Nat
  BY RangeFacts
<1>2. lps \in 4..236 /\ r >= 128
  BY <1>1, LpsFacts
<1>3. EncodeBin(e, s) = IF s.val # s.mps THEN Shifted(e, e.low + r, lps, n)
                        ELSE IF r < 256 THEN Shifted(e, e.low, r, 1) ELSE [e EXCEPT !.range = r]
  BY Zenon DEF EncodeBin
<1> HIDE DEF lps
<1>4. n \in 1..6 /\ lps * Power(n) \in 256..510
  BY <1>2, RenormFacts
<1>5. r \in 128..506 /\ r + lps = e.range
  <2> DEFINE x == e.range
  <2>1. x \in 256..510 /\ lps \in 4..236 /\ x - lps >= 128
    BY <1>1, <1>2
  <2> HIDE DEF x
  <2>2. x - lps \in 128..506 /\ (x - lps) + lps = x
    BY <2>1
  <2> QED BY <2>2 DEF x
<1> HIDE DEF r, n
<1>6. s.val # s.mps => Narrows(e, Shifted(e, e.low + r, lps, n), n, r * Power(n), lps * Power(n))
  <2>1. n \in 0..8 /\ n \in 0..31
    BY <1>4
  <2>2. Power(n) \in Nat
    BY <2>1, PowerNext
  <2>3. r * Power(n) + lps * Power(n) = e.range * Power(n) /\ r * Power(n) \in Nat
    <3>1. r * Power(n) + lps * Power(n) = (r + lps) * Power(n) /\ r * Power(n) \in Nat
      BY <1>2, <1>5, <2>2
    <3> QED BY <1>5, <3>1
  <2>4. r * Power(n) + lps * Power(n) <= e.range * Power(n)
    <3>1. e.range * Power(n) \in Nat
      BY <1>1, <2>2
    <3> QED BY <2>3, <3>1
  <2>5. Within(e, n, r * Power(n), lps * Power(n)) /\ r \in Nat
    BY <1>4, <1>5, <2>1, <2>3, <2>4 DEF Within
  <2> QED BY <2>5, ShiftedFacts
<1>7. r < 256 => Narrows(e, Shifted(e, e.low, r, 1), 1, 0, 2 * r)
  <2> SUFFICES ASSUME r < 256 PROVE Narrows(e, Shifted(e, e.low, r, 1), 1, 0, 2 * r)
    OBVIOUS
  <2>1. r \in 128..255 /\ r <= e.range
    BY <1>1, <1>2, <1>5
  <2> QED BY <2>1, DoubledFacts
<1>8. r >= 256 => Narrows(e, [e EXCEPT !.range = r], 0, 0, r)
  <2> SUFFICES ASSUME r >= 256 PROVE Narrows(e, [e EXCEPT !.range = r], 0, 0, r)
    OBVIOUS
  <2>1. 0 + r <= e.range * Power(0) /\ r \in 256..510
    BY <1>1, <1>2, <1>5, PowerTable
  <2>2. Within(e, 0, 0, r)
    BY <2>1 DEF Within
  <2> QED BY <2>2, KeptFacts
<1>9. r >= 256 => ~(r < 256)
  BY <1>5
<1> QED BY <1>2, <1>3, <1>4, <1>5, <1>6, <1>7, <1>8, <1>9 DEF lps, r, n

(* Up to eight bypass bins divide the interval evenly                       *)
LEMMA ByteNarrows ==
  ASSUME NEW e, EncoderInv(e), NEW n \in 1..8, NEW bins \in Nat, bins < Power(n)
  PROVE  Narrows(e, EncodeByte(e, bins, n), n, e.range * bins, e.range)
<1>1. e.range \in 256..510 /\ e.low \in Nat
  BY RangeFacts
<1>2. Power(n) \in Nat
  <2>1. n \in 0..31
    OBVIOUS
  <2> QED BY <2>1, PowerNext
<1>3. Within(e, n, e.range * bins, e.range)
  <2> DEFINE r == e.range
             p == Power(n)
  <2>1. r \in 256..510 /\ p \in Nat /\ bins + 1 <= p
    BY <1>1, <1>2
  <2> HIDE DEF r, p
  <2>2. r * bins \in Nat /\ r * bins + r = r * (bins + 1) /\ r * (bins + 1) <= r * p
    BY <2>1
  <2>3. r * bins + r <= r * p
    <3> DEFINE a == r * bins
               b == r * (bins + 1)
               c == r * p
    <3>1. a \in Nat /\ b = a + r /\ b <= c
      BY <2>2
    <3> HIDE DEF a, b, c
    <3>2. a + r <= c
      BY <3>1
    <3> QED BY <3>2 DEF a, c
  <2> QED BY <2>1, <2>2, <2>3 DEF Within, r, p
<1> DEFINE f == Lower(e, n, e.range * bins, e.range)
<1>4. EncodeByte(e, bins, n) = IF f.bitsLeft < 12 THEN WriteOut(f) ELSE f
  <2> DEFINE g == [e EXCEPT !.low = Shl(@, n) + e.range * bins, !.bitsLeft = @ - n]
  <2>1. EncodeByte(e, bins, n) = IF g.bitsLeft < 12 THEN WriteOut(g) ELSE g
    BY Zenon DEF EncodeByte
  <2>2. e \in CoderRec
    BY RoomyFields DEF EncoderInv
  <2>3. f = [e EXCEPT !.low = e.low * Power(n) + e.range * bins, !.range = e.range, !.bitsLeft = e.bitsLeft - n]
    BY DEF Lower, WithRegister
  <2>4. g = [e EXCEPT !.low = e.low * Power(n) + e.range * bins, !.bitsLeft = e.bitsLeft - n]
    BY DEF Shl, Power
  <2> DEFINE l == e.low * Power(n) + e.range * bins
             bl == e.bitsLeft - n
  <2> HIDE DEF f, g, l, bl
  <2>5. f = g
    BY <2>2, <2>3, <2>4 DEF CoderRec, l, bl
  <2> QED BY <2>1, <2>5
<1> HIDE DEF f
<1>5. Narrowed(e, IF f.bitsLeft < 12 THEN WriteOut(f) ELSE f, n, e.range * bins, e.range)
  BY <1>3, NarrowFacts DEF f
<1> QED BY <1>3, <1>4, <1>5 DEF Narrows

(* The terminate bin takes the two upmost values                            *)
LEMMA TrmNarrows ==
  ASSUME NEW e, EncoderInv(e)
  PROVE  LET r == e.range - 2
         IN /\ r \in 254..508
            /\ Narrows(e, EncodeBinTrm(e, 1), 7, r * Power(7), 256)
            /\ r >= 256 => Narrows(e, EncodeBinTrm(e, 0), 0, 0, r)
            /\ r < 256 => Narrows(e, EncodeBinTrm(e, 0), 1, 0, 2 * r)
<1> DEFINE r == e.range - 2
<1>1. e.range \in 256..510 /\ e.low \in Nat
  BY RangeFacts
<1>2. r \in 254..508 /\ r + 2 = e.range
  BY <1>1
<1>3. /\ EncodeBinTrm(e, 1) = [Shifted(e, e.low + r, 2, 7) EXCEPT !.range = 256]
      /\ EncodeBinTrm(e, 0) = IF r >= 256 THEN [e EXCEPT !.range = r] ELSE Shifted(e, e.low, r, 1)
  BY DEF EncodeBinTrm
<1> HIDE DEF r
<1>4. Power(7) = 128 /\ 2 * Power(7) = 256
  BY PowerTable
<1>5. Narrows(e, Shifted(e, e.low + r, 2, 7), 7, r * Power(7), 256)
  <2> DEFINE n == 7
             b == 2
  <2>1. r * 128 + 256 <= e.range * 128 /\ r * 128 \in Nat
    BY <1>1, <1>2
  <2>2. Within(e, n, r * Power(n), b * Power(n)) /\ r \in Nat
    BY <1>2, <1>4, <2>1 DEF Within
  <2> HIDE DEF n, b
  <2>3. Narrows(e, Shifted(e, e.low + r, b, n), n, r * Power(n), b * Power(n))
    BY <2>2, ShiftedFacts
  <2> QED BY <1>4, <2>3 DEF n, b
<1>6. Narrows(e, EncodeBinTrm(e, 1), 7, r * Power(7), 256)
  <2> DEFINE f == Shifted(e, e.low + r, 2, 7)
  <2>1. f.range = 256 /\ f \in CoderRec
    BY <1>5, RoomyFields DEF Narrows, Narrowed, EncoderInv
  <2> HIDE DEF f
  <2>2. [f EXCEPT !.range = 256] = f
    BY <2>1 DEF CoderRec
  <2> QED BY <1>3, <1>5, <2>2 DEF f
<1>7. r >= 256 => Narrows(e, [e EXCEPT !.range = r], 0, 0, r)
  <2> SUFFICES ASSUME r >= 256 PROVE Narrows(e, [e EXCEPT !.range = r], 0, 0, r)
    OBVIOUS
  <2>1. 0 + r <= e.range * Power(0) /\ r \in 256..510
    BY <1>1, <1>2, PowerTable
  <2>2. Within(e, 0, 0, r)
    BY <2>1 DEF Within
  <2> QED BY <2>2, KeptFacts
<1>8. r < 256 => Narrows(e, Shifted(e, e.low, r, 1), 1, 0, 2 * r) /\ ~(r >= 256)
  <2> SUFFICES ASSUME r < 256 PROVE Narrows(e, Shifted(e, e.low, r, 1), 1, 0, 2 * r) /\ ~(r >= 256)
    OBVIOUS
  <2>1. r \in 128..255 /\ r <= e.range /\ ~(r >= 256)
    BY <1>1, <1>2
  <2> QED BY <2>1, DoubledFacts
<1> QED BY <1>2, <1>3, <1>6, <1>7, <1>8 DEF r

(***************************************************************************)
(* The decoder                                                             *)
(***************************************************************************)

(* The bytes it needs for an interval, and by how many bits they are finer  *)
Read8(b) == (b + 7) \div 8
BytesRead(e) == Read8(Bits(e))
Ahead(e) == 8 * BytesRead(e) - Bits(e)

(* The bytes are a number in the interval                                   *)
Codes(e, s) ==
  /\ BytesRead(e) <= Len(s)
  /\ Low(e) * Power(Ahead(e)) <= Number(s, BytesRead(e))
  /\ Number(s, BytesRead(e)) < (Low(e) + e.range) * Power(Ahead(e))

(* n more bits need a byte more where fewer than n are left of the last     *)
(* one.                                                                     *)
LEMMA EightBits ==
  ASSUME NEW b \in Nat, NEW n \in 0..8
  PROVE  LET a == 8 * Read8(b) - b
             c == 8 * Read8(b + n) - (b + n)
         IN /\ a \in 0..7 /\ c \in 0..7 /\ Read8(b) \in Nat
            /\ n <= a => Read8(b + n) = Read8(b) /\ c = a - n
            /\ n > a => Read8(b + n) = Read8(b) + 1 /\ c = (a + 8) - n
<1> DEFINE x == Read8(b)
           y == Read8(b + n)
<1>1. x \in Nat /\ 8 * x <= b + 7 /\ b + 7 < 8 * x + 8
  BY DEF Read8
<1>2. y \in Nat /\ 8 * y <= (b + n) + 7 /\ (b + n) + 7 < 8 * y + 8
  BY DEF Read8
<1> HIDE DEF x, y
<1> DEFINE a == 8 * x - b
           c == 8 * y - (b + n)
<1>3. a \in 0..7 /\ c \in 0..7
  BY <1>1, <1>2
<1>4. n <= a => y = x /\ c = a - n
  BY <1>1, <1>2
<1>5. n > a => y = x + 1 /\ c = (a + 8) - n
  BY <1>1, <1>2
<1> QED BY <1>1, <1>3, <1>4, <1>5 DEF x, y

(* The counts of bits and bytes are natural, and the decoder is ahead by    *)
(* less than a byte.                                                        *)
LEMMA BitsFacts ==
  ASSUME NEW e, EncoderInv(e)
  PROVE  Bits(e) \in Nat /\ Low(e) \in Nat /\ BytesRead(e) \in Nat /\ Ahead(e) \in 0..7
<1>1. Roomy(e) /\ e.low \in Nat /\ e.bitsLeft \in 12..23 /\ e.outstanding \in Nat
  BY RoomyNumbers DEF EncoderInv
<1>2. Len(e.bytes) \in Nat
  <2>1. e.bytes \in Seq(AByte)
    BY <1>1, RoomyFields DEF CoderRec
  <2> QED BY <2>1
<1>3. Bits(e) \in Nat
  <2> DEFINE m == Len(e.bytes)
  <2>1. m \in Nat
    BY <1>2
  <2> HIDE DEF m
  <2>2. 8 * (m + e.outstanding) + (32 - e.bitsLeft) \in Nat
    BY <1>1, <2>1
  <2> QED BY <2>2 DEF Bits, m
<1>4. Low(e) \in Nat
  <2>1. PrefixNumber(e) \in Nat /\ Top(e) \in Nat
    BY <1>1, PrefixNumberFacts, RoomyNumbers
  <2> QED BY <1>1, <2>1 DEF Low
<1> DEFINE b == Bits(e)
           z == 0
<1>5. b \in Nat /\ z \in 0..8
  BY <1>3
<1> HIDE DEF b, z
<1>6. Read8(b) \in Nat /\ 8 * Read8(b) - b \in 0..7
  BY <1>5, EightBits
<1> QED BY <1>3, <1>4, <1>6 DEF BytesRead, Ahead, b

(* So a symbol of n bits has the decoder read a byte more or not.           *)
LEMMA AheadStep ==
  ASSUME NEW e, EncoderInv(e), NEW f, NEW n, NEW add, NEW range, Narrows(e, f, n, add, range)
  PROVE  /\ n <= Ahead(e) => BytesRead(f) = BytesRead(e) /\ Ahead(f) = Ahead(e) - n
         /\ n > Ahead(e) => BytesRead(f) = BytesRead(e) + 1 /\ Ahead(f) = (Ahead(e) + 8) - n
         /\ EncoderInv(f) /\ f.range = range /\ Low(f) = Low(e) * Power(n) + add /\ Within(e, n, add, range)
<1> DEFINE b == Bits(e)
<1>1. b \in Nat
  BY BitsFacts
<1>2. n \in 0..8 /\ Bits(f) = b + n
  BY DEF Narrows, Narrowed, Within
<1> HIDE DEF b
<1>3. /\ n <= 8 * Read8(b) - b => Read8(b + n) = Read8(b) /\ 8 * Read8(b + n) - (b + n) = (8 * Read8(b) - b) - n
      /\ n > 8 * Read8(b) - b => Read8(b + n) = Read8(b) + 1
           /\ 8 * Read8(b + n) - (b + n) = ((8 * Read8(b) - b) + 8) - n
  BY <1>1, <1>2, EightBits
<1>4. /\ Ahead(e) = 8 * Read8(b) - b /\ BytesRead(e) = Read8(b)
      /\ Ahead(f) = 8 * Read8(b + n) - (b + n) /\ BytesRead(f) = Read8(b + n)
  BY <1>2 DEF Ahead, BytesRead, b
<1>5. EncoderInv(f) /\ f.range = range /\ Low(f) = Low(e) * Power(n) + add /\ Within(e, n, add, range)
  BY DEF Narrows, Narrowed
<1> QED BY <1>3, <1>4, <1>5

Naturals6(a, b, c, d, x, y) == a \in Nat /\ b \in Nat /\ c \in Nat /\ d \in Nat /\ x \in Nat /\ y \in Nat

(* What lies in a finer interval lies in the coarser one around it          *)
LEMMA NestedNumbers ==
  ASSUME NEW x, NEW pn, NEW pc, NEW add, NEW range, NEW m, NEW sub, NEW top,
         Naturals6(x, pn, pc, add, range, m), Naturals6(sub, top, 0, 0, 0, 0),
         sub * pn <= add, add + range <= top * pn,
         (x * pn + add) * pc <= m, m < ((x * pn + add) + range) * pc
  PROVE  (x + sub) * (pn * pc) <= m /\ m < (x + top) * (pn * pc)
<1> USE DEF Naturals6
<1> DEFINE lo == x * pn + add
           hi == (x * pn + add) + range
           u == (x + sub) * pn
           w == (x + top) * pn
<1>1. lo \in Nat /\ hi \in Nat /\ u \in Nat /\ w \in Nat
  OBVIOUS
<1>2. u <= lo
  <2>1. u = x * pn + sub * pn
    OBVIOUS
  <2> DEFINE a == x * pn
             b == sub * pn
  <2>2. a \in Nat /\ b \in Nat /\ b <= add
    OBVIOUS
  <2> HIDE DEF a, b
  <2>3. a + b <= a + add
    BY <2>2
  <2> QED BY <2>1, <2>3 DEF a, b
<1>3. hi <= w
  <2>1. w = x * pn + top * pn
    OBVIOUS
  <2> DEFINE a == x * pn
             b == top * pn
  <2>2. a \in Nat /\ b \in Nat /\ add + range <= b
    OBVIOUS
  <2> HIDE DEF a, b
  <2>3. (a + add) + range <= a + b
    BY <2>2
  <2> QED BY <2>1, <2>3 DEF a, b
<1>4. u * pc = (x + sub) * (pn * pc) /\ w * pc = (x + top) * (pn * pc)
  OBVIOUS
<1>5. lo * pc <= m /\ m < hi * pc
  OBVIOUS
<1> HIDE DEF lo, hi, u, w
<1>6. u * pc <= lo * pc /\ hi * pc <= w * pc
  BY <1>1, <1>2, <1>3
<1> DEFINE up == u * pc
           lp == lo * pc
           hp == hi * pc
           wp == w * pc
<1>7. up \in Nat /\ lp \in Nat /\ hp \in Nat /\ wp \in Nat /\ up <= lp /\ lp <= m /\ m < hp /\ hp <= wp
  BY <1>1, <1>5, <1>6
<1> HIDE DEF up, lp, hp, wp
<1>8. up <= m /\ m < wp
  BY <1>7
<1> QED BY <1>4, <1>8 DEF up, wp

(* The powers of the two precisions                                         *)
LEMMA PrecisionPowers ==
  ASSUME NEW n, n \in 0..8, NEW a, a \in 0..7
  PROVE  /\ Power(n) \in Nat \ {0} /\ Power(a) \in Nat \ {0} /\ Power(7 - a) \in Nat \ {0}
         /\ Power(7 - a) * Power(a) = 128
         /\ n <= a => /\ Power(n) * Power(a - n) = Power(a) /\ Power(a - n) \in Nat \ {0}
                      /\ Power(7 - a) * Power(n) = Power(7 - (a - n))
         /\ n > a => /\ Power(n) * Power((a + 8) - n) = 256 * Power(a) /\ Power((a + 8) - n) \in Nat \ {0}
                     /\ Power(7 - a) * Power(n) = 256 * Power(7 - ((a + 8) - n))
                     /\ (n - 1) - a = 7 - ((a + 8) - n)
<1>1. Power(n) \in Nat \ {0} /\ Power(a) \in Nat \ {0} /\ Power(7 - a) \in Nat \ {0}
  <2>1. n \in 0..31 /\ a \in 0..31 /\ 7 - a \in 0..31
    OBVIOUS
  <2> QED BY <2>1, PowerNext
<1>2. ASSUME NEW j, NEW k, j \in 0..23, k \in 0..8 PROVE Power(j + k) = Power(j) * Power(k)
  BY <1>2, PowerSum
<1>3. Power(7 - a) * Power(a) = 128
  <2>1. 7 - a \in 0..23 /\ a \in 0..8 /\ (7 - a) + a = 7
    OBVIOUS
  <2> QED BY <1>2, <2>1, PowerTable
<1>4. ASSUME n <= a PROVE /\ Power(n) * Power(a - n) = Power(a) /\ Power(a - n) \in Nat \ {0}
                          /\ Power(7 - a) * Power(n) = Power(7 - (a - n))
  <2>1. n \in 0..23 /\ a - n \in 0..8 /\ n + (a - n) = a /\ a - n \in 0..31 /\ 7 - a \in 0..23
          /\ (7 - a) + n = 7 - (a - n)
    BY <1>4
  <2>2. Power(a) = Power(n) * Power(a - n)
    BY <1>2, <2>1
  <2>3. Power(a - n) \in Nat \ {0}
    BY <2>1, PowerNext
  <2>4. Power(7 - (a - n)) = Power(7 - a) * Power(n)
    BY <1>2, <2>1
  <2> QED BY <2>2, <2>3, <2>4
<1>5. ASSUME n > a PROVE /\ Power(n) * Power((a + 8) - n) = 256 * Power(a) /\ Power((a + 8) - n) \in Nat \ {0}
                         /\ Power(7 - a) * Power(n) = 256 * Power(7 - ((a + 8) - n))
                         /\ (n - 1) - a = 7 - ((a + 8) - n)
  <2> DEFINE c == (a + 8) - n
             o == 8
  <2>1. n \in 0..23 /\ c \in 0..8 /\ n + c = a + o /\ c \in 0..31 /\ 7 - a \in 0..23
          /\ (7 - a) + n = (7 - c) + o
        /\ a \in 0..23 /\ o \in 0..8 /\ 7 - c \in 0..23 /\ (n - 1) - a = 7 - c /\ 7 - c \in 0..31
    BY <1>5
  <2> HIDE DEF c, o
  <2>2. Power(n + c) = Power(n) * Power(c) /\ Power(a + o) = Power(a) * Power(o)
    BY <1>2, <2>1
  <2>3. Power((7 - a) + n) = Power(7 - a) * Power(n) /\ Power((7 - c) + o) = Power(7 - c) * Power(o)
    BY <1>2, <2>1
  <2>4. Power(o) = 256
    BY PowerTable DEF o
  <2>5. Power(c) \in Nat \ {0} /\ Power(7 - c) \in Nat \ {0}
    BY <2>1, PowerNext
  <2>6. Power(n) * Power(c) = 256 * Power(a)
    <3>1. Power(n) * Power(c) = Power(a) * 256
      BY <2>1, <2>2, <2>4
    <3> QED BY <1>1, <3>1
  <2>7. Power(7 - a) * Power(n) = 256 * Power(7 - c)
    <3>1. Power(7 - a) * Power(n) = Power(7 - c) * 256
      BY <2>1, <2>3, <2>4
    <3> QED BY <2>5, <3>1
  <2> QED BY <2>1, <2>5, <2>6, <2>7 DEF c
<1> QED BY <1>1, <1>3, <1>4, <1>5

(* The two powers that a precision of seven bits splits into.               *)
LEMMA Complements ==
  ASSUME NEW a, a \in 0..7
  PROVE  Power(7 - a) * Power(a) = 128 /\ Power(a) \in Nat \ {0} /\ Power(7 - a) \in Nat \ {0}
<1> DEFINE z == 0
<1>1. z \in 0..8
  OBVIOUS
<1> HIDE DEF z
<1> QED BY <1>1, PrecisionPowers

(* With a name for the precision after the step: without or with a byte     *)
(* more                                                                     *)
Near(n, a, c) == n \in 0..8 /\ a \in 0..7 /\ n <= a /\ c = a - n
Far(n, a, c) == n \in 0..8 /\ a \in 0..7 /\ n > a /\ c = (a + 8) - n

(* A byte more is read: the precisions before and after the step.           *)
LEMMA FarPowers ==
  ASSUME NEW n, NEW a, NEW c, Far(n, a, c)
  PROVE  /\ Power(n) * Power(c) = 256 * Power(a) /\ Power(c) \in Nat \ {0} /\ c \in 0..7
         /\ Power(7 - a) * Power(n) = 256 * Power(7 - c) /\ (n - 1) - a = 7 - c
<1> USE DEF Far
<1>1. /\ Power(n) * Power((a + 8) - n) = 256 * Power(a) /\ Power((a + 8) - n) \in Nat \ {0}
      /\ Power(7 - a) * Power(n) = 256 * Power(7 - ((a + 8) - n)) /\ (n - 1) - a = 7 - ((a + 8) - n)
  BY Zenon, PrecisionPowers DEF Far
<1>2. c \in 0..7
  OBVIOUS
<1> QED BY <1>1, <1>2

(* No byte is read: the precisions before and after the step.               *)
LEMMA NearPowers ==
  ASSUME NEW n, NEW a, NEW c, Near(n, a, c)
  PROVE  /\ Power(n) * Power(c) = Power(a) /\ Power(c) \in Nat \ {0} /\ c \in 0..7
         /\ Power(7 - a) * Power(n) = Power(7 - c)
<1> USE DEF Near
<1>1. /\ Power(n) * Power(a - n) = Power(a) /\ Power(a - n) \in Nat \ {0}
      /\ Power(7 - a) * Power(n) = Power(7 - (a - n))
  BY Zenon, PrecisionPowers DEF Near
<1>2. c \in 0..7
  OBVIOUS
<1> QED BY <1>1, <1>2

IsBytes(s) == s \in Seq(AByte)
Coded(e, s) == Number(s, BytesRead(e))

(* The bytes that a narrower interval needs                                 *)
LEMMA CodedStep ==
  ASSUME NEW e, EncoderInv(e), NEW f, NEW n, NEW add, NEW range, Narrows(e, f, n, add, range),
         NEW s, IsBytes(s), BytesRead(f) <= Len(s)
  PROVE  /\ BytesRead(e) <= Len(s) /\ Coded(e, s) \in Nat /\ Coded(f, s) \in Nat
         /\ n <= Ahead(e) => Coded(f, s) = Coded(e, s)
         /\ n > Ahead(e) => Coded(f, s) = 256 * Coded(e, s) + ByteAt(s, BytesRead(e) + 1)
              /\ ByteAt(s, BytesRead(e) + 1) \in 0..255
<1>1. BytesRead(e) \in Nat /\ Ahead(e) \in 0..7 /\ n \in 0..8
  BY BitsFacts DEF Narrows, Within
<1>2. s \in Seq(Nat) /\ Len(s) \in Nat
  BY BytesAreNumbers DEF IsBytes
<1>3. /\ \A i \in 1..Len(s) : Number(s, i) = 256 * Number(s, i - 1) + s[i]
      /\ \A i \in 0..Len(s) : Number(s, i) \in Nat
  BY <1>2, NumberFacts
<1>4. \A i \in 1..Len(s) : s[i] \in 0..255 /\ ByteAt(s, i) = s[i]
  BY DEF ByteAt, AByte, IsBytes
<1> DEFINE r == BytesRead(e)
           len == Len(s)
           a == Ahead(e)
           rf == BytesRead(f)
<1>5. (n <= a => rf = r) /\ (n > a => rf = r + 1)
  BY AheadStep
<1>6. r \in Nat /\ len \in Nat /\ a \in 0..7 /\ rf <= len
  BY <1>1, <1>2
<1> HIDE DEF r, len, a, rf
<1>7. CASE n <= a
  <2>1. rf = r /\ r \in 0..len
    BY <1>5, <1>6, <1>7
  <2>2. Number(s, r) \in Nat
    BY <1>3, <2>1 DEF len
  <2>3. r <= len
    BY <2>1
  <2>4. ~(n > a)
    BY <1>1, <1>6, <1>7
  <2> QED BY <2>1, <2>2, <2>3, <2>4 DEF Coded, r, rf, a, len
<1>8. CASE n > a
  <2>1. rf = r + 1 /\ r \in 0..len /\ r + 1 \in 1..len /\ (r + 1) - 1 = r /\ r + 1 \in 0..len
    BY <1>5, <1>6, <1>8
  <2>2. Number(s, r) \in Nat /\ Number(s, r + 1) \in Nat
    BY <1>3, <2>1 DEF len
  <2>3. s[r + 1] \in 0..255 /\ ByteAt(s, r + 1) = s[r + 1]
    BY <1>4, <2>1 DEF len
  <2>4. Number(s, r + 1) = 256 * Number(s, r) + s[r + 1]
    <3> DEFINE j == r + 1
    <3>1. j \in 1..len /\ j - 1 = r
      BY <2>1
    <3> HIDE DEF j
    <3>2. Number(s, j) = 256 * Number(s, j - 1) + s[j]
      BY <1>3, <3>1 DEF len
    <3> QED BY <3>1, <3>2 DEF j
  <2>5. r <= len
    BY <2>1
  <2>6. ~(n <= a)
    BY <1>1, <1>6, <1>8
  <2> QED BY <2>1, <2>2, <2>3, <2>4, <2>5, <2>6 DEF Coded, r, rf, a, len
<1> QED BY <1>1, <1>6, <1>7, <1>8

(* The bytes lie in the interval before, between the multiples of the shift *)
(* around what is coded                                                     *)
LEMMA CodesWithin ==
  ASSUME NEW e, EncoderInv(e), NEW f, NEW n, NEW add, NEW range, Narrows(e, f, n, add, range),
         NEW s, IsBytes(s), Codes(f, s),
         NEW sub, NEW top, sub \in Nat, top \in Nat, sub * Power(n) <= add, add + range <= top * Power(n)
  PROVE  /\ BytesRead(e) <= Len(s)
         /\ (Low(e) + sub) * Power(Ahead(e)) <= Coded(e, s) /\ Coded(e, s) < (Low(e) + top) * Power(Ahead(e))
<1> DEFINE a == Ahead(e)
           x == Low(e)
           c == Ahead(f)
           k == Coded(e, s)
           m == Coded(f, s)
           b == ByteAt(s, BytesRead(e) + 1)
<1>1. a \in 0..7 /\ x \in Nat
  BY BitsFacts
<1>2. n \in 0..8 /\ add \in Nat /\ range \in Nat
  BY DEF Narrows, Within
<1>3. BytesRead(f) <= Len(s) /\ Low(f) * Power(c) <= m /\ m < (Low(f) + range) * Power(c)
  BY AheadStep DEF Codes, Coded
<1>4. /\ BytesRead(e) <= Len(s) /\ k \in Nat /\ m \in Nat
      /\ n <= a => m = k
      /\ n > a => m = 256 * k + b /\ b \in 0..255
  BY <1>3, CodedStep
<1>5. Low(f) = x * Power(n) + add /\ (n <= a => c = a - n) /\ (n > a => c = (a + 8) - n)
  BY AheadStep
<1> HIDE DEF a, x, c, k, m, b
<1> DEFINE pn == Power(n)
           pc == Power(c)
           pa == Power(a)
<1>6. /\ pn \in Nat /\ pa \in Nat
      /\ n <= a => pn * pc = pa /\ pc \in Nat
      /\ n > a => pn * pc = 256 * pa /\ pc \in Nat
  <2>1. n \in 0..8 /\ a \in 0..7
    BY <1>1, <1>2
  <2>2. Power(n) \in Nat \ {0} /\ Power(a) \in Nat \ {0}
    BY <2>1, PrecisionPowers
  <2>3. ASSUME n <= a PROVE Power(n) * Power(c) = Power(a) /\ Power(c) \in Nat \ {0}
    <3>1. Near(n, a, c)
      BY <1>5, <2>1, <2>3 DEF Near
    <3> QED BY <3>1, NearPowers
  <2>4. ASSUME n > a PROVE Power(n) * Power(c) = 256 * Power(a) /\ Power(c) \in Nat \ {0}
    <3>1. Far(n, a, c)
      BY <1>5, <2>1, <2>4 DEF Far
    <3> QED BY <3>1, FarPowers
  <2> QED BY <2>2, <2>3, <2>4
<1>7. (x * pn + add) * pc <= m /\ m < ((x * pn + add) + range) * pc
  BY <1>3, <1>5
<1>8. sub * pn <= add /\ add + range <= top * pn
  OBVIOUS
<1> HIDE DEF pn, pc, pa
<1>a. pc \in Nat
  BY <1>1, <1>2, <1>6
<1>b. Naturals6(x, pn, pc, add, range, m) /\ Naturals6(sub, top, 0, 0, 0, 0)
  BY <1>1, <1>2, <1>4, <1>6, <1>a DEF Naturals6
<1>9. (x + sub) * (pn * pc) <= m /\ m < (x + top) * (pn * pc)
  BY <1>7, <1>8, <1>b, NestedNumbers
<1>10. CASE n <= a
  <2>1. (x + sub) * pa <= k /\ k < (x + top) * pa
    BY <1>4, <1>6, <1>9, <1>10
  <2> QED BY <1>4, <2>1 DEF a, x, k, pa
<1>11. CASE n > a
  <2> DEFINE u == (x + sub) * pa
             w == (x + top) * pa
  <2>1. u \in Nat /\ w \in Nat
    BY <1>1, <1>6
  <2>2. (x + sub) * (256 * pa) = 256 * u /\ (x + top) * (256 * pa) = 256 * w
    BY <1>1, <1>6
  <2>3. 256 * u <= m /\ m < 256 * w /\ m = 256 * k + b /\ b \in 0..255
    BY <1>4, <1>6, <1>9, <1>11, <2>2
  <2> HIDE DEF u, w
  <2>4. u <= k /\ k < w
    BY <1>4, <2>1, <2>3
  <2> QED BY <1>4, <2>4 DEF u, w, a, x, k, pa
<1> QED BY <1>1, <1>2, <1>10, <1>11

(* So they lie in the interval before                                       *)
LEMMA CodesBack ==
  ASSUME NEW e, EncoderInv(e), NEW f, NEW n, NEW add, NEW range, Narrows(e, f, n, add, range),
         NEW s, IsBytes(s), Codes(f, s)
  PROVE  Codes(e, s)
<1> DEFINE sub == 0
           top == e.range
<1>1. n \in 0..8 /\ add \in Nat /\ range \in Nat /\ add + range <= e.range * Power(n)
  BY DEF Narrows, Within
<1>2. e.range \in 256..510
  BY RangeFacts
<1>3. Power(n) \in Nat
  <2>1. n \in 0..31
    BY <1>1
  <2> QED BY <2>1, PowerNext
<1>4. sub \in Nat /\ top \in Nat /\ sub * Power(n) <= add /\ add + range <= top * Power(n)
  BY <1>1, <1>2, <1>3
<1> HIDE DEF sub, top
<1>5. /\ BytesRead(e) <= Len(s)
      /\ (Low(e) + sub) * Power(Ahead(e)) <= Coded(e, s) /\ Coded(e, s) < (Low(e) + top) * Power(Ahead(e))
  BY <1>4, CodesWithin
<1>6. Low(e) + sub = Low(e)
  BY BitsFacts DEF sub
<1> QED BY <1>5, <1>6 DEF Codes, Coded, top

(* The register of the decoder: how far the bytes are above the lower end   *)
Value(e, s) == Power(7 - Ahead(e)) * (Coded(e, s) - Low(e) * Power(Ahead(e)))

(* The decoder that has followed the encoder                                *)
DecoderOf(e, s) ==
  [value |-> Value(e, s), range |-> e.range, bitsNeeded |-> (-1) - Ahead(e), read |-> BytesRead(e)]

(* What the byte that is read adds                                          *)
More(e, s, n) == IF n <= Ahead(e) THEN 0 ELSE ByteAt(s, BytesRead(e) + 1) * Power((n - 1) - Ahead(e))

Numbers5(a, b, c, d, x) == a \in Nat /\ b \in Nat /\ c \in Nat /\ d \in Nat /\ x \in Nat

(* The value of the decoder after a step without a byte, as a matter of     *)
(* arithmetic.                                                              *)
LEMMA NearValue ==
  ASSUME NEW x, NEW k, NEW add, NEW pn, NEW pc, NEW pa, NEW qa, NEW qc,
         Numbers5(x, k, add, pn, pc), Numbers5(pa, qa, qc, 0, 0),
         pn * pc = pa, qa * pn = qc, qc * pc = 128
  PROVE  qc * (k - (x * pn + add) * pc) = (qa * (k - x * pa)) * pn - add * 128
<1> USE DEF Numbers5
<1>1. (x * pn + add) * pc = x * pa + add * pc
  <2>1. (x * pn + add) * pc = x * (pn * pc) + add * pc
    OBVIOUS
  <2> QED BY <2>1
<1>2. qc * (k - (x * pa + add * pc)) = qc * (k - x * pa) - add * (qc * pc)
  OBVIOUS
<1>3. (qa * (k - x * pa)) * pn = (qa * pn) * (k - x * pa)
  OBVIOUS
<1>4. add * (qc * pc) = add * 128 /\ (qa * pn) * (k - x * pa) = qc * (k - x * pa)
  OBVIOUS
<1> QED BY <1>1, <1>2, <1>3, <1>4

(* The value of the decoder after a step that reads byte b.                 *)
LEMMA FarValue ==
  ASSUME NEW x, NEW k, NEW add, NEW pn, NEW pc, NEW pa, NEW qa, NEW qc, NEW b,
         Numbers5(x, k, add, pn, pc), Numbers5(pa, qa, qc, b, 0),
         pn * pc = 256 * pa, qa * pn = 256 * qc, qc * pc = 128
  PROVE  qc * ((256 * k + b) - (x * pn + add) * pc) = ((qa * (k - x * pa)) * pn + b * qc) - add * 128
<1> USE DEF Numbers5
<1>1. (x * pn + add) * pc = 256 * (x * pa) + add * pc
  <2>1. (x * pn + add) * pc = x * (pn * pc) + add * pc
    OBVIOUS
  <2>2. x * (256 * pa) = 256 * (x * pa)
    OBVIOUS
  <2> QED BY <2>1, <2>2
<1> DEFINE y == x * pa
<1>2. y \in Nat /\ k - y \in Int
  OBVIOUS
<1> HIDE DEF y
<1>3. qc * ((256 * k + b) - (256 * y + add * pc)) = ((256 * qc) * (k - y) + b * qc) - add * (qc * pc)
  BY <1>2
<1>4. (qa * (k - y)) * pn = (qa * pn) * (k - y)
  BY <1>2
<1>5. add * (qc * pc) = add * 128 /\ (qa * pn) * (k - y) = (256 * qc) * (k - y)
  OBVIOUS
<1>6. (x * pn + add) * pc = 256 * y + add * pc
  BY <1>1 DEF y
<1>7. qc * ((256 * k + b) - (x * pn + add) * pc) = ((qa * (k - y)) * pn + b * qc) - add * 128
  BY <1>3, <1>4, <1>5, <1>6
<1> QED BY <1>7 DEF y

(* How the register moves with the interval                                 *)
LEMMA ValueStep ==
  ASSUME NEW e, EncoderInv(e), NEW f, NEW n, NEW add, NEW range, Narrows(e, f, n, add, range),
         NEW s, IsBytes(s), BytesRead(f) <= Len(s)
  PROVE  Value(f, s) = (Value(e, s) * Power(n) + More(e, s, n)) - add * 128
<1> DEFINE a == Ahead(e)
           x == Low(e)
           c == Ahead(f)
           k == Coded(e, s)
           m == Coded(f, s)
           b == ByteAt(s, BytesRead(e) + 1)
<1>1. a \in 0..7 /\ x \in Nat
  BY BitsFacts
<1>2. n \in 0..8 /\ add \in Nat
  BY DEF Narrows, Within
<1>3. /\ k \in Nat /\ m \in Nat
      /\ n <= a => m = k
      /\ n > a => m = 256 * k + b /\ b \in 0..255
  BY CodedStep
<1>4. Low(f) = x * Power(n) + add /\ (n <= a => c = a - n) /\ (n > a => c = (a + 8) - n)
  BY AheadStep
<1>5. /\ Value(e, s) = Power(7 - a) * (k - x * Power(a))
      /\ Value(f, s) = Power(7 - c) * (m - (x * Power(n) + add) * Power(c))
  BY <1>4 DEF Value
<1>6. More(e, s, n) = IF n <= a THEN 0 ELSE b * Power((n - 1) - a)
  BY DEF More
<1> HIDE DEF a, x, c, k, m, b
<1> DEFINE pn == Power(n)
           pc == Power(c)
           pa == Power(a)
           qa == Power(7 - a)
           qc == Power(7 - c)
<1>7. pn \in Nat /\ pa \in Nat /\ qa \in Nat
  <2>1. n \in 0..8 /\ a \in 0..7
    BY <1>1, <1>2
  <2> QED BY <2>1, PrecisionPowers
<1>8. ASSUME c \in 0..7 PROVE qc * pc = 128 /\ pc \in Nat /\ qc \in Nat
  BY <1>8, Complements
<1>9. CASE n <= a
  <2>1. Near(n, a, c)
    BY <1>1, <1>2, <1>4, <1>9 DEF Near
  <2>2. pn * pc = pa /\ qa * pn = qc /\ c \in 0..7
    BY <2>1, NearPowers
  <2>3. qc * pc = 128 /\ pc \in Nat /\ qc \in Nat
    BY <1>8, <2>2
  <2> HIDE DEF pn, pc, pa, qa, qc
  <2>4. Numbers5(x, k, add, pn, pc) /\ Numbers5(pa, qa, qc, 0, 0)
    BY <1>1, <1>2, <1>3, <1>7, <2>3 DEF Numbers5
  <2>5. qc * (k - (x * pn + add) * pc) = (qa * (k - x * pa)) * pn - add * 128
    BY <2>2, <2>3, <2>4, NearValue
  <2>6. m = k /\ More(e, s, n) = 0
    BY <1>3, <1>6, <1>9
  <2>7. Value(e, s) = qa * (k - x * pa) /\ Value(f, s) = qc * (k - (x * pn + add) * pc)
    BY <1>5, <2>6 DEF qa, pa, pn, qc, pc
  <2>8. (qa * (k - x * pa)) * pn \in Int
    BY <1>1, <1>3, <1>7
  <2>9. Value(f, s) = (Value(e, s) * pn + 0) - add * 128
    BY <2>5, <2>7, <2>8
  <2> QED BY <2>6, <2>9 DEF pn
<1>10. CASE n > a
  <2>1. Far(n, a, c)
    BY <1>1, <1>2, <1>4, <1>10 DEF Far
  <2>2. pn * pc = 256 * pa /\ qa * pn = 256 * qc /\ c \in 0..7
    BY <2>1, FarPowers
  <2>3. qc * pc = 128 /\ pc \in Nat /\ qc \in Nat
    BY <1>8, <2>2
  <2>a. (n - 1) - a = 7 - c
    BY <2>1, FarPowers
  <2>b. m = 256 * k + b /\ b \in Nat
    <3>1. m = 256 * k + b /\ b \in 0..255
      BY <1>3, <1>10
    <3>2. b \in 0..255 => b \in Nat
      OBVIOUS
    <3> QED BY <3>1, <3>2
  <2>6. More(e, s, n) = b * qc
    <3>1. ~(n <= a)
      BY <1>1, <1>2, <1>10
    <3> QED BY <1>6, <2>a, <3>1
  <2> HIDE DEF pn, pc, pa, qa, qc
  <2>4. Numbers5(x, k, add, pn, pc) /\ Numbers5(pa, qa, qc, b, 0)
    BY <1>1, <1>2, <1>3, <1>7, <2>3, <2>b DEF Numbers5
  <2>5. qc * ((256 * k + b) - (x * pn + add) * pc) = ((qa * (k - x * pa)) * pn + b * qc) - add * 128
    BY <2>2, <2>3, <2>4, FarValue
  <2>7. Value(e, s) = qa * (k - x * pa) /\ Value(f, s) = qc * ((256 * k + b) - (x * pn + add) * pc)
    BY <1>5, <2>b DEF qa, pa, pn, qc, pc
  <2>9. Value(f, s) = (Value(e, s) * pn + b * qc) - add * 128
    BY <2>5, <2>7
  <2> QED BY <2>6, <2>9 DEF pn
<1> QED BY <1>1, <1>2, <1>9, <1>10

(* Where the register is, for an interval coded around it                   *)
LEMMA ValueWithin ==
  ASSUME NEW e, EncoderInv(e), NEW f, NEW n, NEW add, NEW range, Narrows(e, f, n, add, range),
         NEW s, IsBytes(s), Codes(f, s),
         NEW sub, NEW top, sub \in Nat, top \in Nat, sub * Power(n) <= add, add + range <= top * Power(n)
  PROVE  Value(e, s) \in Int /\ sub * 128 <= Value(e, s) /\ Value(e, s) < top * 128
<1> DEFINE a == Ahead(e)
           x == Low(e)
           k == Coded(e, s)
           pa == Power(a)
           qa == Power(7 - a)
<1>1. (x + sub) * pa <= k /\ k < (x + top) * pa
  BY CodesWithin
<1>2. x \in Nat /\ k \in Nat
  <2>1. BytesRead(f) <= Len(s)
    BY DEF Codes
  <2> QED BY <2>1, BitsFacts, CodedStep
<1>3. pa \in Nat /\ qa \in Nat \ {0} /\ qa * pa = 128
  <2>1. a \in 0..7
    BY BitsFacts
  <2> HIDE DEF a
  <2> QED BY <2>1, Complements
<1>4. Value(e, s) = qa * (k - x * pa)
  BY DEF Value
<1> HIDE DEF a, x, k, pa, qa
<1> DEFINE v == k - x * pa
<1>5. v \in Int /\ sub * pa <= v /\ v < top * pa
  <2>1. (x + sub) * pa = x * pa + sub * pa /\ (x + top) * pa = x * pa + top * pa
    BY <1>2, <1>3
  <2> DEFINE y == x * pa
             u == sub * pa
             w == top * pa
  <2>2. y \in Nat /\ u \in Nat /\ w \in Nat
    BY <1>2, <1>3
  <2>3. y + u <= k /\ k < y + w
    BY <1>1, <2>1
  <2> HIDE DEF y, u, w
  <2>4. k - y \in Int /\ u <= k - y /\ k - y < w
    BY <1>2, <2>2, <2>3
  <2> QED BY <2>4 DEF y, u, w
<1> HIDE DEF v
<1>6. qa * v \in Int /\ qa * (sub * pa) <= qa * v /\ qa * v < qa * (top * pa)
  <2> DEFINE u == sub * pa
             w == top * pa
  <2>1. u \in Nat /\ w \in Nat /\ u <= v /\ v < w /\ v \in Int
    BY <1>3, <1>5
  <2> HIDE DEF u, w
  <2>2. qa * v \in Int /\ qa * u <= qa * v
    BY <1>3, <2>1
  <2>3. qa * v < qa * w
    <3>1. v + 1 <= w
      BY <2>1
    <3>2. qa * (v + 1) <= qa * w
      BY <1>3, <2>1, <3>1
    <3>3. qa * (v + 1) = qa * v + qa /\ qa > 0
      BY <1>3, <2>1
    <3> DEFINE p == qa * v
               o == qa * w
    <3>4. p \in Int /\ o \in Int /\ p + qa <= o /\ qa \in Nat
      BY <1>3, <2>1, <3>2, <3>3
    <3> HIDE DEF p, o
    <3>5. p < o
      BY <3>3, <3>4
    <3> QED BY <3>5 DEF p, o
  <2> QED BY <2>2, <2>3 DEF u, w
<1>7. qa * (sub * pa) = sub * 128 /\ qa * (top * pa) = top * 128
  <2>1. qa * (sub * pa) = sub * (qa * pa) /\ qa * (top * pa) = top * (qa * pa)
    BY <1>3
  <2> QED BY <1>3, <2>1
<1> QED BY <1>4, <1>6, <1>7 DEF v

(* The same with its bounds as one fact                                     *)
Offers(n, add, range, sub, top) ==
  sub \in Nat /\ top \in Nat /\ sub * Power(n) <= add /\ add + range <= top * Power(n)

LEMMA ValueBetween ==
  ASSUME NEW e, EncoderInv(e), NEW f, NEW n, NEW add, NEW range, Narrows(e, f, n, add, range),
         NEW s, IsBytes(s), Codes(f, s), NEW sub, NEW top, Offers(n, add, range, sub, top)
  PROVE  Value(e, s) \in Int /\ sub * 128 <= Value(e, s) /\ Value(e, s) < top * 128
  BY ValueWithin DEF Offers

(* A decoder that has read what the interval needs                          *)
At(v, r, e) == [value |-> v, range |-> r, bitsNeeded |-> (-1) - Ahead(e), read |-> BytesRead(e)]

(* Its fields.                                                              *)
LEMMA AtFields ==
  ASSUME NEW v, NEW r, NEW e
  PROVE  /\ At(v, r, e).value = v /\ At(v, r, e).range = r
         /\ At(v, r, e).bitsNeeded = (-1) - Ahead(e) /\ At(v, r, e).read = BytesRead(e)
         /\ \A q : [At(v, r, e) EXCEPT !.range = q] = At(v, q, e)
         /\ \A w : [At(v, r, e) EXCEPT !.value = w] = At(w, r, e)
  BY DEF At

(* Refilled uses n bits and reads a byte where the interval needs one more. *)
LEMMA RefilledFacts ==
  ASSUME NEW e, EncoderInv(e), NEW f, NEW n, NEW add, NEW range, Narrows(e, f, n, add, range),
         NEW s, NEW v, v \in Int, NEW r
  PROVE  Refilled(At(v, r, e), s, n) = At(v * Power(n) + More(e, s, n), r, f)
<1> DEFINE a == Ahead(e)
           c == Ahead(f)
           k == BytesRead(e)
           d == At(v, r, e)
           b == ByteAt(s, k + 1)
<1>1. a \in 0..7 /\ k \in Nat /\ n \in 0..8
  BY BitsFacts DEF Narrows, Within
<1>2. (n <= a => BytesRead(f) = k /\ c = a - n) /\ (n > a => BytesRead(f) = k + 1 /\ c = (a + 8) - n)
  BY AheadStep
<1>3. Refilled(d, s, n) =
        IF d.bitsNeeded + n < 0 THEN [d EXCEPT !.value = Shl(@, n), !.bitsNeeded = @ + n]
        ELSE [d EXCEPT !.value = Shl(@, n) + Shl(ByteAt(s, d.read + 1), d.bitsNeeded + n),
                       !.bitsNeeded = @ + n - 8, !.read = @ + 1]
  BY Zenon DEF Refilled
<1>4. d.value = v /\ d.range = r /\ d.bitsNeeded = (-1) - a /\ d.read = k
  BY AtFields
<1>5. d = [value |-> v, range |-> r, bitsNeeded |-> (-1) - a, read |-> k]
  BY DEF At
<1>6. At(v * Power(n) + More(e, s, n), r, f) =
        [value |-> v * Power(n) + More(e, s, n), range |-> r, bitsNeeded |-> (-1) - c, read |-> BytesRead(f)]
  BY DEF At
<1>7. More(e, s, n) = IF n <= a THEN 0 ELSE b * Power((n - 1) - a)
  BY DEF More
<1>8. Shl(v, n) = v * Power(n) /\ Shl(b, ((-1) - a) + n) = b * Power(((-1) - a) + n)
  BY DEF Shl, Power
<1>9. Power(n) \in Nat
  <2>1. n \in 0..31
    BY <1>1
  <2> QED BY <2>1, PowerNext
<1> HIDE DEF a, c, k, d, b
<1>10. CASE n <= a
  <2>1. ((-1) - a) + n < 0 /\ ((-1) - a) + n = (-1) - c /\ BytesRead(f) = k
    BY <1>1, <1>2, <1>10
  <2>2. Refilled(d, s, n) = [d EXCEPT !.value = Shl(@, n), !.bitsNeeded = @ + n]
    BY <1>3, <1>4, <2>1
  <2>3. Refilled(d, s, n) = [d EXCEPT !.value = v * Power(n), !.bitsNeeded = (-1) - c]
    BY <1>4, <1>8, <2>1, <2>2
  <2>4. Refilled(d, s, n) = [value |-> v * Power(n), range |-> r, bitsNeeded |-> (-1) - c, read |-> k]
    BY <1>5, <2>3
  <2>5. v * Power(n) = v * Power(n) + More(e, s, n)
    BY <1>7, <1>9, <1>10
  <2> QED BY <1>6, <2>1, <2>4, <2>5 DEF d
<1>11. CASE n > a
  <2>1. ((-1) - a) + n >= 0 /\ ((-1) - a) + n - 8 = (-1) - c /\ BytesRead(f) = k + 1
          /\ ((-1) - a) + n = (n - 1) - a /\ ~(n <= a)
    BY <1>1, <1>2, <1>11
  <2>a. ~(((-1) - a) + n < 0)
    BY <1>1, <2>1
  <2>2. Refilled(d, s, n) = [d EXCEPT !.value = Shl(@, n) + Shl(ByteAt(s, d.read + 1), d.bitsNeeded + n),
                       !.bitsNeeded = @ + n - 8, !.read = @ + 1]
    BY <1>3, <1>4, <2>a
  <2>3. Shl(ByteAt(s, d.read + 1), d.bitsNeeded + n) = More(e, s, n)
    <3>1. Shl(b, ((-1) - a) + n) = More(e, s, n)
      BY <1>7, <1>8, <2>1
    <3> QED BY <1>4, <3>1 DEF b
  <2>4. Refilled(d, s, n) = [d EXCEPT !.value = v * Power(n) + More(e, s, n), !.bitsNeeded = (-1) - c,
          !.read = k + 1]
    <3> DEFINE m == Shl(ByteAt(s, d.read + 1), d.bitsNeeded + n)
               dv == d.value
               db == d.bitsNeeded
               dr == d.read
    <3>1. Refilled(d, s, n) = [d EXCEPT !.value = Shl(dv, n) + m, !.bitsNeeded = db + n - 8, !.read = dr + 1]
      BY <2>2
    <3>2. Shl(dv, n) + m = v * Power(n) + More(e, s, n) /\ db + n - 8 = (-1) - c /\ dr + 1 = k + 1
      BY <1>4, <1>8, <2>1, <2>3
    <3> HIDE DEF m, dv, db, dr
    <3> QED BY <3>1, <3>2
  <2>5. Refilled(d, s, n) = [value |-> v * Power(n) + More(e, s, n), range |-> r,
          bitsNeeded |-> (-1) - c, read |-> k + 1]
    BY <1>5, <2>4
  <2> QED BY <1>6, <2>1, <2>5 DEF d
<1> QED BY <1>1, <1>10, <1>11

(* What is read is a number.                                                *)
LEMMA MoreNumber ==
  ASSUME NEW e, EncoderInv(e), NEW f, NEW n, NEW add, NEW range, Narrows(e, f, n, add, range),
         NEW s, IsBytes(s), BytesRead(f) <= Len(s)
  PROVE  More(e, s, n) \in Int
<1> DEFINE b == ByteAt(s, BytesRead(e) + 1)
           a == Ahead(e)
<1>1. a \in 0..7 /\ n \in 0..8
  BY BitsFacts DEF Narrows, Within
<1>2. n > a => b \in 0..255
  BY CodedStep
<1> HIDE DEF a, b
<1>3. ASSUME n > a PROVE Power((n - 1) - a) \in Nat
  <2>1. (n - 1) - a \in 0..31
    BY <1>1, <1>3
  <2> QED BY <2>1, PowerNext
<1>4. n <= a \/ n > a
  BY <1>1
<1>5. More(e, s, n) = IF n <= a THEN 0 ELSE b * Power((n - 1) - a)
  BY DEF More, a, b
<1>6. CASE n <= a
  BY <1>5, <1>6
<1>7. CASE n > a
  <2>1. ~(n <= a)
    BY <1>1, <1>7
  <2>2. b * Power((n - 1) - a) \in Int
    <3> DEFINE p == Power((n - 1) - a)
    <3>1. p \in Nat /\ b \in 0..255
      BY <1>2, <1>3, <1>7
    <3> HIDE DEF p
    <3>2. b * p \in Int
      BY <3>1
    <3> QED BY <3>2 DEF p
  <2> QED BY <1>5, <2>1, <2>2
<1> QED BY <1>4, <1>6, <1>7

(* So a step of the decoder: what is coded is taken off before or after the *)
(* bits are used                                                            *)
LEMMA RefilledFollows ==
  ASSUME NEW e, EncoderInv(e), NEW f, NEW n, NEW add, NEW range, Narrows(e, f, n, add, range),
         NEW s, IsBytes(s), BytesRead(f) <= Len(s), NEW r, NEW v, v \in Int, Value(e, s) \in Int,
         v * Power(n) = Value(e, s) * Power(n) - add * 128
  PROVE  Refilled(At(v, r, e), s, n) = At(Value(f, s), r, f)
<1>1. Refilled(At(v, r, e), s, n) = At(v * Power(n) + More(e, s, n), r, f)
  BY RefilledFacts
<1>2. Value(f, s) = (Value(e, s) * Power(n) + More(e, s, n)) - add * 128
  BY ValueStep
<1>3. More(e, s, n) \in Int
  BY MoreNumber
<1>4. v * Power(n) + More(e, s, n) = (Value(e, s) * Power(n) + More(e, s, n)) - add * 128
  <2> DEFINE m == More(e, s, n)
             w == Value(e, s) * Power(n)
             x == add * 128
  <2>1. m \in Int /\ w \in Int /\ x \in Int /\ v * Power(n) = w - x
    <3>1. n \in 0..31 /\ add \in Nat
      BY DEF Narrows, Within
    <3>2. Power(n) \in Nat
      BY <3>1, PowerNext
    <3> QED BY <1>3, <3>1, <3>2
  <2> HIDE DEF m, w, x
  <2>2. (w - x) + m = (w + m) - x
    BY <2>1
  <2> QED BY <2>1, <2>2 DEF m, w, x
<1> QED BY <1>1, <1>2, <1>4

(* The upper part of the interval                                           *)
LEMMA UpperFollows ==
  ASSUME NEW e, EncoderInv(e), NEW f, NEW n, NEW sub, NEW r, Narrows(e, f, n, sub * Power(n), r * Power(n)),
         sub \in Nat, r \in Nat, NEW s, IsBytes(s), Codes(f, s), NEW q
  PROVE  /\ Value(e, s) \in Int /\ Value(e, s) >= sub * 128
         /\ Refilled(At(Value(e, s) - sub * 128, q, e), s, n) = At(Value(f, s), q, f)
<1> DEFINE v == Value(e, s)
           top == sub + r
<1>1. n \in 0..31
  BY DEF Narrows, Within
<1>2. Power(n) \in Nat
  BY <1>1, PowerNext
<1>3. BytesRead(f) <= Len(s)
  BY DEF Codes
<1>4. top \in Nat /\ sub * Power(n) <= sub * Power(n) /\ sub * Power(n) + r * Power(n) <= top * Power(n)
  <2>1. sub * Power(n) + r * Power(n) = top * Power(n) /\ sub * Power(n) \in Nat /\ r * Power(n) \in Nat
    BY <1>2
  <2> DEFINE a == sub * Power(n)
             b == r * Power(n)
             c == top * Power(n)
  <2>2. a \in Nat /\ b \in Nat /\ a + b = c
    BY <2>1
  <2> HIDE DEF a, b, c
  <2>3. a <= a /\ a + b <= c
    BY <2>2
  <2> QED BY <2>3 DEF a, b, c
<1> HIDE DEF top
<1>5. v \in Int /\ sub * 128 <= v
  <2>1. Offers(n, sub * Power(n), r * Power(n), sub, top)
    BY <1>4 DEF Offers
  <2> QED BY <2>1, ValueBetween
<1> DEFINE w == v - sub * 128
<1>6. w \in Int /\ w * Power(n) = v * Power(n) - (sub * Power(n)) * 128
  BY <1>2, <1>5
<1> HIDE DEF w
<1>7. Refilled(At(w, q, e), s, n) = At(Value(f, s), q, f)
  BY <1>3, <1>5, <1>6, RefilledFollows
<1>8. v >= sub * 128
  BY <1>5
<1> QED BY <1>5, <1>7, <1>8 DEF w

(* The lower part of it, with and without a shift                           *)
LEMMA LowerFollows ==
  ASSUME NEW e, EncoderInv(e), NEW f, NEW n, NEW r, Narrows(e, f, n, 0, r * Power(n)),
         r \in Nat, NEW s, IsBytes(s), Codes(f, s), NEW q
  PROVE  /\ Value(e, s) \in Int /\ Value(e, s) < r * 128
         /\ Refilled(At(Value(e, s), q, e), s, n) = At(Value(f, s), q, f)
         /\ n = 0 => At(Value(e, s), q, e) = At(Value(f, s), q, f)
<1> DEFINE v == Value(e, s)
           z == 0
<1>1. n \in 0..31
  BY DEF Narrows, Within
<1>2. Power(n) \in Nat
  BY <1>1, PowerNext
<1>3. BytesRead(f) <= Len(s)
  BY DEF Codes
<1>4. z \in Nat /\ z * Power(n) <= z /\ z + r * Power(n) <= r * Power(n)
  <2> DEFINE a == r * Power(n)
             b == Power(n)
  <2>1. a \in Nat /\ b \in Nat
    BY <1>2
  <2> HIDE DEF a, b
  <2>2. 0 * b <= 0 /\ 0 + a <= a
    BY <2>1
  <2> QED BY <2>2 DEF a, b
<1>5. Narrows(e, f, n, z, r * Power(n))
  OBVIOUS
<1> HIDE DEF z
<1>6. v \in Int /\ v < r * 128
  <2>1. Offers(n, z, r * Power(n), z, r)
    BY <1>4 DEF Offers
  <2> QED BY <1>5, <2>1, ValueBetween
<1>7. v * Power(n) = v * Power(n) - z * 128
  <2> DEFINE a == v * Power(n)
  <2>1. a \in Int /\ z = 0
    BY <1>2, <1>6 DEF z
  <2> HIDE DEF a
  <2>2. a = a - z * 128
    BY <2>1
  <2> QED BY <2>2 DEF a
<1>8. Refilled(At(v, q, e), s, n) = At(Value(f, s), q, f)
  BY <1>3, <1>5, <1>6, <1>7, RefilledFollows
<1>9. ASSUME n = 0 PROVE At(v, q, e) = At(Value(f, s), q, f)
  <2>1. n <= Ahead(e) /\ Ahead(e) - n = Ahead(e)
    BY <1>9, BitsFacts
  <2>2. BytesRead(f) = BytesRead(e) /\ Ahead(f) = Ahead(e)
    BY <2>1, AheadStep
  <2>3. Value(f, s) = (v * Power(n) + More(e, s, n)) - z * 128
    BY <1>3, <1>5, ValueStep
  <2>4. Power(n) = 1 /\ More(e, s, n) = 0
    BY <1>9, <2>1, PowerTable DEF More
  <2>5. Value(f, s) = v
    BY <1>6, <2>3, <2>4 DEF z
  <2> QED BY <2>2, <2>5 DEF At
<1> QED BY <1>6, <1>8, <1>9

(* After a bin that is not the upper part, the decoder doubles a range      *)
(* below 256                                                                *)
LEMMA KeptOrDoubled ==
  ASSUME NEW e, EncoderInv(e), NEW f, NEW r, r \in 128..508, NEW s, IsBytes(s), Codes(f, s),
         r >= 256 => Narrows(e, f, 0, 0, r), r < 256 => Narrows(e, f, 1, 0, 2 * r)
  PROVE  /\ Value(e, s) \in Int /\ Value(e, s) < r * 128
         /\ (IF r < 256 THEN [Refilled(At(Value(e, s), r, e), s, 1) EXCEPT !.range = 2 * r]
              ELSE At(Value(e, s), r, e))
              = DecoderOf(f, s)
<1>1. CASE r < 256
  <2> DEFINE n == 1
  <2>1. r * Power(n) = 2 * r /\ r \in Nat
    BY PowerTable
  <2>2. Narrows(e, f, n, 0, r * Power(n))
    BY <1>1, <2>1
  <2>3. f.range = 2 * r
    BY <1>1 DEF Narrows, Narrowed
  <2> HIDE DEF n
  <2>4. /\ Value(e, s) \in Int /\ Value(e, s) < r * 128
        /\ Refilled(At(Value(e, s), r, e), s, n) = At(Value(f, s), r, f)
    BY <2>1, <2>2, LowerFollows
  <2>5. [At(Value(f, s), r, f) EXCEPT !.range = 2 * r] = At(Value(f, s), 2 * r, f)
    BY AtFields
  <2>6. At(Value(f, s), 2 * r, f) = DecoderOf(f, s)
    BY <2>3 DEF At, DecoderOf
  <2> QED BY <1>1, <2>4, <2>5, <2>6 DEF n
<1>2. CASE r >= 256
  <2> DEFINE n == 0
  <2>1. r * Power(n) = r /\ r \in Nat
    BY PowerTable
  <2>2. Narrows(e, f, n, 0, r * Power(n))
    BY <1>2, <2>1
  <2>3. f.range = r
    BY <1>2 DEF Narrows, Narrowed
  <2>4. n = 0
    OBVIOUS
  <2> HIDE DEF n
  <2>5. /\ Value(e, s) \in Int /\ Value(e, s) < r * 128
        /\ At(Value(e, s), r, e) = At(Value(f, s), r, f)
    BY <2>1, <2>2, <2>4, LowerFollows
  <2>6. At(Value(f, s), r, f) = DecoderOf(f, s)
    BY <2>3 DEF At, DecoderOf
  <2>7. ~(r < 256)
    BY <1>2
  <2> QED BY <2>5, <2>6, <2>7
<1> QED BY <1>1, <1>2

(* The fields of the decoder that has followed.                             *)
LEMMA DecoderOfFields ==
  ASSUME NEW e, NEW s
  PROVE  /\ DecoderOf(e, s) = At(Value(e, s), e.range, e)
         /\ DecoderOf(e, s).value = Value(e, s) /\ DecoderOf(e, s).range = e.range
         /\ DecoderOf(e, s).bitsNeeded = (-1) - Ahead(e) /\ DecoderOf(e, s).read = BytesRead(e)
         /\ \A q : [DecoderOf(e, s) EXCEPT !.range = q] = At(Value(e, s), q, e)
  BY DEF DecoderOf, At

(* A bin with a context is decoded                                          *)
LEMMA BinDecoded ==
  ASSUME NEW e, EncoderInv(e), NEW s, s.q \in 0..31, s.mps \in {0, 1}, s.val \in {0, 1},
         NEW t, IsBytes(t), NEW f, f = EncodeBin(e, s), Codes(f, t)
  PROVE  DecodeBin(DecoderOf(e, t), t, s) = Result(s.val, DecoderOf(f, t))
<1> DEFINE d == DecoderOf(e, t)
           v == Value(e, t)
           lps == Lps(e.range, s)
           r == e.range - lps
           n == RenormBits(lps)
           u == Shl(r, 7)
           g == At(v, r, e)
<1>1. /\ lps \in 4..236 /\ r \in 128..506 /\ n \in 1..6 /\ lps * Power(n) \in 256..510
      /\ s.val # s.mps => Narrows(e, f, n, r * Power(n), lps * Power(n))
      /\ s.val = s.mps /\ r < 256 => Narrows(e, f, 1, 0, 2 * r)
      /\ s.val = s.mps /\ r >= 256 => Narrows(e, f, 0, 0, r)
  BY BinNarrows
<1>2. d.range = e.range /\ d.value = v /\ [d EXCEPT !.range = r] = g
  BY DecoderOfFields
<1>3. g.value = v
  BY AtFields
<1>4. u = r * 128
  <2>1. u = r * Power(7)
    BY DEF Shl, Power
  <2> QED BY <2>1, PowerTable
<1>5. DecodeBin(d, t, s) =
        IF d.value >= u
        THEN Result(1 - s.mps, [Refilled([g EXCEPT !.value = @ - u], t, n) EXCEPT !.range = Shl(lps, n)])
        ELSE Result(s.mps, IF r < 256 THEN [Refilled(g, t, 1) EXCEPT !.range = 2 * r] ELSE g)
  <2> DEFINE dl == Lps(d.range, s)
             dr == d.range - dl
             du == Shl(dr, 7)
             dg == [d EXCEPT !.range = dr]
  <2>1. DecodeBin(d, t, s) =
        IF d.value >= du
        THEN Result(1 - s.mps,
               [Refilled([dg EXCEPT !.value = @ - du], t, RenormBits(dl))
                   EXCEPT !.range = Shl(dl, RenormBits(dl))])
        ELSE Result(s.mps, IF dr < 256 THEN [Refilled(dg, t, 1) EXCEPT !.range = 2 * dr] ELSE dg)
    BY Zenon DEF DecodeBin
  <2>2. dl = lps /\ dr = r
    BY <1>2
  <2>3. du = u /\ dg = g /\ RenormBits(dl) = n /\ Shl(dl, RenormBits(dl)) = Shl(lps, n)
    BY <1>2, <2>2
  <2> HIDE DEF dl, dr, du, dg, d, u, r, g, n, lps
  <2> QED BY <2>1, <2>2, <2>3
<1>6. [g EXCEPT !.value = @ - u] = At(v - u, r, e)
  BY DEF At
<1>7. Shl(lps, n) = lps * Power(n)
  BY DEF Shl, Power
<1> HIDE DEF d, v, lps, r, n, u, g
<1>8. CASE s.val # s.mps
  <2>1. Narrows(e, f, n, r * Power(n), lps * Power(n)) /\ r \in Nat /\ lps \in Nat
    BY <1>1, <1>8
  <2>2. v >= r * 128 /\ Refilled(At(v - r * 128, r, e), t, n) = At(Value(f, t), r, f)
    BY <2>1, UpperFollows DEF v
  <2>3. d.value >= u
    BY <1>2, <1>4, <2>2
  <2>4. f.range = lps * Power(n)
    BY <2>1 DEF Narrows, Narrowed
  <2>5. Refilled([g EXCEPT !.value = @ - u], t, n) = At(Value(f, t), r, f)
    BY <1>4, <1>6, <2>2
  <2>6. [At(Value(f, t), r, f) EXCEPT !.range = Shl(lps, n)] = DecoderOf(f, t)
    <3>1. [At(Value(f, t), r, f) EXCEPT !.range = lps * Power(n)] = At(Value(f, t), lps * Power(n), f)
      BY AtFields
    <3> QED BY <1>7, <2>4, <3>1, DecoderOfFields
  <2>7. 1 - s.mps = s.val
    BY <1>8
  <2> QED BY <1>5, <2>3, <2>5, <2>6, <2>7 DEF d
<1>9. CASE s.val = s.mps
  <2>1. r \in 128..508 /\ (r >= 256 => Narrows(e, f, 0, 0, r)) /\ (r < 256 => Narrows(e, f, 1, 0, 2 * r))
    BY <1>1, <1>9
  <2>2. /\ v \in Int /\ v < r * 128
        /\ (IF r < 256 THEN [Refilled(g, t, 1) EXCEPT !.range = 2 * r] ELSE g) = DecoderOf(f, t)
    BY <2>1, KeptOrDoubled DEF v, g
  <2>3. ~(d.value >= u)
    <3>1. v \in Int /\ r * 128 \in Int /\ v < r * 128
      BY <1>1, <2>2
    <3>2. ~(v >= r * 128)
      BY <3>1
    <3> QED BY <1>2, <1>4, <3>2
  <2> QED BY <1>5, <1>9, <2>2, <2>3 DEF d
<1> QED BY <1>8, <1>9

(* A terminate bin that does not end the slice is decoded                   *)
LEMMA TrmDecoded ==
  ASSUME NEW e, EncoderInv(e), NEW t, IsBytes(t), NEW f, f = EncodeBinTrm(e, 0), Codes(f, t)
  PROVE  DecodeBinTrm(DecoderOf(e, t), t) = Result(0, DecoderOf(f, t))
<1> DEFINE d == DecoderOf(e, t)
           v == Value(e, t)
           r == e.range - 2
           u == Shl(r, 7)
           g == At(v, r, e)
<1>1. r \in 254..508 /\ (r >= 256 => Narrows(e, f, 0, 0, r)) /\ (r < 256 => Narrows(e, f, 1, 0, 2 * r))
  BY TrmNarrows
<1>2. d.range = e.range /\ d.value = v /\ [d EXCEPT !.range = r] = g
  BY DecoderOfFields
<1>4. u = r * 128
  <2>1. u = r * Power(7)
    BY DEF Shl, Power
  <2> QED BY <2>1, PowerTable
<1>5. DecodeBinTrm(d, t) =
        IF d.value >= u THEN Result(1, g)
        ELSE Result(0, IF r < 256 THEN [Refilled(g, t, 1) EXCEPT !.range = 2 * r] ELSE g)
  <2> DEFINE dr == d.range - 2
             dg == [d EXCEPT !.range = dr]
  <2>1. DecodeBinTrm(d, t) =
        IF d.value >= Shl(dr, 7) THEN Result(1, dg)
        ELSE Result(0, IF dr < 256 THEN [Refilled(dg, t, 1) EXCEPT !.range = 2 * dr] ELSE dg)
    BY Zenon DEF DecodeBinTrm
  <2>2. dr = r
    BY <1>2
  <2>3. dg = g
    BY <1>2, <2>2
  <2> HIDE DEF dr, dg, d, r, g
  <2> QED BY <2>1, <2>2, <2>3
<1> HIDE DEF d, v, r, u, g
<1>6. /\ v \in Int /\ v < r * 128
      /\ (IF r < 256 THEN [Refilled(g, t, 1) EXCEPT !.range = 2 * r] ELSE g) = DecoderOf(f, t)
  <2>1. r \in 128..508
    BY <1>1
  <2> QED BY <1>1, <2>1, KeptOrDoubled DEF v, g
<1>7. ~(d.value >= u)
  <2>1. v \in Int /\ r * 128 \in Int /\ v < r * 128
    BY <1>1, <1>6
  <2>2. ~(v >= r * 128)
    BY <2>1
  <2> QED BY <1>2, <1>4, <2>2
<1> QED BY <1>5, <1>6, <1>7 DEF d

(* A quotient, from the multiples around the number.                        *)
LEMMA Division ==
  ASSUME NEW w, NEW q, NEW b, w \in Int, q \in Nat \ {0}, b \in Nat, b * q <= w, w < (b + 1) * q
  PROVE  w \div q = b /\ w % q = w - b * q /\ w \in Nat
<1> DEFINE x == b * q
<1>1. x \in Nat /\ (b + 1) * q = x + q
  OBVIOUS
<1>2. x <= w /\ w < x + q
  BY <1>1
<1> DEFINE d == w \div q
           r == w % q
<1>0. w \in Nat
  <2> HIDE DEF x
  <2> QED BY <1>1, <1>2
<1>3. d \in Int /\ r \in 0..(q - 1) /\ w = q * d + r
  BY <1>0
<1> HIDE DEF d, r
<1>4. d = b
  <2>1. q * b = x
    OBVIOUS
  <2>2. CASE d < b
    <3>1. d + 1 <= b
      BY <1>3, <2>2
    <3>2. q * (d + 1) <= q * b /\ q * (d + 1) = q * d + q
      BY <1>3, <3>1
    <3> DEFINE y == q * d
               z == q * b
    <3>3. y \in Int /\ z \in Int /\ y + q <= z /\ z <= w /\ w = y + r
      BY <1>1, <1>2, <1>3, <2>1, <3>2
    <3> HIDE DEF y, z
    <3> QED BY <1>3, <3>3
  <2>3. CASE d > b
    <3>1. b + 1 <= d
      BY <1>3, <2>3
    <3>2. q * (b + 1) <= q * d /\ q * (b + 1) = q * b + q
      BY <1>3, <3>1
    <3> DEFINE y == q * d
    <3>3. y \in Int /\ x + q <= y /\ w < x + q /\ w = y + r
      BY <1>1, <1>2, <1>3, <2>1, <3>2
    <3> HIDE DEF y, x
    <3> QED BY <1>1, <1>3, <3>3
  <2> QED BY <1>3, <2>2, <2>3
<1>5. r = w - x
  <2>1. q * d = x
    BY <1>4
  <2> HIDE DEF x
  <2> QED BY <1>1, <1>3, <2>1
<1> QED BY <1>0, <1>4, <1>5 DEF d, r

(* The register stays below the scaled range                                *)
LEMMA ValueRange ==
  ASSUME NEW f, EncoderInv(f), NEW s, IsBytes(s), Codes(f, s)
  PROVE  Value(f, s) \in Nat /\ Value(f, s) < f.range * 128
<1> DEFINE n == 0
           z == 0
           r == f.range
<1>1. r \in 256..510 /\ Low(f) \in Nat /\ Bits(f) \in Nat
  BY RangeFacts, BitsFacts
<1>2. Power(n) = 1
  BY PowerTable
<1>3. Within(f, n, z, r)
  BY <1>1, <1>2 DEF Within
<1>4. Low(f) = Low(f) * Power(n) + z /\ Bits(f) = Bits(f) + n
  BY <1>1, <1>2
<1>5. Narrows(f, f, n, z, r)
  BY <1>3, <1>4 DEF Narrows, Narrowed
<1>6. z \in Nat /\ r \in Nat /\ z * Power(n) <= z /\ z + r <= r * Power(n)
  BY <1>1, <1>2
<1> HIDE DEF n, r, z
<1>7. Value(f, s) \in Int /\ z * 128 <= Value(f, s) /\ Value(f, s) < r * 128
  BY <1>5, <1>6, ValueWithin
<1> QED BY <1>7 DEF z, r

(* Up to eight bypass bins are decoded by the subtractions of decodeBinsEP. *)
LEMMA ByteDecoded ==
  ASSUME NEW e, EncoderInv(e), NEW n \in 1..8, NEW bins \in Nat, bins < Power(n),
         NEW t, IsBytes(t), NEW f, f = EncodeByte(e, bins, n), Codes(f, t)
  PROVE  DecodeByte(DecoderOf(e, t), t, n) = Result(bins, DecoderOf(f, t))
<1> DEFINE d == DecoderOf(e, t)
           v == Value(e, t)
           r == e.range
           w == v * Power(n) + More(e, t, n)
           g == At(w, r, f)
           u == Shl(r, 7)
<1>1. Narrows(e, f, n, r * bins, r) /\ EncoderInv(f) /\ f.range = r
  BY ByteNarrows, AheadStep
<1>2. r \in 256..510 /\ Power(n) \in Nat \ {0}
  <2>1. n \in 0..31
    OBVIOUS
  <2> QED BY <2>1, RangeFacts, PowerNext
<1>3. BytesRead(f) <= Len(t) /\ v \in Int
  <2>1. Codes(e, t)
    BY <1>1, CodesBack
  <2> QED BY <2>1, ValueRange DEF Codes
<1>4. Refilled(d, t, n) = g
  <2>1. Refilled(At(v, r, e), t, n) = g
    BY <1>1, <1>3, RefilledFacts
  <2> QED BY <2>1, DecoderOfFields
<1>5. Value(f, t) = w - (r * bins) * 128
  BY <1>1, <1>3, ValueStep
<1>6. Value(f, t) \in Nat /\ Value(f, t) < r * 128
  BY <1>1, ValueRange
<1>7. u = r * 128
  <2>1. u = r * Power(7)
    BY DEF Shl, Power
  <2> QED BY <2>1, PowerTable
<1>8. g.value = w /\ d.range = r
  BY AtFields, DecoderOfFields
<1>9. DecodeByte(d, t, n) = LET fits == w \div u
                                b == IF fits < Power(n) THEN fits ELSE Power(n) - 1
                            IN Result(b, [g EXCEPT !.value = @ - b * u])
  <2> DEFINE h == Refilled(d, t, n)
             fits == h.value \div Shl(d.range, 7)
             b == IF fits < 2^n THEN fits ELSE 2^n - 1
  <2>1. DecodeByte(d, t, n) = Result(b, [h EXCEPT !.value = @ - b * Shl(d.range, 7)])
    BY Zenon DEF DecodeByte
  <2>2. h = g /\ Shl(d.range, 7) = u
    BY <1>4, <1>8
  <2>3. h.value = w
    BY <1>8, <2>2
  <2>4. fits = w \div u
    BY <2>2, <2>3
  <2> HIDE DEF d, w, g, u, h, fits
  <2> QED BY <2>1, <2>2, <2>4 DEF Power
<1> HIDE DEF g, u, d
<1>10. w \in Int /\ bins * u <= w /\ w < (bins + 1) * u /\ u \in Nat \ {0}
  <2>0. More(e, t, n) \in Int
    BY <1>1, <1>3, MoreNumber
  <2>1. w \in Int
    <3> DEFINE m == More(e, t, n)
    <3>1. m \in Int
      BY <2>0
    <3> HIDE DEF m, v
    <3>2. v * Power(n) + m \in Int
      BY <1>2, <1>3, <3>1 DEF v
    <3> QED BY <3>2 DEF m, v
  <2> DEFINE k == Value(f, t)
  <2> HIDE DEF w, k
  <2>2. k = w - (r * bins) * 128 /\ k \in Nat /\ k < r * 128
    BY <1>5, <1>6 DEF k
  <2> HIDE DEF r
  <2>3. (r * bins) * 128 = bins * (r * 128) /\ (bins + 1) * (r * 128) = bins * (r * 128) + r * 128
    BY <1>2 DEF r
  <2> DEFINE x == bins * u
  <2>4. x \in Nat /\ u \in Nat \ {0} /\ k = w - x /\ k < u /\ (bins + 1) * u = x + u
    <3>1. u \in Nat \ {0}
      BY <1>2, <1>7 DEF r
    <3> QED BY <1>7, <2>2, <2>3, <3>1
  <2> HIDE DEF x
  <2>5. x <= w /\ w < x + u
    BY <2>1, <2>2, <2>4
  <2> QED BY <2>1, <2>4, <2>5 DEF x
<1>11. w \div u = bins
  <2> HIDE DEF w
  <2> QED BY <1>10, Division
<1>12. DecodeByte(d, t, n) = Result(bins, [g EXCEPT !.value = @ - bins * u])
  <2> HIDE DEF w
  <2> QED BY <1>9, <1>11
<1>13. [g EXCEPT !.value = @ - bins * u] = DecoderOf(f, t)
  <2>1. w - bins * u = Value(f, t)
    <3>1. (r * bins) * 128 = bins * (r * 128)
      BY <1>2
    <3> QED BY <1>5, <1>7, <3>1
  <2>2. [g EXCEPT !.value = @ - bins * u] = At(w - bins * u, r, f)
    BY AtFields DEF g
  <2> QED BY <1>1, <2>1, <2>2, DecoderOfFields
<1> QED BY <1>12, <1>13 DEF d

(* The powers of the aligned coding.                                        *)
LEMMA AlignedPowers ==
  ASSUME NEW n \in 1..8
  PROVE  /\ Power(n) \in Nat \ {0} /\ Power(8 - n) \in Nat \ {0} /\ Power(15 - n) \in Nat \ {0}
         /\ Power(8 - n) * Power(n) = 256 /\ Power(8 - n) * 128 = Power(15 - n)
<1>1. n \in 0..8 /\ 8 - n \in 0..23 /\ 15 - n \in 0..31 /\ n \in 0..31 /\ 8 - n \in 0..31
      /\ (8 - n) + n = 8 /\ (8 - n) + 7 = 15 - n
  OBVIOUS
<1> DEFINE k == 8 - n
           s == 7
<1>2. Power(n) \in Nat \ {0} /\ Power(k) \in Nat \ {0} /\ Power(15 - n) \in Nat \ {0}
  BY <1>1, PowerNext
<1>3. k \in 0..23 /\ n \in 0..8 /\ s \in 0..8 /\ k + n = 8 /\ k + s = 15 - n
  BY <1>1
<1> HIDE DEF k, s
<1>4. Power(k + n) = Power(k) * Power(n) /\ Power(k + s) = Power(k) * Power(s)
  BY <1>3, PowerSum
<1>5. Power(8) = 256 /\ Power(s) = 128
  BY PowerTable DEF s
<1> QED BY <1>2, <1>3, <1>4, <1>5 DEF k

(* With a range of 256 they are decoded by the upper bits of the value.     *)
LEMMA AlignedDecoded ==
  ASSUME NEW e, EncoderInv(e), e.range = 256, NEW n \in 1..8, NEW bins \in Nat, bins < Power(n),
         NEW t, IsBytes(t), NEW f, f = EncodeByte(e, bins, n), Codes(f, t)
  PROVE  DecodeAligned(DecoderOf(e, t), t, n) = Result(bins, DecoderOf(f, t))
<1> DEFINE d == DecoderOf(e, t)
           v == Value(e, t)
           pn == Power(n)
           p8 == Power(8 - n)
           q == Power(15 - n)
           sub == bins * p8
           top == (bins + 1) * p8
           w == v - bins * q
           g == At(w, 256, e)
<1>1. Narrows(e, f, n, 256 * bins, 256) /\ EncoderInv(f) /\ f.range = 256
  <2>1. Narrows(e, f, n, e.range * bins, e.range)
    BY ByteNarrows
  <2> QED BY <2>1, AheadStep
<1>2. pn \in Nat \ {0} /\ p8 \in Nat \ {0} /\ q \in Nat \ {0} /\ p8 * pn = 256 /\ p8 * 128 = q
  BY AlignedPowers
<1>3. BytesRead(f) <= Len(t)
  BY DEF Codes
<1>4. v \in Int /\ bins * q <= v /\ v < (bins + 1) * q
  <2>1. sub \in Nat /\ top \in Nat /\ sub * pn = 256 * bins /\ top * pn = 256 * bins + 256
    <3>1. sub * pn = bins * (p8 * pn) /\ top * pn = (bins + 1) * (p8 * pn)
      BY <1>2
    <3> QED BY <1>2, <3>1
  <2>2. sub * 128 = bins * q /\ top * 128 = (bins + 1) * q
    <3>1. sub * 128 = bins * (p8 * 128) /\ top * 128 = (bins + 1) * (p8 * 128)
      BY <1>2
    <3> QED BY <1>2, <3>1
  <2> DEFINE add == 256 * bins
             range == 256
  <2>3. sub * pn <= add /\ add + range <= top * pn /\ Narrows(e, f, n, add, range)
    <3>1. add \in Nat /\ sub * pn = add /\ top * pn = add + range
      BY <2>1
    <3> HIDE DEF add
    <3>2. add <= add /\ add + range <= add + range
      BY <3>1
    <3> QED BY <1>1, <3>1, <3>2 DEF add
  <2> HIDE DEF sub, top, add, range
  <2>5. sub \in Nat /\ top \in Nat
    BY <2>1
  <2>4. v \in Int /\ sub * 128 <= v /\ v < top * 128
    BY <2>3, <2>5, ValueWithin
  <2> QED BY <2>2, <2>4
<1>5. v \div q = bins /\ v % q = w
  <2> HIDE DEF v, q
  <2> QED BY <1>2, <1>4, Division
<1>6. d.value = v /\ d.range = 256
  BY DecoderOfFields
<1>7. [d EXCEPT !.value = d.value % q] = g
  <2>1. d.value % q = w
    BY <1>5, <1>6
  <2>2. d = At(v, 256, e)
    BY DecoderOfFields
  <2> HIDE DEF w, v, d
  <2>3. [d EXCEPT !.value = w] = At(w, 256, e)
    BY <2>2, AtFields
  <2> QED BY <2>1, <2>3
<1>8. Shr(d.value, 15 - n) % pn = bins
  <2>1. Shr(d.value, 15 - n) = bins
    BY <1>5, <1>6 DEF Shr, Power
  <2>2. bins % pn = bins
    <3> HIDE DEF pn
    <3>1. bins \in Nat /\ 0 * pn <= bins /\ bins < (0 + 1) * pn
      BY <1>2 DEF pn
    <3> DEFINE z == 0
    <3>2. z \in Nat /\ z * pn <= bins /\ bins < (z + 1) * pn /\ bins \in Int
      BY <3>1
    <3> HIDE DEF z
    <3>3. bins % pn = bins - z * pn
      BY <1>2, <3>2, Division
    <3>4. bins - z * pn = bins
      BY <1>2 DEF z
    <3> QED BY <3>3, <3>4
  <2> QED BY <2>1, <2>2
<1>9. DecodeAligned(d, t, n) = Result(bins, Refilled(g, t, n))
  <2> DEFINE dd == [d EXCEPT !.value = @ % 2^(15 - n)]
  <2>1. DecodeAligned(d, t, n) = Result(Shr(d.value, 15 - n) % 2^n, Refilled(dd, t, n))
    BY Zenon DEF DecodeAligned
  <2>2. dd = g
    BY <1>7 DEF Power
  <2>3. Shr(d.value, 15 - n) % 2^n = bins
    BY <1>8 DEF Power
  <2> HIDE DEF dd, d, g
  <2> QED BY <2>1, <2>2, <2>3
<1>10. Refilled(g, t, n) = At(Value(f, t), 256, f)
  <2> DEFINE add == 256 * bins
             range == 256
  <2>1. w \in Int /\ w * pn = v * pn - add * 128
    <3>1. w * pn = v * pn - bins * (q * pn)
      BY <1>2, <1>4
    <3>2. q * pn = 32768
      <4>1. q * pn = (p8 * pn) * 128
        BY <1>2
      <4> QED BY <1>2, <4>1
    <3>3. bins * (q * pn) = add * 128
      BY <3>2
    <3>4. w \in Int
      BY <1>2, <1>4
    <3> QED BY <3>1, <3>3, <3>4
  <2>2. Narrows(e, f, n, add, range)
    BY <1>1
  <2> HIDE DEF w, add, range
  <2> QED BY <1>3, <1>4, <2>1, <2>2, RefilledFollows
<1>11. At(Value(f, t), 256, f) = DecoderOf(f, t)
  BY <1>1, DecoderOfFields
<1> QED BY <1>9, <1>10, <1>11 DEF d

(* Whichever way the decoder takes, it gets the bypass bins that were       *)
(* coded.                                                                   *)
LEMMA UpTo8Decoded ==
  ASSUME NEW e, EncoderInv(e), NEW n \in 1..8, NEW bins \in Nat, bins < Power(n),
         NEW t, IsBytes(t), NEW f, f = EncodeByte(e, bins, n), Codes(f, t)
  PROVE  DecodeUpTo8(DecoderOf(e, t), t, n) = Result(bins, DecoderOf(f, t))
<1>1. DecoderOf(e, t).range = e.range
  BY DecoderOfFields
<1>2. e.range = 256 => DecodeAligned(DecoderOf(e, t), t, n) = Result(bins, DecoderOf(f, t))
  BY AlignedDecoded
<1>3. DecodeByte(DecoderOf(e, t), t, n) = Result(bins, DecoderOf(f, t))
  BY ByteDecoded
<1> QED BY Zenon, <1>1, <1>2, <1>3 DEF DecodeUpTo8

(* Bypass bins: eight first, when there are more                            *)
LEMMA BypassDecoded ==
  ASSUME NEW e, EncoderInv(e), NEW n \in 1..16, NEW bins \in Nat, bins < Power(n)
  PROVE  LET f == EncodeBinsEP(e, bins, n)
         IN /\ EncoderInv(f)
            /\ \A t : IsBytes(t) /\ Codes(f, t) =>
                 Codes(e, t) /\ DecodeBinsEP(DecoderOf(e, t), t, n) = Result(bins, DecoderOf(f, t))
<1> DEFINE f == EncodeBinsEP(e, bins, n)
<1>1. CASE n <= 8
  <2>1. n \in 1..8
    BY <1>1
  <2>2. f = EncodeByte(e, bins, n)
    BY <1>1 DEF EncodeBinsEP
  <2> HIDE DEF f
  <2>3. Narrows(e, f, n, e.range * bins, e.range)
    BY <2>1, <2>2, ByteNarrows
  <2>4. EncoderInv(f)
    BY <2>3, AheadStep
  <2>5. ASSUME NEW t, IsBytes(t), Codes(f, t)
        PROVE  Codes(e, t) /\ DecodeBinsEP(DecoderOf(e, t), t, n) = Result(bins, DecoderOf(f, t))
    <3>1. Codes(e, t)
      BY <2>3, <2>5, CodesBack
    <3>2. DecodeUpTo8(DecoderOf(e, t), t, n) = Result(bins, DecoderOf(f, t))
      BY <2>1, <2>2, <2>5, UpTo8Decoded
    <3> QED BY <1>1, <3>1, <3>2 DEF DecodeBinsEP
  <2> QED BY <2>4, <2>5 DEF f
<1>2. CASE n > 8
  <2> DEFINE k == n - 8
             q == Power(k)
             hi == bins \div q
             lo == bins % q
             b8 == 8
             g == EncodeByte(e, hi, b8)
  <2>1. k \in 1..8 /\ ~(n <= 8) /\ n = k + b8
    BY <1>2
  <2>2. q \in Nat \ {0} /\ Power(n) = q * 256
    <3>1. k \in 0..23 /\ k \in 0..31 /\ b8 \in 0..8
      BY <2>1
    <3> HIDE DEF k, b8
    <3>2. Power(k) \in Nat \ {0} /\ Power(k + b8) = Power(k) * Power(b8)
      BY <3>1, PowerNext, PowerSum
    <3>3. Power(b8) = 256
      BY PowerTable DEF b8
    <3> QED BY <2>1, <3>2, <3>3
  <2>3. hi \in Nat /\ lo \in Nat /\ hi < Power(b8) /\ lo < q /\ hi * q + lo = bins
    <3> DEFINE h == hi
               l == lo
    <3> HIDE DEF q
    <3>1. h \in Nat /\ l \in 0..(q - 1) /\ bins = q * h + l
      BY <2>2
    <3> HIDE DEF h, l
    <3>2. h < 256
      <4> SUFFICES ASSUME h >= 256 PROVE FALSE
        BY <3>1
      <4>1. q * h >= q * 256
        BY <2>2, <3>1
      <4>2. bins < q * 256
        BY <2>2
      <4> DEFINE x == q * h
                 y == q * 256
      <4>3. x \in Nat /\ y \in Nat /\ x >= y /\ bins < y /\ bins = x + l /\ l \in Nat
        BY <2>2, <3>1, <4>1, <4>2
      <4> HIDE DEF x, y
      <4> QED BY <4>3
    <3>3. Power(b8) = 256
      BY PowerTable
    <3>4. h * q + l = bins /\ l < q /\ l \in Nat
      BY <2>2, <3>1
    <3> QED BY <3>1, <3>2, <3>3, <3>4 DEF h, l
  <2>4. f = EncodeByte(g, lo, k)
    BY <2>1 DEF EncodeBinsEP, Shr, Power
  <2>5. b8 \in 1..8
    OBVIOUS
  <2>a. Shr(bins, n - 8) = hi /\ Shl(hi, n - 8) = hi * q
    BY DEF Shr, Shl, Power
  <2>c. ASSUME NEW d, NEW t
        PROVE  DecodeBinsEP(d, t, n) =
                 LET first == DecodeUpTo8(d, t, b8)
                     rest == DecodeUpTo8(first.d, t, k)
                 IN Result(first.bins * q + rest.bins, rest.d)
    BY <2>1 DEF DecodeBinsEP, Shl, Power
  <2> HIDE DEF f, k, q, hi, lo, b8, g
  <2>6. Narrows(e, g, b8, e.range * hi, e.range)
    BY <2>3, <2>5, ByteNarrows DEF g
  <2>7. EncoderInv(g)
    BY <2>6, AheadStep
  <2>8. lo < Power(k)
    BY <2>3 DEF q
  <2>9. Narrows(g, f, k, g.range * lo, g.range)
    BY <2>1, <2>3, <2>4, <2>7, <2>8, ByteNarrows
  <2>10. EncoderInv(f)
    BY <2>7, <2>9, AheadStep
  <2>11. ASSUME NEW t, IsBytes(t), Codes(f, t)
         PROVE  Codes(e, t) /\ DecodeBinsEP(DecoderOf(e, t), t, n) = Result(bins, DecoderOf(f, t))
    <3>1. Codes(g, t)
      BY <2>7, <2>9, <2>11, CodesBack
    <3>2. Codes(e, t)
      <4> DEFINE add == e.range * hi
                 range == e.range
      <4>1. Narrows(e, g, b8, add, range)
        BY <2>6
      <4> HIDE DEF add, range
      <4> QED BY <2>11, <3>1, <4>1, CodesBack
    <3>3. DecodeUpTo8(DecoderOf(e, t), t, b8) = Result(hi, DecoderOf(g, t))
      BY <2>3, <2>5, <2>11, <3>1, UpTo8Decoded DEF g
    <3>4. DecodeUpTo8(DecoderOf(g, t), t, k) = Result(lo, DecoderOf(f, t))
      BY <2>1, <2>3, <2>4, <2>7, <2>8, <2>11, UpTo8Decoded
    <3> DEFINE first == DecodeUpTo8(DecoderOf(e, t), t, b8)
               rest == DecodeUpTo8(first.d, t, k)
    <3>5. first.bins = hi /\ first.d = DecoderOf(g, t)
      BY <3>3 DEF Result
    <3>6. rest.bins = lo /\ rest.d = DecoderOf(f, t)
      BY <3>4, <3>5 DEF Result
    <3>7. DecodeBinsEP(DecoderOf(e, t), t, n) = Result(first.bins * q + rest.bins, rest.d)
      BY <2>c
    <3> HIDE DEF first, rest
    <3>8. DecodeBinsEP(DecoderOf(e, t), t, n) = Result(bins, DecoderOf(f, t))
      BY <2>3, <3>5, <3>6, <3>7
    <3> QED BY <3>2, <3>8
  <2> QED BY <2>10, <2>11 DEF f
<1> QED BY <1>1, <1>2

(* What the decoder compares a symbol with                                  *)
Sent(s) == IF s.kind = "trm" THEN 0 ELSE s.val

(* What a symbol is                                                         *)
LEMMA SymbolFields ==
  ASSUME NEW s \in Symbols
  PROVE  /\ s.kind \in {"ctx", "ep", "trm"} /\ s.n \in 1..16 /\ s.q \in 0..31 /\ s.mps \in {0, 1}
         /\ s.val \in Nat
         /\ s.val < Power(s.n) /\ (s.kind = "ep" \/ s.n = 1)
<1> DEFINE S == [kind : {"ctx", "ep", "trm"}, n : 1..16, q : 0..31, mps : {0, 1}, val : Nat]
<1>1. s \in S
  <2>1. Symbols \subseteq S
    BY Zenon, CoderAssumption
  <2> HIDE DEF S
  <2> QED BY <2>1
<1>2. s.val < 2^s.n /\ (s.kind = "ep" \/ s.n = 1)
  <2>1. \A x \in Symbols : x.val < 2^x.n /\ (x.kind = "ep" \/ x.n = 1)
    BY Zenon, CoderAssumption
  <2> QED BY Zenon, <2>1
<1>3. s.kind \in {"ctx", "ep", "trm"} /\ s.n \in 1..16 /\ s.q \in 0..31 /\ s.mps \in {0, 1} /\ s.val \in Nat
  BY <1>1
<1> QED BY Zenon, <1>2, <1>3 DEF Power

(* Every symbol that is coded narrows the interval, and the decoder finds   *)
(* it again from any bytes in the interval after it: a context bin, up to   *)
(* 16 bypass bins, a terminate bin, with every carry that came meanwhile.   *)
THEOREM SymbolDecoded ==
  ASSUME NEW e, EncoderInv(e), NEW s \in Symbols
  PROVE  LET f == EncodeSymbol(e, s)
         IN /\ EncoderInv(f)
            /\ \A t : IsBytes(t) /\ Codes(f, t) =>
                 Codes(e, t) /\ DecodeSymbol(DecoderOf(e, t), t, s) = Result(Sent(s), DecoderOf(f, t))
<1> DEFINE f == EncodeSymbol(e, s)
<1>1. /\ s.kind \in {"ctx", "ep", "trm"} /\ s.n \in 1..16 /\ s.q \in 0..31 /\ s.mps \in {0, 1} /\ s.val \in Nat
      /\ s.val < Power(s.n) /\ (s.kind = "ep" \/ s.n = 1)
  BY SymbolFields
<1>2. CASE s.kind = "ctx"
  <2>1. f = EncodeBin(e, s) /\ Sent(s) = s.val
    BY <1>2 DEF EncodeSymbol, Sent
  <2>2. s.val \in {0, 1}
    BY <1>1, <1>2, PowerTable
  <2> DEFINE lps == Lps(e.range, s)
             r == e.range - lps
             n == RenormBits(lps)
  <2>3. /\ r \in 128..506
        /\ s.val # s.mps => Narrows(e, f, n, r * Power(n), lps * Power(n))
        /\ s.val = s.mps /\ r < 256 => Narrows(e, f, 1, 0, 2 * r)
        /\ s.val = s.mps /\ r >= 256 => Narrows(e, f, 0, 0, r)
    BY <1>1, <2>1, BinNarrows
  <2> HIDE DEF lps, r, n, f
  <2>4. PICK k, add, range : Narrows(e, f, k, add, range)
    <3>1. r < 256 \/ r >= 256
      BY <2>3
    <3> QED BY <2>3, <3>1
  <2>5. EncoderInv(f)
    BY <2>4, AheadStep
  <2>6. ASSUME NEW t, IsBytes(t), Codes(f, t)
        PROVE  Codes(e, t) /\ DecodeSymbol(DecoderOf(e, t), t, s) = Result(Sent(s), DecoderOf(f, t))
    <3>1. Codes(e, t)
      BY <2>4, <2>6, CodesBack
    <3>2. DecodeBin(DecoderOf(e, t), t, s) = Result(s.val, DecoderOf(f, t))
      BY <1>1, <2>1, <2>2, <2>6, BinDecoded
    <3> QED BY <1>2, <2>1, <3>1, <3>2 DEF DecodeSymbol
  <2> QED BY <2>5, <2>6 DEF f
<1>3. CASE s.kind = "ep"
  <2> DEFINE n == s.n
             bins == s.val
  <2>1. f = EncodeBinsEP(e, bins, n) /\ Sent(s) = bins
    BY <1>3 DEF EncodeSymbol, Sent
  <2>2. n \in 1..16 /\ bins \in Nat /\ bins < Power(n)
    BY <1>1
  <2>3. \A d, t : DecodeSymbol(d, t, s) = DecodeBinsEP(d, t, n)
    BY <1>3 DEF DecodeSymbol
  <2> HIDE DEF n, bins, f
  <2>4. /\ EncoderInv(f)
        /\ \A t : IsBytes(t) /\ Codes(f, t) =>
             Codes(e, t) /\ DecodeBinsEP(DecoderOf(e, t), t, n) = Result(bins, DecoderOf(f, t))
    BY <2>1, <2>2, BypassDecoded
  <2> QED BY <2>1, <2>3, <2>4 DEF f
<1>4. CASE s.kind = "trm"
  <2>1. f = EncodeBinTrm(e, 0) /\ Sent(s) = 0
    BY <1>4 DEF EncodeSymbol, Sent
  <2>2. \A d, t : DecodeSymbol(d, t, s) = DecodeBinTrm(d, t)
    BY <1>4 DEF DecodeSymbol
  <2> DEFINE r == e.range - 2
  <2>3. r \in 254..508 /\ (r >= 256 => Narrows(e, f, 0, 0, r)) /\ (r < 256 => Narrows(e, f, 1, 0, 2 * r))
    BY <2>1, TrmNarrows
  <2> HIDE DEF r, f
  <2>4. PICK k, add, range : Narrows(e, f, k, add, range)
    <3>1. r < 256 \/ r >= 256
      BY <2>3
    <3> QED BY <2>3, <3>1
  <2>5. EncoderInv(f)
    BY <2>4, AheadStep
  <2>6. ASSUME NEW t, IsBytes(t), Codes(f, t)
        PROVE  Codes(e, t) /\ DecodeSymbol(DecoderOf(e, t), t, s) = Result(Sent(s), DecoderOf(f, t))
    <3>1. Codes(e, t)
      BY <2>4, <2>6, CodesBack
    <3>2. DecodeBinTrm(DecoderOf(e, t), t) = Result(0, DecoderOf(f, t))
      BY <2>1, <2>6, TrmDecoded
    <3> QED BY <2>1, <2>2, <3>1, <3>2
  <2> QED BY <2>5, <2>6 DEF f
<1> QED BY <1>1, <1>2, <1>3, <1>4

(* The encoder at the start of a slice, and the decoder                     *)
LEMMA StartEncoder ==
  EncoderInv(Start) /\ Low(Start) = 0 /\ BytesRead(Start) = 2 /\ Ahead(Start) = 7 /\ Start.range = 510
<1>1. /\ Start.low = 0 /\ Start.range = 510 /\ Start.buffered = 255 /\ Start.outstanding = 0
      /\ Start.bitsLeft = 23 /\ Start.bytes = <<>>
  BY DEF Start
<1>2. Top(Start) = 512
  <2>1. 32 - Start.bitsLeft = 9
    BY <1>1
  <2> QED BY <2>1, PowerTable DEF Top
<1>3. Start \in CoderRec
  <2>1. <<>> \in Seq(AByte)
    OBVIOUS
  <2>2. 255 \in AByte
    BY DEF AByte
  <2> DEFINE S == Seq(AByte)
  <2> HIDE DEF S
  <2>3. Start \in [low : Nat, range : 1..510, buffered : AByte, outstanding : Nat, bitsLeft : 4..23, bytes : S]
    BY <2>1, <2>2 DEF Start, S
  <2> QED BY <2>3 DEF CoderRec, S
<1>4. Roomy(Start)
  BY <1>1, <1>2, <1>3, RoomyFields
<1>5. EncoderInv(Start)
  BY <1>1, <1>4 DEF EncoderInv
<1>6. Low(Start) = 0
  <2>1. PrefixNumber(Start) = 0
    BY <1>1, <1>4, PrefixNumberFacts
  <2> QED BY <1>1, <1>2, <2>1 DEF Low
<1>7. Bits(Start) = 9
  <2>1. Len(<<>>) = 0
    OBVIOUS
  <2>2. 8 * (0 + 0) + (32 - 23) = 9
    OBVIOUS
  <2> QED BY <1>1, <2>1, <2>2 DEF Bits
<1>8. BytesRead(Start) = 2 /\ Ahead(Start) = 7
  BY <1>7 DEF BytesRead, Ahead, Read8
<1> QED BY <1>1, <1>5, <1>6, <1>8

(* The decoder reads the first two bytes and stands where the encoder       *)
(* began.                                                                   *)
LEMMA StartDecoded ==
  ASSUME NEW t, IsBytes(t), Codes(Start, t)
  PROVE  StartOf(t) = DecoderOf(Start, t)
<1>1. Low(Start) = 0 /\ BytesRead(Start) = 2 /\ Ahead(Start) = 7 /\ Start.range = 510
  BY StartEncoder
<1>2. t \in Seq(Nat) /\ Len(t) \in Nat
  BY BytesAreNumbers DEF IsBytes
<1>3. 2 <= Len(t)
  BY <1>1 DEF Codes
<1>4. /\ \A i \in 1..Len(t) : Number(t, i) = 256 * Number(t, i - 1) + t[i]
      /\ \A i \in 0..Len(t) : Number(t, i) \in Nat
      /\ Number(t, 0) = 0
  BY <1>2, NumberFacts
<1>5. \A i \in 1..Len(t) : t[i] \in Nat /\ ByteAt(t, i) = t[i]
  BY <1>2 DEF ByteAt
<1>6. 1 \in 1..Len(t) /\ 2 \in 1..Len(t) /\ 1 - 1 = 0 /\ 2 - 1 = 1
  BY <1>2, <1>3
<1>7. Number(t, 1) = 256 * 0 + t[1] /\ Number(t, 2) = 256 * Number(t, 1) + t[2]
  BY <1>4, <1>6
<1>8. ByteAt(t, 1) = t[1] /\ ByteAt(t, 2) = t[2] /\ t[1] \in Nat /\ t[2] \in Nat
  BY <1>5, <1>6
<1>9. Value(Start, t) = t[1] * 256 + t[2]
  <2>1. Power(7 - 7) = 1 /\ Power(7) = 128
    BY PowerTable
  <2>2. Value(Start, t) = Power(7 - 7) * (Number(t, 2) - 0 * Power(7))
    BY <1>1 DEF Value, Coded
  <2>3. Number(t, 2) = t[1] * 256 + t[2]
    BY <1>7, <1>8
  <2> QED BY <1>8, <2>1, <2>2, <2>3
<1>10. Shl(ByteAt(t, 1), 8) + ByteAt(t, 2) = t[1] * 256 + t[2]
  <2>1. Shl(t[1], 8) = t[1] * Power(8)
    BY DEF Shl, Power
  <2> QED BY <1>8, <2>1, PowerTable
<1>11. (-1) - 7 = -8
  OBVIOUS
<1> QED BY <1>1, <1>9, <1>10, <1>11 DEF StartOf, DecoderOf

(***************************************************************************)
(* The end of a slice                                                      *)
(***************************************************************************)

(* The bytes held back are written, with the carry that may have come into  *)
(* them                                                                     *)
Flushed(e) ==
  e.bytes \o (IF e.low >= Top(e)
              THEN <<e.buffered + 1>> \o Fill(0, e.outstanding - 1)
              ELSE IF e.outstanding > 0 THEN <<e.buffered>> \o Fill(255, e.outstanding - 1) ELSE <<>>)
Carry(e) == IF e.low >= Top(e) THEN 1 ELSE 0

(* BinEncoderBase::finish writes the bytes held back, with the carry that   *)
(* is left.                                                                 *)
LEMMA FlushedFacts ==
  ASSUME NEW e, Roomy(e)
  PROVE  /\ IsBytes(Flushed(e)) /\ Len(Flushed(e)) = Len(e.bytes) + e.outstanding
         /\ Number(Flushed(e), Len(Flushed(e))) = PrefixNumber(e) + Carry(e)
         /\ Carry(e) \in {0, 1} /\ e.low - Carry(e) * Top(e) \in 0..(Top(e) - 1)
         /\ e.low % Top(e) = e.low - Carry(e) * Top(e)
<1>1. /\ e.low \in Nat /\ e.range \in 1..510 /\ e.buffered \in 0..255 /\ e.outstanding \in Nat
      /\ Top(e) \in Nat \ {0}
  BY RoomyNumbers
<1>2. /\ e.low + e.range <= 2 * Top(e) /\ (e.buffered = 255 => e.low + e.range <= Top(e))
      /\ e.outstanding = 0 => e.buffered = 255 /\ e.bytes = <<>>
  BY RoomyFields
<1>3. Carry(e) \in {0, 1} /\ e.low - Carry(e) * Top(e) \in 0..(Top(e) - 1)
  <2> DEFINE l == e.low
             r == e.range
             q == Top(e)
             c == Carry(e)
  <2>1. l \in Nat /\ r \in 1..510 /\ q \in Nat \ {0} /\ l + r <= 2 * q /\ c = (IF l >= q THEN 1 ELSE 0)
    BY <1>1, <1>2 DEF Carry
  <2> HIDE DEF l, r, q, c
  <2>2. CASE l >= q
    <3>1. c = 1 /\ 1 * q = q
      BY <2>1, <2>2
    <3>2. c * q = q
      BY <3>1
    <3>3. l - q \in 0..(q - 1)
      BY <2>1, <2>2
    <3> QED BY <3>1, <3>2, <3>3 DEF l, q, c
  <2>3. CASE ~(l >= q)
    <3>1. c = 0 /\ 0 * q = 0
      BY <2>1, <2>3
    <3>2. c * q = 0
      BY <3>1
    <3>3. l - 0 \in 0..(q - 1)
      BY <2>1, <2>3
    <3> QED BY <3>1, <3>2, <3>3 DEF l, q, c
  <2> QED BY <2>2, <2>3
<1>4. e.low % Top(e) = e.low - Carry(e) * Top(e)
  <2> DEFINE c == Carry(e)
             q == Top(e)
             l == e.low
  <2>1. c \in {0, 1} /\ l \in Nat /\ q \in Nat \ {0} /\ l - c * q \in 0..(q - 1)
    BY <1>1, <1>3
  <2> HIDE DEF c, q, l
  <2>2. c \in Nat /\ c * q <= l /\ l < (c + 1) * q /\ l \in Int
    <3>1. CASE c = 0
      BY <2>1, <3>1
    <3>2. CASE c = 1
      BY <2>1, <3>2
    <3> QED BY <2>1, <3>1, <3>2
  <2>3. l % q = l - c * q
    BY <2>1, <2>2, Division
  <2> QED BY <2>3 DEF c, q, l
<1>5. CASE e.low >= Top(e)
  <2>1. e.buffered # 255 /\ e.outstanding > 0 /\ e.outstanding # 0
    <3> DEFINE l == e.low
               r == e.range
               q == Top(e)
    <3>1. l \in Nat /\ r \in 1..510 /\ q \in Nat /\ l >= q /\ (e.buffered = 255 => l + r <= q)
      BY <1>1, <1>2, <1>5
    <3> HIDE DEF l, r, q
    <3>2. ~(l + r <= q)
      BY <3>1
    <3>3. e.buffered # 255 /\ e.outstanding # 0
      BY <1>2, <3>1, <3>2
    <3>4. e.outstanding > 0
      BY <1>1, <3>3
    <3> QED BY <3>3, <3>4
  <2>2. Released(e, 1) = <<e.buffered + 1>> \o Fill(0, e.outstanding - 1)
    <3>1. (255 + 1) % 256 = 0
      OBVIOUS
    <3> QED BY <3>1 DEF Released
  <2>3. Flushed(e) = e.bytes \o Released(e, 1) /\ Carry(e) = 1
    BY <1>5, <2>2 DEF Flushed, Carry
  <2> DEFINE c == 1
  <2>4. c \in {0, 1} /\ e.buffered + c <= 255
    BY <1>1, <2>1
  <2> HIDE DEF c
  <2> DEFINE s == e.bytes \o Released(e, c)
  <2>5. s \in Seq(AByte) /\ Len(s) = Len(Prefix(e)) /\ Number(s, Len(s)) = PrefixNumber(e) + c
    BY <2>1, <2>4, ReleasedNumber
  <2>6. s = Flushed(e) /\ c = Carry(e)
    BY <2>3 DEF c
  <2>7. Len(Prefix(e)) = Len(e.bytes) + e.outstanding
    BY PrefixFacts
  <2> HIDE DEF s
  <2> QED BY <1>3, <1>4, <2>5, <2>6, <2>7 DEF IsBytes
<1>6. CASE ~(e.low >= Top(e))
  <2>1. Flushed(e) = Prefix(e)
    <3>1. CASE e.outstanding = 0
      <4>1. ~(e.outstanding > 0)
        BY <3>1
      <4> QED BY <1>6, <3>1, <4>1 DEF Flushed, Prefix, Held
    <3>2. CASE e.outstanding > 0
      <4>1. e.outstanding # 0
        BY <1>1, <3>2
      <4> QED BY <1>6, <3>2, <4>1 DEF Flushed, Prefix, Held
    <3> QED BY <1>1, <3>1, <3>2
  <2>2. Carry(e) = 0
    BY <1>6 DEF Carry
  <2>3. Prefix(e) \in Seq(AByte) /\ Len(Prefix(e)) = Len(e.bytes) + e.outstanding
    BY PrefixFacts
  <2>4. PrefixNumber(e) + 0 = PrefixNumber(e)
    BY PrefixNumberFacts
  <2> QED BY <1>3, <1>4, <2>1, <2>2, <2>3, <2>4 DEF IsBytes, PrefixNumber
<1> QED BY <1>5, <1>6

(* A byte is appended.                                                      *)
LEMMA OneByte ==
  ASSUME NEW s, IsBytes(s), NEW b, b \in AByte
  PROVE  IsBytes(Append(s, b)) /\ Len(Append(s, b)) = Len(s) + 1
         /\ Number(Append(s, b), Len(s) + 1) = 256 * Number(s, Len(s)) + b
<1>1. s \in Seq(AByte)
  BY DEF IsBytes
<1>2. Append(s, b) \in Seq(AByte) /\ Len(Append(s, b)) = Len(s) + 1
  BY <1>1
<1>3. s \in Seq(Nat) /\ b \in Nat
  <2>1. b \in Nat
    BY DEF AByte
  <2> QED BY <1>1, <2>1, BytesAreNumbers
<1> QED BY <1>2, <1>3, NumberAppend DEF IsBytes

(* The bits left, the stop bit and the zeros behind it fill whole bytes     *)
Zeros(n) == (7 - n) % 8

(* The bits that are left, the stop bit and the zeros behind it are one or  *)
(* two bytes.                                                               *)
LEMMA AlignedFacts ==
  ASSUME NEW s, IsBytes(s), NEW n, n \in 1..12, NEW bits, bits \in Nat, bits < Power(n)
  PROVE  LET t == s \o Aligned(bits, n)
             k == Len(t) - Len(s)
         IN /\ IsBytes(t) /\ k \in {1, 2} /\ 8 * k = (n + 1) + Zeros(n) /\ Zeros(n) \in 0..7
            /\ Number(t, Len(t)) = (Number(s, Len(s)) * (2 * Power(n)) + (2 * bits + 1)) * Power(Zeros(n))
<1> DEFINE pad == Zeros(n)
           word == (2 * bits + 1) * Power(pad)
           t == s \o Aligned(bits, n)
           m == Number(s, Len(s))
<1>1. pad \in 0..7 /\ ((n + 1) + pad = 8 \/ (n + 1) + pad = 16)
  <2>1. CASE n \in 1..7
    BY <2>1 DEF Zeros
  <2>2. CASE n \in 8..12
    BY <2>2 DEF Zeros
  <2> QED BY <2>1, <2>2
<1>2. Aligned(bits, n) = IF (n + 1) + pad = 8 THEN <<word>> ELSE <<Shr(word, 8), word % 256>>
  <2>1. Shl(2 * bits + 1, pad) = word
    BY DEF Shl, Power
  <2>2. pad = (7 - n) % 8
    BY DEF Zeros
  <2> HIDE DEF word, pad
  <2> QED BY <2>1, <2>2 DEF Aligned
<1>3. Power(pad) \in Nat \ {0} /\ Power(n) \in Nat \ {0}
  <2>1. pad \in 0..31 /\ n \in 0..31
    BY <1>1
  <2> HIDE DEF pad
  <2> QED BY <2>1, PowerNext
<1>4. m \in Nat /\ Len(s) \in Nat
  <2>1. s \in Seq(Nat) /\ Len(s) \in Nat
    BY BytesAreNumbers DEF IsBytes
  <2>2. Len(s) \in 0..Len(s)
    BY <2>1
  <2> QED BY <2>1, <2>2, NumberFacts
<1>5. ASSUME NEW w, (n + 1) + pad = w, w \in {8, 16} PROVE Power(w) = 2 * (Power(n) * Power(pad))
  <2> DEFINE o == n + 1
  <2>1. o \in 0..23 /\ pad \in 0..8 /\ o + pad = w /\ n \in 0..31
    BY <1>1, <1>5
  <2> HIDE DEF o, pad
  <2>2. Power(o + pad) = Power(o) * Power(pad)
    BY <2>1, PowerSum
  <2>3. Power(o) = 2 * Power(n)
    BY <2>1, PowerNext DEF o
  <2>4. Power(w) = (2 * Power(n)) * Power(pad)
    BY <2>1, <2>2, <2>3
  <2> QED BY <1>3, <2>4
<1>6. word \in Nat /\ word < 2 * (Power(n) * Power(pad))
  <2> DEFINE p == Power(n)
             q == Power(pad)
  <2>1. p \in Nat \ {0} /\ q \in Nat \ {0} /\ bits + 1 <= p
    BY <1>3
  <2> HIDE DEF p, q
  <2>2. (2 * bits + 1) * q \in Nat /\ (bits + 1) * q <= p * q /\ (2 * bits + 1) * q = 2 * (bits * q) + q
        /\ (bits + 1) * q = bits * q + q
    BY <2>1
  <2> DEFINE x == bits * q
             y == p * q
             z == (2 * bits + 1) * q
  <2>3. x \in Nat /\ y \in Nat /\ z \in Nat /\ x + q <= y /\ z = 2 * x + q
    BY <2>1, <2>2
  <2> HIDE DEF x, y, z
  <2>4. z < 2 * y
    BY <2>1, <2>3
  <2> QED BY <2>3, <2>4 DEF x, y, z, p, q
<1>7. (m * (2 * Power(n)) + (2 * bits + 1)) * Power(pad) = m * (2 * (Power(n) * Power(pad))) + word
  BY <1>3, <1>4
<1> HIDE DEF pad, word, t, m
<1>8. CASE (n + 1) + pad = 8
  <2>1. Power(8) = 2 * (Power(n) * Power(pad))
    BY <1>5, <1>8
  <2>2. word \in AByte
    BY <1>6, <2>1, PowerTable DEF AByte
  <2>3. t = Append(s, word)
    <3>1. t = s \o <<word>>
      BY <1>2, <1>8 DEF t
    <3>2. s \in Seq(AByte)
      BY DEF IsBytes
    <3> QED BY <2>2, <3>1, <3>2
  <2>4. IsBytes(t) /\ Len(t) = Len(s) + 1 /\ Number(t, Len(t)) = 256 * m + word
    BY <2>2, <2>3, OneByte DEF m
  <2>5. Len(t) - Len(s) = 1
    BY <1>4, <2>4
  <2>6. 256 * m + word = m * (2 * (Power(n) * Power(pad))) + word
    BY <1>4, <2>1, PowerTable
  <2> QED BY <1>1, <1>7, <1>8, <2>4, <2>5, <2>6 DEF pad, t, m
<1>9. CASE (n + 1) + pad = 16
  <2>1. Power(16) = 2 * (Power(n) * Power(pad))
    BY <1>5, <1>9
  <2> DEFINE hi == word \div 256
             lo == word % 256
  <2>2. word < 65536
    BY <1>6, <2>1, PowerTable
  <2>3. hi \in 0..255 /\ lo \in 0..255 /\ word = 256 * hi + lo
    BY <1>6, <2>2
  <2>4. Shr(word, 8) = hi
    <3>1. 2^8 = 256
      OBVIOUS
    <3> QED BY <3>1 DEF Shr
  <2>5. ~((n + 1) + pad = 8)
    BY <1>9
  <2>6. t = s \o <<hi, lo>>
    BY <1>2, <2>4, <2>5 DEF t
  <2> HIDE DEF hi, lo
  <2>7. hi \in AByte /\ lo \in AByte
    BY <2>3 DEF AByte
  <2>8. t = Append(Append(s, hi), lo)
    <3>1. s \in Seq(AByte)
      BY DEF IsBytes
    <3> QED BY <2>6, <2>7, <3>1
  <2> DEFINE u == Append(s, hi)
  <2>9. IsBytes(u) /\ Len(u) = Len(s) + 1 /\ Number(u, Len(u)) = 256 * m + hi
    BY <2>7, OneByte DEF m
  <2>10. t = Append(u, lo)
    BY <2>8
  <2> HIDE DEF u
  <2>11. IsBytes(t) /\ Len(t) = Len(u) + 1 /\ Number(t, Len(t)) = 256 * Number(u, Len(u)) + lo
    BY <2>7, <2>9, <2>10, OneByte
  <2>12. Len(t) - Len(s) = 2
    BY <1>4, <2>9, <2>11
  <2>13. Number(t, Len(t)) = m * (2 * (Power(n) * Power(pad))) + word
    <3>1. Number(t, Len(t)) = 256 * (256 * m + hi) + lo
      BY <2>9, <2>11
    <3>2. 256 * (256 * m + hi) + lo = m * 65536 + word
      BY <1>4, <2>3
    <3> QED BY <2>1, <3>1, <3>2, PowerTable
  <2>14. Number(t, Len(t)) = (m * (2 * Power(n)) + (2 * bits + 1)) * Power(pad)
    BY <1>7, <2>13
  <2>15. IsBytes(t) /\ 8 * (Len(t) - Len(s)) = (n + 1) + pad /\ Len(t) - Len(s) \in {1, 2}
    BY <1>9, <2>11, <2>12
  <2> QED BY <1>1, <2>14, <2>15 DEF pad, t, m
<1> QED BY <1>1, <1>8, <1>9

(* The bytes that end a slice are as long as the interval before the last   *)
(* bin needs, and are odd in units of the bits they are longer by           *)
LEMMA FinishNumber ==
  ASSUME NEW e, EncoderInv(e)
  PROVE  LET t == Finish(EncodeBinTrm(e, 1))
             x == Low(e) + (e.range - 2)
         IN /\ IsBytes(t) /\ Len(t) = BytesRead(e) /\ t # <<>>
            /\ \E k \in Nat : 2 * k <= x /\ x <= 2 * k + 1 /\ Coded(e, t) = (2 * k + 1) * Power(Ahead(e))
<1> DEFINE f == EncodeBinTrm(e, 1)
           t == Finish(f)
           r == e.range - 2
           x == Low(e) + r
           n == 24 - f.bitsLeft
           p == Power(n)
           s == Flushed(f)
           bits == (f.low % Top(f)) \div 256
           z == Zeros(n)
<1>1. Narrows(e, f, 7, r * Power(7), 256) /\ r \in 254..508
  BY TrmNarrows
<1>2. EncoderInv(f) /\ Low(f) = Low(e) * Power(7) + r * Power(7) /\ Bits(f) = Bits(e) + 7
  BY <1>1 DEF Narrows, Narrowed
<1>3. Roomy(f) /\ f.bitsLeft \in 12..23 /\ f.outstanding \in Nat /\ f.low \in Nat
  <2>1. Roomy(f) /\ f.bitsLeft >= 12
    BY <1>2 DEF EncoderInv
  <2> HIDE DEF f
  <2>2. f.bitsLeft \in 4..23 /\ f.outstanding \in Nat /\ f.low \in Nat
    BY <2>1, RoomyNumbers
  <2> QED BY <2>1, <2>2
<1>4. t = s \o Aligned(bits, n)
  <2>1. 2^(32 - f.bitsLeft) = Top(f)
    BY DEF Top, Power
  <2>2. t = f.bytes \o (IF f.low >= 2^(32 - f.bitsLeft)
                        THEN <<f.buffered + 1>> \o Fill(0, f.outstanding - 1)
                        ELSE IF f.outstanding > 0 THEN <<f.buffered>> \o Fill(255, f.outstanding - 1) ELSE <<>>)
              \o Aligned(Shr(f.low % 2^(32 - f.bitsLeft), 8), 24 - f.bitsLeft)
    <3> HIDE DEF f
    <3> QED BY Zenon DEF Finish
  <2>3. Shr(f.low % 2^(32 - f.bitsLeft), 8) = bits
    <3>1. 2^8 = 256
      OBVIOUS
    <3> QED BY <2>1, <3>1 DEF Shr
  <2>4. s = f.bytes \o (IF f.low >= 2^(32 - f.bitsLeft)
                        THEN <<f.buffered + 1>> \o Fill(0, f.outstanding - 1)
                        ELSE IF f.outstanding > 0 THEN <<f.buffered>> \o Fill(255, f.outstanding - 1) ELSE <<>>)
    BY Zenon, <2>1 DEF Flushed
  <2> HIDE DEF s, bits, f, t
  <2> QED BY Zenon, <2>2, <2>3, <2>4 DEF n
<1> HIDE DEF f, t, r
<1>5. n \in 1..12 /\ p \in Nat \ {0} /\ Top(f) = 256 * p
  <2>1. n \in 1..12 /\ n \in 0..31 /\ n \in 0..23 /\ 32 - f.bitsLeft = n + 8
    BY <1>3
  <2> HIDE DEF n
  <2>2. Power(n) \in Nat \ {0}
    BY <2>1, PowerNext
  <2> DEFINE o == 8
  <2>3. o \in 0..8
    OBVIOUS
  <2> HIDE DEF o
  <2>4. Power(n + o) = Power(n) * Power(o)
    BY <2>1, <2>3, PowerSum
  <2>5. Top(f) = Power(n) * 256
    BY <2>1, <2>4, PowerTable DEF Top, o
  <2> QED BY <2>1, <2>2, <2>5
<1> DEFINE c == Carry(f)
           l == f.low % Top(f)
           pn == PrefixNumber(f)
           m == Len(f.bytes) + f.outstanding
<1>6. IsBytes(s) /\ Len(s) = m /\ Number(s, Len(s)) = pn + c
  BY <1>3, FlushedFacts
<1>7. c \in {0, 1} /\ l \in 0..(Top(f) - 1) /\ f.low = c * Top(f) + l /\ pn \in Nat
  <2>1. c \in {0, 1} /\ f.low - c * Top(f) \in 0..(Top(f) - 1) /\ l = f.low - c * Top(f)
    BY <1>3, FlushedFacts
  <2>2. pn \in Nat /\ Top(f) \in Nat
    BY <1>3, PrefixNumberFacts, RoomyNumbers
  <2> DEFINE q == Top(f)
             fl == f.low
  <2>3. c \in {0, 1} /\ l = fl - c * q /\ q \in Nat /\ fl \in Nat
    BY <1>3, <2>1, <2>2
  <2> HIDE DEF c, l, q, fl
  <2>4. fl = c * q + l
    <3>1. c * q \in Nat
      BY <2>3
    <3> QED BY <2>3, <3>1
  <2> QED BY <2>1, <2>2, <2>4 DEF q, fl
<1>8. bits \in Nat /\ 256 * bits <= l /\ l < 256 * bits + 256 /\ bits < p
  <2> HIDE DEF l, p
  <2>1. l \in Nat /\ l < 256 * p /\ p \in Nat
    BY <1>5, <1>7
  <2>2. bits = l \div 256
    BY DEF l
  <2> HIDE DEF bits
  <2> QED BY <2>1, <2>2
<1>9. LET k == Len(t) - Len(s)
      IN /\ IsBytes(t) /\ k \in {1, 2} /\ 8 * k = (n + 1) + z /\ z \in 0..7
         /\ Number(t, Len(t)) = (Number(s, Len(s)) * (2 * p) + (2 * bits + 1)) * Power(z)
  <2>1. IsBytes(s) /\ n \in 1..12 /\ bits \in Nat /\ bits < Power(n)
    BY <1>5, <1>6, <1>8
  <2> HIDE DEF s, n, bits
  <2> DEFINE w == s \o Aligned(bits, n)
             k == Len(w) - Len(s)
  <2>2. /\ IsBytes(w) /\ k \in {1, 2} /\ 8 * k = (n + 1) + Zeros(n) /\ Zeros(n) \in 0..7
        /\ Number(w, Len(w)) = (Number(s, Len(s)) * (2 * Power(n)) + (2 * bits + 1)) * Power(Zeros(n))
    BY <2>1, AlignedFacts
  <2>3. w = t
    BY <1>4
  <2> HIDE DEF w
  <2> QED BY <2>2, <2>3
<1> HIDE DEF s, n, p, bits, z, c, l, pn
<1>10. m \in Nat /\ Bits(f) = 8 * m + (32 - f.bitsLeft)
  <2>1. Len(f.bytes) \in Nat
    <3>1. f.bytes \in Seq(AByte)
      BY <1>3, RoomyFields DEF CoderRec
    <3> QED BY <3>1
  <2> QED BY <1>3, <2>1 DEF Bits
<1> HIDE DEF m
<1>11. Len(t) = BytesRead(e) /\ z = Ahead(e) /\ Len(t) \in Nat \ {0}
  <2> DEFINE b == Bits(e)
             k == Len(t) - Len(s)
             bl == f.bitsLeft
  <2>1. b \in Nat /\ Len(t) \in Nat /\ bl \in 12..23
    <3>1. Len(t) \in Nat
      BY <1>9 DEF IsBytes
    <3> QED BY <1>3, <3>1, BitsFacts
  <2>2. 8 * m + (32 - bl) = b + 7 /\ k \in {1, 2} /\ 8 * k = (n + 1) + z /\ z \in 0..7 /\ n = 24 - bl
    BY <1>2, <1>9, <1>10 DEF n
  <2>a. Len(t) = m + k
    BY <1>6, <1>9, <1>10, <2>1
  <2> HIDE DEF b, k, bl
  <2>3. b + z = 8 * (m + k)
    BY <1>10, <2>1, <2>2
  <2> DEFINE y == m + k
  <2>4. y \in Nat \ {0}
    BY <1>10, <2>2
  <2>b. b + z = 8 * y /\ Len(t) = y
    BY <2>3, <2>a
  <2> HIDE DEF y
  <2>5. Read8(b) = y /\ 8 * Read8(b) - b = z
    BY <2>1, <2>2, <2>4, <2>b DEF Read8
  <2> QED BY <2>4, <2>5, <2>b DEF BytesRead, Ahead, b
<1>12. t # <<>>
  <2>1. Len(<<>>) = 0
    OBVIOUS
  <2> QED BY <1>11, <2>1
<1> DEFINE k == (pn + c) * p + bits
<1>13. k \in Nat /\ Number(t, Len(t)) = (2 * k + 1) * Power(z)
  <2>1. k \in Nat
    BY <1>5, <1>7, <1>8
  <2>2. (pn + c) * (2 * p) + (2 * bits + 1) = 2 * k + 1
    BY <1>5, <1>7, <1>8
  <2> QED BY <1>6, <1>9, <2>1, <2>2
<1>14. 256 * k <= Low(f) /\ Low(f) < 256 * k + 256
  <2>1. Low(f) = pn * Top(f) + f.low
    BY DEF Low, pn
  <2>2. Low(f) = pn * (256 * p) + (c * (256 * p) + l)
    BY <1>5, <1>7, <2>1
  <2>3. pn * (256 * p) + c * (256 * p) = 256 * ((pn + c) * p)
    BY <1>5, <1>7
  <2> DEFINE u == (pn + c) * p
             v == pn * (256 * p)
             w == c * (256 * p)
  <2>4. u \in Nat /\ v \in Nat /\ w \in Nat /\ l \in Nat /\ v + w = 256 * u /\ Low(f) = v + (w + l)
          /\ k = u + bits
    BY <1>5, <1>7, <2>2, <2>3
  <2> HIDE DEF u, v, w, k
  <2> QED BY <1>8, <2>4
<1>15. 2 * k <= x /\ x <= 2 * k + 1
  <2>1. Low(e) \in Nat /\ x \in Nat
    BY <1>1, BitsFacts
  <2>2. Low(f) = 128 * x
    <3>1. Low(f) = Low(e) * 128 + r * 128
      BY <1>2, PowerTable
    <3> QED BY <1>1, <2>1, <3>1
  <2> HIDE DEF x, k
  <2> QED BY <1>13, <1>14, <2>1, <2>2
<1>16. Coded(e, t) = (2 * k + 1) * Power(Ahead(e))
  BY <1>11, <1>13 DEF Coded
<1> HIDE DEF k, x
<1> QED BY <1>9, <1>11, <1>12, <1>13, <1>15, <1>16 DEF t, f, x, r

(* From the bytes that finish a slice the decoder finds the terminate bin   *)
(* and the stop pattern, at the last of them.                               *)
THEOREM FinishDecoded ==
  ASSUME NEW e, EncoderInv(e), NEW t, t = Finish(EncodeBinTrm(e, 1))
  PROVE  /\ IsBytes(t) /\ t # <<>> /\ Codes(e, t)
         /\ LET d == DecodeBinTrm(DecoderOf(e, t), t)
            IN d.bins = 1 /\ d.d.read = Len(t) /\ StopPattern(d.d, t)
<1> DEFINE a == Ahead(e)
           x0 == Low(e)
           r == e.range - 2
           x == x0 + r
           num == Coded(e, t)
           v == Value(e, t)
           q == Power(7 - a)
           p == Power(a)
<1>1. IsBytes(t) /\ Len(t) = BytesRead(e) /\ t # <<>>
  BY FinishNumber
<1>2. PICK k \in Nat : 2 * k <= x /\ x <= 2 * k + 1 /\ num = (2 * k + 1) * p
  BY FinishNumber
<1>3. a \in 0..7 /\ x0 \in Nat /\ e.range \in 256..510 /\ BytesRead(e) \in Nat
  BY BitsFacts, RangeFacts
<1>4. r \in 254..508 /\ r + 2 = e.range
  BY <1>3
<1>5. p \in Nat \ {0} /\ q \in Nat \ {0} /\ q * p = 128
  <2> HIDE DEF a
  <2> QED BY <1>3, Complements
<1>6. v = q * (num - x0 * p)
  BY DEF Value
<1> HIDE DEF a, r, num, v, q, p, x0
<1>7. x * p <= num /\ num < (x + 2) * p /\ num \in Nat
  <2>1. x \in Nat /\ x <= 2 * k + 1 /\ 2 * k + 1 < x + 2
    BY <1>2, <1>3, <1>4
  <2> DEFINE y == 2 * k + 1
             w == x + 2
  <2>2. x \in Nat /\ y \in Nat /\ w \in Nat /\ x <= y /\ y + 1 <= w
    BY <2>1
  <2>3. num = y * p
    BY <1>2
  <2> HIDE DEF y, w, x
  <2>4. x * p <= y * p /\ (y + 1) * p <= w * p /\ (y + 1) * p = y * p + p
    BY <1>5, <2>2
  <2> DEFINE yp == y * p
             wp == w * p
             xp == x * p
  <2>5. yp \in Nat /\ wp \in Nat /\ xp \in Nat /\ xp <= yp /\ yp + p <= wp
    BY <1>5, <2>2, <2>4
  <2> HIDE DEF yp, wp, xp
  <2>6. xp <= yp /\ yp < wp
    BY <1>5, <2>5
  <2> QED BY <2>3, <2>5, <2>6 DEF yp, wp, xp, w
<1>8. Codes(e, t)
  <2>1. x0 * p <= x * p
    <3>1. x * p = x0 * p + r * p /\ x0 * p \in Nat /\ r * p \in Nat
      BY <1>3, <1>4, <1>5
    <3> DEFINE u == x0 * p
               w == r * p
    <3>2. u \in Nat /\ w \in Nat /\ x * p = u + w
      BY <3>1
    <3> HIDE DEF u, w, x
    <3>3. u <= u + w
      BY <3>2
    <3> QED BY <3>2, <3>3 DEF u
  <2>2. x + 2 = x0 + e.range
    BY <1>3, <1>4
  <2>3. x0 * p \in Nat /\ x * p \in Nat
    BY <1>3, <1>4, <1>5
  <2>4. x0 * p <= num
    <3> DEFINE u == x0 * p
               w == x * p
    <3>1. u \in Nat /\ w \in Nat /\ u <= w /\ w <= num /\ num \in Nat
      BY <1>7, <2>1, <2>3
    <3> HIDE DEF u, w
    <3>2. u <= num
      BY <3>1
    <3> QED BY <3>2 DEF u
  <2>5. num < (x0 + e.range) * p
    BY <1>7, <2>2
  <2>6. BytesRead(e) <= Len(t)
    BY <1>1, <1>3
  <2> QED BY <2>4, <2>5, <2>6 DEF Codes, num, Coded, x0, p, a
<1>9. v >= r * 128
  <2>1. x * p = x0 * p + r * p
    BY <1>3, <1>4, <1>5
  <2> DEFINE u == x0 * p
             w == r * p
             y == num - x0 * p
  <2>2. u \in Nat /\ w \in Nat /\ y = num - u /\ x * p = u + w /\ x * p <= num
    BY <1>3, <1>4, <1>5, <1>7, <2>1
  <2>3. q * w = r * 128
    <3>1. q * (r * p) = r * (q * p)
      BY <1>4, <1>5
    <3> QED BY <1>5, <3>1
  <2>a. v = q * y
    BY <1>6
  <2> HIDE DEF u, w, y, x
  <2>4. w <= y /\ y \in Int
    BY <1>7, <2>2
  <2>5. q * w <= q * y /\ q * w \in Int /\ q * y \in Int
    BY <1>5, <2>2, <2>4
  <2>6. q * y >= q * w
    BY <2>5
  <2> QED BY <2>3, <2>6, <2>a
<1> DEFINE d == DecoderOf(e, t)
           g == At(v, r, e)
<1>10. DecodeBinTrm(d, t) = Result(1, g)
  <2>1. d.range = e.range /\ d.value = v /\ [d EXCEPT !.range = r] = g
    BY DecoderOfFields DEF v
  <2>2. Shl(r, 7) = r * 128
    <3>1. Shl(r, 7) = r * Power(7)
      BY DEF Shl, Power
    <3> QED BY <3>1, PowerTable
  <2>3. DecodeBinTrm(d, t) =
        IF d.value >= Shl(d.range - 2, 7) THEN Result(1, [d EXCEPT !.range = d.range - 2])
        ELSE Result(0, IF d.range - 2 < 256
                        THEN [Refilled([d EXCEPT !.range = d.range - 2], t, 1) EXCEPT !.range = 2 * (d.range - 2)]
                        ELSE [d EXCEPT !.range = d.range - 2])
    BY Zenon DEF DecodeBinTrm
  <2>4. d.range - 2 = r
    BY <2>1 DEF r
  <2> HIDE DEF d, g
  <2>5. d.value >= Shl(d.range - 2, 7) /\ [d EXCEPT !.range = d.range - 2] = g
    BY <1>9, <2>1, <2>2, <2>4
  <2> QED BY <2>3, <2>5
<1>11. g.read = Len(t) /\ g.bitsNeeded = (-1) - a
  BY <1>1, AtFields DEF a
<1>12. StopPattern(g, t)
  <2> DEFINE b == ByteAt(t, Len(t))
             h == Number(t, Len(t) - 1)
  <2>1. num = 256 * h + b /\ h \in Nat /\ b \in Nat
    <3>1. t \in Seq(Nat) /\ Len(t) \in Nat /\ Len(t) # 0
      <4>1. t \in Seq(AByte)
        BY <1>1 DEF IsBytes
      <4>2. Len(t) # 0
        BY <1>1, <4>1
      <4> QED BY <4>1, <4>2, BytesAreNumbers
    <3> DEFINE n == Len(t)
    <3>2. n \in 1..Len(t) /\ n - 1 \in 0..Len(t)
      BY <3>1
    <3>3. b = t[n] /\ t[n] \in Nat
      BY <3>1, <3>2 DEF ByteAt
    <3> HIDE DEF n, b
    <3>4. Number(t, n) = 256 * Number(t, n - 1) + t[n] /\ Number(t, n - 1) \in Nat
      BY <3>1, <3>2, NumberFacts
    <3> QED BY <1>1, <3>3, <3>4 DEF n, num, Coded
  <2>2. 8 + ((-1) - a) = 7 - a
    BY <1>3
  <2>3. Shl(b, 7 - a) = b * q
    BY DEF Shl, Power, q
  <2> HIDE DEF b, h
  <2>4. num * q = (2 * k + 1) * 128
    <3>1. num * q = (2 * k + 1) * (q * p)
      BY <1>2, <1>5
    <3> QED BY <1>5, <3>1
  <2>5. num * q = 256 * (h * q) + b * q
    BY <1>5, <2>1
  <2> DEFINE y == b * q
             w == h * q
  <2>6. y \in Nat /\ w \in Nat /\ 256 * w + y = 256 * k + 128
    BY <1>5, <2>1, <2>4, <2>5
  <2>a. y = Shl(b, 7 - a)
    BY <2>3
  <2> HIDE DEF y, w
  <2>7. y % 256 = 128
    <3> DEFINE j == k - w
    <3>1. j \in Int /\ y = 256 * j + 128
      BY <2>6
    <3> HIDE DEF j
    <3> QED BY <2>6, <3>1
  <2>8. Shl(ByteAt(t, g.read), 8 + g.bitsNeeded) % 256 = 128
    BY <1>11, <2>2, <2>7, <2>a DEF b
  <2> QED BY <2>8 DEF StopPattern
<1> HIDE DEF d, g
<1>13. Result(1, g).bins = 1 /\ Result(1, g).d = g
  BY DEF Result
<1> QED BY <1>1, <1>8, <1>10, <1>11, <1>12, <1>13 DEF d

(***************************************************************************)
(* A slice: the encoder after each of its symbols                          *)
(***************************************************************************)

(* tr: the encoder after 0, 1, ... n symbols of cs                          *)
IsTrace(tr, cs, n) == tr[0] = Start /\ \A i \in 1..n : tr[i] = EncodeSymbol(tr[i - 1], cs[i])

Symboled(cs) == cs \in Seq(Symbols)

(* After each symbol the encoder has its invariant.                         *)
LEMMA TraceEncoders ==
  ASSUME NEW cs, Symboled(cs), NEW tr, IsTrace(tr, cs, Len(cs))
  PROVE  \A i \in 0..Len(cs) : EncoderInv(tr[i])
<1> DEFINE n == Len(cs)
           S == {i \in 0..n : EncoderInv(tr[i])}
<1>1. n \in Nat /\ \A i \in 1..n : cs[i] \in Symbols
  BY DEF Symboled
<1>2. 0 \in S
  BY <1>1, StartEncoder DEF IsTrace
<1>3. ASSUME NEW i \in 0..(n - 1), i \in S PROVE i + 1 \in S
  <2>1. i + 1 \in 1..n /\ i + 1 \in 0..n /\ (i + 1) - 1 = i
    BY <1>1
  <2>2. tr[i + 1] = EncodeSymbol(tr[(i + 1) - 1], cs[i + 1])
    BY <2>1 DEF IsTrace
  <2>3. cs[i + 1] \in Symbols /\ EncoderInv(tr[i])
    BY <1>1, <1>3, <2>1
  <2>4. EncoderInv(EncodeSymbol(tr[i], cs[i + 1]))
    BY <2>3, SymbolDecoded
  <2> QED BY <2>1, <2>2, <2>4
<1> HIDE DEF S, n
<1>4. Reaches(S, n)
  BY <1>2, <1>3 DEF Reaches
<1>5. \A i \in 0..n : i \in S
  BY <1>1, <1>4, UpTo
<1> QED BY <1>5 DEF S, n

(* Data that goes on from the last encoder goes on from every one before it *)
LEMMA TraceCodes ==
  ASSUME NEW cs, Symboled(cs), NEW tr, IsTrace(tr, cs, Len(cs)),
         NEW t, IsBytes(t), Codes(tr[Len(cs)], t)
  PROVE  \A i \in 0..Len(cs) : Codes(tr[i], t)
<1> DEFINE n == Len(cs)
           S == {j \in 0..n : Codes(tr[n - j], t)}
<1>1. n \in Nat /\ \A i \in 1..n : cs[i] \in Symbols
  BY DEF Symboled
<1>2. 0 \in S
  BY <1>1
<1>3. ASSUME NEW j \in 0..(n - 1), j \in S PROVE j + 1 \in S
  <2> DEFINE i == n - j
             k == n - (j + 1)
  <2>1. i \in 1..n /\ i - 1 = k /\ k \in 0..n /\ j + 1 \in 0..n
    BY <1>1
  <2>2. Codes(tr[i], t)
    BY <1>3
  <2> HIDE DEF i
  <2>3. tr[i] = EncodeSymbol(tr[i - 1], cs[i]) /\ cs[i] \in Symbols
    BY <1>1, <2>1 DEF IsTrace
  <2> HIDE DEF k
  <2>4. EncoderInv(tr[k])
    BY <2>1, TraceEncoders DEF n
  <2>5. Codes(tr[k], t)
    BY <2>1, <2>2, <2>3, <2>4, SymbolDecoded
  <2> QED BY <2>1, <2>5 DEF k
<1> HIDE DEF S
<1>4. Reaches(S, n)
  BY <1>2, <1>3 DEF Reaches
<1>5. \A j \in 0..n : j \in S
  <2> HIDE DEF n
  <2> QED BY <1>1, <1>4, UpTo
<1>6. ASSUME NEW i \in 0..n PROVE Codes(tr[i], t)
  <2>1. n - i \in 0..n /\ n - (n - i) = i
    BY <1>1
  <2> QED BY <1>5, <2>1 DEF S
<1> QED BY <1>6

(* The decoder has read no more bytes than there are                        *)
LEMMA ReadWithin ==
  ASSUME NEW e, NEW t, Codes(e, t)
  PROVE  DecoderOf(e, t).read <= Len(t)
  BY DEF Codes, DecoderOf

(***************************************************************************)
(* The invariant of the coder                                              *)
(***************************************************************************)

(* The encoder has coded the symbols, the data is what it finished, and the *)
(* decoder follows it                                                       *)
Traced(tr) ==
  /\ IsTrace(tr, coded, Len(coded))
  /\ tr[Len(coded)] = enc
  /\ verdict = "decoding" => decoded \in 0..Len(coded) /\ dec = DecoderOf(tr[decoded], data)

CoderInv ==
  /\ Symboled(coded)
  /\ \E tr : Traced(tr)
  /\ data # <<>> => data = Finish(EncodeBinTrm(enc, 1))
  /\ verdict \in {"none", "decoding", "decoded"}
  /\ verdict # "none" => data # <<>>
  /\ verdict = "none" => decoded = 0

(* Nothing is coded at the start.                                           *)
LEMMA CoderStarts == CoderInit => CoderInv
<1> SUFFICES ASSUME CoderInit PROVE CoderInv
  OBVIOUS
<1>1. coded = <<>> /\ enc = Start /\ verdict = "none" /\ data = <<>> /\ decoded = 0
  BY DEF CoderInit
<1>2. Symboled(coded) /\ Len(coded) = 0
  BY <1>1 DEF Symboled
<1> DEFINE tr == [i \in 0..0 |-> Start]
<1>3. Traced(tr)
  BY <1>1, <1>2 DEF Traced, IsTrace
<1> HIDE DEF tr
<1> QED BY <1>1, <1>2, <1>3 DEF CoderInv

(* A symbol is coded: the run of the encoder grows by one.                  *)
LEMMA EncodeKeeps == ASSUME CoderInv, NEW s \in Symbols, Encode(s) PROVE CoderInv'
<1>1. /\ data = <<>> /\ data' = <<>> /\ verdict' = verdict /\ decoded' = decoded
      /\ enc' = EncodeSymbol(enc, s) /\ coded' = Append(coded, s) /\ verdict = "none"
  BY DEF Encode, CoderInv
<1>2. coded \in Seq(Symbols)
  BY DEF CoderInv, Symboled
<1>3. /\ Len(coded) \in Nat /\ coded' \in Seq(Symbols) /\ Len(coded') = Len(coded) + 1
      /\ coded'[Len(coded) + 1] = s /\ \A i \in 1..Len(coded) : coded'[i] = coded[i]
  BY <1>1, <1>2
<1>4. PICK tr : Traced(tr)
  BY DEF CoderInv
<1> DEFINE n == Len(coded)
<1>a. PICK w : w = [i \in 0..(n + 1) |-> IF i <= n THEN tr[i] ELSE EncodeSymbol(enc, s)]
  OBVIOUS
<1>5. tr[0] = Start /\ tr[n] = enc /\ \A i \in 1..n : tr[i] = EncodeSymbol(tr[i - 1], coded[i])
  BY <1>4 DEF Traced, IsTrace
<1>6. n \in Nat /\ w[0] = Start /\ w[n + 1] = EncodeSymbol(enc, s) /\ w[n] = enc
  BY <1>3, <1>5, <1>a
<1>7. ASSUME NEW i \in 1..(n + 1) PROVE w[i] = EncodeSymbol(w[i - 1], coded'[i])
  <2>1. CASE i = n + 1
    <3>1. i - 1 = n
      BY <1>6, <2>1
    <3> HIDE DEF n
    <3>2. coded'[i] = s
      BY <1>3, <2>1 DEF n
    <3> QED BY <1>6, <2>1, <3>1, <3>2
  <2>2. CASE i # n + 1
    <3>1. i \in 1..n /\ i - 1 \in 0..n
      BY <1>6, <2>2
    <3>2. w[i] = tr[i] /\ w[i - 1] = tr[i - 1]
      BY <1>6, <1>a, <3>1
    <3> QED BY <1>3, <1>5, <3>1, <3>2
  <2> QED BY <2>1, <2>2
<1>8. Traced(w)'
  <2>1. IsTrace(w, coded', n + 1)
    BY <1>6, <1>7 DEF IsTrace
  <2> QED BY <1>1, <1>3, <1>6, <2>1 DEF Traced
<1> QED BY <1>1, <1>3, <1>8 DEF CoderInv, Symboled

(* The slice is finished: its data is what finish writes, and never empty.  *)
LEMMA EndOfSliceKeeps == ASSUME CoderInv, EndOfSlice PROVE CoderInv' /\ IsBytes(data') /\ data' # <<>>
<1>1. /\ data = <<>> /\ data' = Finish(EncodeBinTrm(enc, 1))
      /\ enc' = enc /\ coded' = coded /\ dec' = dec /\ decoded' = decoded /\ verdict' = verdict
      /\ verdict = "none"
  BY DEF EndOfSlice, CoderInv
<1>2. PICK tr : Traced(tr)
  BY DEF CoderInv
<1>3. Traced(tr)'
  BY <1>1, <1>2 DEF Traced
<1>4. EncoderInv(enc)
  <2>1. Symboled(coded) /\ IsTrace(tr, coded, Len(coded)) /\ tr[Len(coded)] = enc
    BY <1>2 DEF CoderInv, Traced
  <2>2. Len(coded) \in 0..Len(coded)
    BY <2>1 DEF Symboled
  <2> QED BY <2>1, <2>2, TraceEncoders
<1>5. IsBytes(data') /\ data' # <<>>
  BY <1>1, <1>4, FinishDecoded
<1> QED BY <1>1, <1>3, <1>5 DEF CoderInv

(* What finished data allows the decoder                                    *)
LEMMA Finished ==
  ASSUME CoderInv, data # <<>>, NEW tr, Traced(tr)
  PROVE  /\ IsBytes(data)
         /\ \A i \in 0..Len(coded) : EncoderInv(tr[i]) /\ Codes(tr[i], data)
         /\ DecodeBinTrm(DecoderOf(enc, data), data).bins = 1
         /\ DecodeBinTrm(DecoderOf(enc, data), data).d.read = Len(data)
         /\ StopPattern(DecodeBinTrm(DecoderOf(enc, data), data).d, data)
<1>1. Symboled(coded) /\ IsTrace(tr, coded, Len(coded)) /\ tr[Len(coded)] = enc
  BY DEF CoderInv, Traced
<1>2. Len(coded) \in 0..Len(coded)
  BY <1>1 DEF Symboled
<1>3. \A i \in 0..Len(coded) : EncoderInv(tr[i])
  BY <1>1, TraceEncoders
<1>4. EncoderInv(enc) /\ data = Finish(EncodeBinTrm(enc, 1))
  BY <1>1, <1>2, <1>3 DEF CoderInv
<1>5. /\ IsBytes(data) /\ Codes(enc, data)
      /\ DecodeBinTrm(DecoderOf(enc, data), data).bins = 1
      /\ DecodeBinTrm(DecoderOf(enc, data), data).d.read = Len(data)
      /\ StopPattern(DecodeBinTrm(DecoderOf(enc, data), data).d, data)
  BY <1>4, FinishDecoded
<1>6. \A i \in 0..Len(coded) : Codes(tr[i], data)
  BY <1>1, <1>5, TraceCodes
<1> QED BY <1>3, <1>5, <1>6

(* The decoder starts on the data of the slice.                             *)
LEMMA StartDecodingKeeps == ASSUME CoderInv, data # <<>>, StartDecoding(data) PROVE CoderInv'
<1>1. /\ verdict = "none" /\ dec' = StartOf(data) /\ verdict' = "decoding"
      /\ enc' = enc /\ coded' = coded /\ data' = data /\ decoded' = 0
  BY DEF StartDecoding, CoderInv
<1>2. PICK tr : Traced(tr)
  BY DEF CoderInv
<1>3. tr[0] = Start /\ 0 \in 0..Len(coded)
  BY <1>2 DEF Traced, IsTrace, CoderInv, Symboled
<1>4. IsBytes(data) /\ Codes(tr[0], data)
  BY <1>2, <1>3, Finished
<1>5. StartOf(data) = DecoderOf(tr[0], data)
  BY <1>3, <1>4, StartDecoded
<1>6. Traced(tr)'
  BY <1>1, <1>2, <1>3, <1>5 DEF Traced
<1> QED BY <1>1, <1>6 DEF CoderInv

(* The decoder gets the symbol that was coded or, after the last, the       *)
(* terminate bin, and none of its CHECKs fails.                             *)
LEMMA DecodeNextKeeps == ASSUME CoderInv, DecodeNext(data) PROVE CoderInv'
<1> DEFINE last == decoded = Len(coded)
           r == IF last THEN DecodeBinTrm(dec, data) ELSE DecodeSymbol(dec, data, coded[decoded + 1])
           sent == IF last THEN 1 ELSE IF coded[decoded + 1].kind = "trm" THEN 0 ELSE coded[decoded + 1].val
<1>1. /\ verdict = "decoding" /\ dec' = r.d /\ decoded' = decoded + 1
      /\ verdict' = IF r.d.read > Len(data) THEN "past the end"
                    ELSE IF r.bins # sent THEN "other bins"
                    ELSE IF ~last THEN "decoding"
                    ELSE IF ~StopPattern(r.d, data) THEN "no stop pattern"
                    ELSE IF r.d.read < Len(data) THEN "bytes left" ELSE "decoded"
      /\ enc' = enc /\ coded' = coded /\ data' = data
  BY Zenon DEF DecodeNext
<1>2. data # <<>> /\ Symboled(coded)
  BY <1>1 DEF CoderInv
<1>3. PICK tr : Traced(tr)
  BY DEF CoderInv
<1>4. decoded \in 0..Len(coded) /\ dec = DecoderOf(tr[decoded], data) /\ tr[Len(coded)] = enc
      /\ IsTrace(tr, coded, Len(coded))
  BY <1>1, <1>3 DEF Traced
<1>5. /\ IsBytes(data)
      /\ \A i \in 0..Len(coded) : EncoderInv(tr[i]) /\ Codes(tr[i], data)
      /\ DecodeBinTrm(DecoderOf(enc, data), data).bins = 1
      /\ DecodeBinTrm(DecoderOf(enc, data), data).d.read = Len(data)
      /\ StopPattern(DecodeBinTrm(DecoderOf(enc, data), data).d, data)
  BY <1>2, <1>3, Finished
<1>6. Len(data) \in Nat /\ Len(coded) \in Nat
  BY <1>2, <1>5 DEF IsBytes, Symboled
<1>7. CASE last
  <2>1. dec = DecoderOf(enc, data) /\ r = DecodeBinTrm(dec, data) /\ sent = 1
    BY <1>4, <1>7
  <2>2. r.bins = 1 /\ r.d.read = Len(data) /\ StopPattern(r.d, data)
    BY <1>5, <2>1
  <2> HIDE DEF r, sent, last
  <2>3. verdict' = "decoded"
    <3>1. ~(r.d.read > Len(data)) /\ ~(r.d.read < Len(data))
      BY <1>6, <2>2
    <3> QED BY Zenon, <1>1, <1>7, <2>1, <2>2, <3>1
  <2>4. Traced(tr)'
    BY <1>1, <1>3, <2>3 DEF Traced
  <2> QED BY <1>1, <1>2, <2>3, <2>4 DEF CoderInv
<1>8. CASE ~last
  <2> DEFINE k == decoded + 1
             s == coded[k]
             f == tr[k]
  <2>1. k \in 1..Len(coded) /\ k \in 0..Len(coded) /\ k - 1 = decoded
    BY <1>4, <1>6, <1>8
  <2>2. s \in Symbols
    BY <1>2, <2>1 DEF Symboled
  <2>3. f = EncodeSymbol(tr[decoded], s)
    BY <1>4, <2>1 DEF IsTrace
  <2>4. r = DecodeSymbol(dec, data, s) /\ sent = Sent(s)
    BY <1>8 DEF Sent
  <2>5. EncoderInv(tr[decoded]) /\ Codes(f, data)
    BY <1>4, <1>5, <2>1
  <2> HIDE DEF s, f
  <2>6. DecodeSymbol(DecoderOf(tr[decoded], data), data, s) = Result(Sent(s), DecoderOf(f, data))
    BY <1>5, <2>2, <2>3, <2>5, SymbolDecoded
  <2> HIDE DEF r, sent, last
  <2>7. r.bins = sent /\ r.d = DecoderOf(f, data)
    BY <1>4, <2>4, <2>6 DEF Result
  <2>8. r.d.read <= Len(data) /\ r.d.read \in Int
    <3>1. DecoderOf(f, data).read = BytesRead(f) /\ BytesRead(f) \in Int
      <4>1. EncoderInv(f)
        BY <1>5, <2>1 DEF f
      <4> QED BY <4>1, BitsFacts DEF DecoderOf
    <3> QED BY <2>5, <2>7, <3>1, ReadWithin
  <2>9. verdict' = "decoding"
    <3>1. ~(r.d.read > Len(data))
      BY <1>6, <2>8
    <3> QED BY Zenon, <1>1, <1>8, <2>7, <3>1
  <2>10. Traced(tr)'
    BY <1>1, <1>3, <2>1, <2>7, <2>9 DEF Traced, f
  <2> QED BY <1>1, <1>2, <2>9, <2>10 DEF CoderInv
<1> QED BY <1>7, <1>8

(* Nothing changes.                                                         *)
LEMMA CoderUnchanged == ASSUME CoderInv, UNCHANGED coderVars PROVE CoderInv'
<1>1. /\ enc' = enc /\ coded' = coded /\ data' = data /\ dec' = dec /\ decoded' = decoded /\ verdict' = verdict
  BY DEF coderVars
<1>2. PICK tr : Traced(tr)
  BY DEF CoderInv
<1>3. Traced(tr)'
  BY <1>1, <1>2 DEF Traced
<1> QED BY <1>1, <1>3 DEF CoderInv

=============================================================================
