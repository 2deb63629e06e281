------------------------- MODULE CuRecursionProofs -------------------------
(* Proofs about CuRecursion: a coding is reused only where it was found,     *)
(* every row of the cost file counts the mode it selects, and its readers    *)
(* find the coded tree in it.                                                *)
EXTENDS CuRecursion, WellFoundedInduction, TLAPS

-----------------------------------------------------------------------------
(* Areas *)

(* An area of the CTU has samples. *)
LEMMA AreaType ==
  ASSUME NEW a \in Areas
  PROVE  a.x \in Nat /\ a.y \in Nat /\ a.w \in Nat \ {0} /\ a.h \in Nat \ {0}
BY CtuAssumption DEF Areas

(* Lying inside carries over, and so does lying apart; an area with samples *)
(* does not lie in two areas that are apart.                               *)
LEMMA InsideApart ==
  ASSUME NEW a \in Areas, NEW b \in Areas, NEW c \in Areas
  PROVE  /\ Inside(a, a) /\ StartsAt(a, a)
         /\ Inside(a, b) /\ Inside(b, c) => Inside(a, c)
         /\ Inside(a, b) /\ Apart(c, b) => Apart(c, a) /\ ~Inside(a, c)
         /\ Inside(a, b) /\ Inside(b, c) /\ StartsAt(a, c) => StartsAt(a, b) /\ StartsAt(b, c)
         /\ Apart(a, b) => Apart(b, a)
BY AreaType DEF Inside, Apart, StartsAt

(* An area of positive size in an area of the CTU is one of the CTU. *)
LEMMA InCtu ==
  ASSUME NEW a \in Areas, NEW dx \in Nat, NEW dy \in Nat, NEW w \in Nat \ {0}, NEW h \in Nat \ {0},
         dx + w <= a.w, dy + h <= a.h
  PROVE  LET b == [x |-> a.x + dx, y |-> a.y + dy, w |-> w, h |-> h]
         IN b \in Areas /\ Inside(b, a) /\ (StartsAt(b, a) <=> dx = 0 /\ dy = 0)
<1> DEFINE b == [x |-> a.x + dx, y |-> a.y + dy, w |-> w, h |-> h]
<1>1. b \in Areas
  BY AreaType, CtuAssumption DEF Areas, Inside
<1>2. b.x = a.x + dx /\ b.y = a.y + dy /\ b.w = w /\ b.h = h
  OBVIOUS
<1> HIDE DEF b
<1>3. Inside(b, a) /\ (StartsAt(b, a) <=> dx = 0 /\ dy = 0)
  BY AreaType, <1>2 DEF Inside, StartsAt
<1> QED BY <1>1, <1>3 DEF b

(* The parts of a split: the first one starts where the area does, the     *)
(* others behind it, apart from each other.                                *)
PartsFit(q, a) ==
  /\ q \in Seq(Areas) /\ q # <<>> /\ StartsAt(q[1], a)
  /\ \A i \in 1..Len(q) : Inside(q[i], a) /\ (i # 1 => ~StartsAt(q[i], a))
  /\ \A i, j \in 1..Len(q) : i # j => Apart(q[i], q[j])

(* Two parts, one by one, *)
LEMMA PartsTwo ==
  ASSUME NEW a, NEW p1 \in Areas, NEW p2 \in Areas,
         Inside(p1, a), Inside(p2, a), StartsAt(p1, a), ~StartsAt(p2, a), Apart(p1, p2)
  PROVE  PartsFit(<<p1, p2>>, a)
BY InsideApart DEF PartsFit

(* three, *)
LEMMA PartsThree ==
  ASSUME NEW a, NEW p1 \in Areas, NEW p2 \in Areas, NEW p3 \in Areas,
         Inside(p1, a), Inside(p2, a), Inside(p3, a),
         StartsAt(p1, a), ~StartsAt(p2, a), ~StartsAt(p3, a),
         Apart(p1, p2), Apart(p1, p3), Apart(p2, p3)
  PROVE  PartsFit(<<p1, p2, p3>>, a)
BY InsideApart DEF PartsFit

(* and four. *)
LEMMA PartsFour ==
  ASSUME NEW a, NEW p1 \in Areas, NEW p2 \in Areas, NEW p3 \in Areas, NEW p4 \in Areas,
         Inside(p1, a), Inside(p2, a), Inside(p3, a), Inside(p4, a),
         StartsAt(p1, a), ~StartsAt(p2, a), ~StartsAt(p3, a), ~StartsAt(p4, a),
         Apart(p1, p2), Apart(p1, p3), Apart(p1, p4), Apart(p2, p3), Apart(p2, p4), Apart(p3, p4)
  PROVE  PartsFit(<<p1, p2, p3, p4>>, a)
BY InsideApart DEF PartsFit

(* A quarter, a half, and the last quarter that starts behind both. *)
LEMMA Quarters ==
  ASSUME NEW q \in Nat, q > 0, NEW h \in Nat, h = q + q, NEW l \in Nat, l = q + q + q
  PROVE  q # 0 /\ h # 0 /\ l # 0 /\ l = q + h
OBVIOUS

(* A split of an area into parts with samples is one of them. *)
LEMMA SplitFits ==
  ASSUME NEW a \in Areas, NEW s \in Splits,
         \A k \in 1..Len(SubAreas(a, s)) : SubAreas(a, s)[k].w > 0 /\ SubAreas(a, s)[k].h > 0,
         s = "TRIH" => a.h % 4 = 0, s = "TRIV" => a.w % 4 = 0
  PROVE  PartsFit(SubAreas(a, s), a)
<1> DEFINE hw == a.w \div 2   qw == a.w \div 4   hh == a.h \div 2   qh == a.h \div 4
           lw == LastThird(a.w)   lh == LastThird(a.h)
           Sub(dx, dy, w, h) == [x |-> a.x + dx, y |-> a.y + dy, w |-> w, h |-> h]
<1>1. /\ a.x \in Nat /\ a.y \in Nat /\ a.w \in Nat \ {0} /\ a.h \in Nat \ {0}
      /\ hw \in Nat /\ qw \in Nat /\ hh \in Nat /\ qh \in Nat
      /\ hw + hw <= a.w /\ hh + hh <= a.h /\ lw + qw <= a.w /\ lh + qh <= a.h
      /\ lw = qw + qw + qw /\ lh = qh + qh + qh
      /\ a.w % 4 = 0 => hw = qw + qw
      /\ a.h % 4 = 0 => hh = qh + qh
  <2>1. a.x \in Nat /\ a.y \in Nat /\ a.w \in Nat /\ a.h \in Nat /\ a.w # 0 /\ a.h # 0
    BY AreaType
  <2>2. ASSUME NEW n \in Nat
        PROVE  /\ n \div 2 \in Nat /\ n \div 4 \in Nat /\ LastThird(n) \in Nat
               /\ (n \div 2) + (n \div 2) <= n /\ LastThird(n) + (n \div 4) <= n
               /\ LastThird(n) = (n \div 4) + (n \div 4) + (n \div 4)
               /\ n % 4 = 0 => n \div 2 = (n \div 4) + (n \div 4)
    BY DEF LastThird
  <2> QED BY <2>1, <2>2
<1>2. SubAreas(a, s) =
        CASE s = "QUAD" -> <<Sub(0, 0, hw, hh), Sub(hw, 0, hw, hh), Sub(0, hh, hw, hh), Sub(hw, hh, hw, hh)>>
          [] s = "HORZ" -> <<Sub(0, 0, a.w, hh), Sub(0, hh, a.w, hh)>>
          [] s = "VERT" -> <<Sub(0, 0, hw, a.h), Sub(hw, 0, hw, a.h)>>
          [] s = "TRIH" -> <<Sub(0, 0, a.w, qh), Sub(0, qh, a.w, hh), Sub(0, lh, a.w, qh)>>
          [] s = "TRIV" -> <<Sub(0, 0, qw, a.h), Sub(qw, 0, hw, a.h), Sub(lw, 0, qw, a.h)>>
  BY DEF SubAreas
<1> HIDE DEF hw, hh, qw, qh, lw, lh
<1>4. /\ a.w \in Nat /\ a.w # 0 /\ a.h \in Nat /\ a.h # 0
      /\ hw \in Nat /\ qw \in Nat /\ hh \in Nat /\ qh \in Nat /\ lw \in Nat /\ lh \in Nat
      /\ lw + qw <= a.w /\ lw = qw + qw + qw /\ lh + qh <= a.h /\ lh = qh + qh + qh
  BY <1>1
<1>3. ASSUME NEW dx \in Nat, NEW dy \in Nat, NEW w \in Nat \ {0}, NEW h \in Nat \ {0},
             dx + w <= a.w, dy + h <= a.h
      PROVE  /\ Sub(dx, dy, w, h) \in Areas /\ Inside(Sub(dx, dy, w, h), a)
             /\ StartsAt(Sub(dx, dy, w, h), a) <=> dx = 0 /\ dy = 0
  BY <1>3, InCtu
<1>3b. ASSUME NEW dx \in Nat, NEW dy \in Nat, NEW ex \in Nat, NEW ey \in Nat,
              NEW w \in Nat, NEW h \in Nat, NEW v \in Nat, NEW g \in Nat, dx + w <= ex \/ dy + h <= ey
       PROVE  Apart(Sub(dx, dy, w, h), Sub(ex, ey, v, g)) /\ Apart(Sub(ex, ey, v, g), Sub(dx, dy, w, h))
  <2>1. a.x \in Nat /\ a.y \in Nat
    BY <1>1
  <2>2. (a.x + dx) + w <= a.x + ex \/ (a.y + dy) + h <= a.y + ey
    <3>1. \A b, d, e, f \in Nat : d + e <= f => (b + d) + e <= b + f
      OBVIOUS
    <3>2. CASE dx + w <= ex
      BY <2>1, <3>1, <3>2
    <3>3. CASE dy + h <= ey
      BY <2>1, <3>1, <3>3
    <3> QED BY <1>3b, <3>2, <3>3
  <2> QED BY <2>2 DEF Apart
<1> HIDE DEF Sub
<1>5. CASE s = "QUAD"
  <2>1. SubAreas(a, s) = <<Sub(0, 0, hw, hh), Sub(hw, 0, hw, hh), Sub(0, hh, hw, hh), Sub(hw, hh, hw, hh)>>
    BY <1>2, <1>5
  <2>2. hw > 0 /\ hh > 0
    <3>1. SubAreas(a, s)[1].w = hw /\ SubAreas(a, s)[1].h = hh /\ 1 \in 1..Len(SubAreas(a, s))
      BY <2>1 DEF Sub
    <3> QED BY <3>1
  <2>3. /\ Sub(0, 0, hw, hh) \in Areas /\ Inside(Sub(0, 0, hw, hh), a) /\ StartsAt(Sub(0, 0, hw, hh), a)
        /\ Sub(hw, 0, hw, hh) \in Areas /\ Inside(Sub(hw, 0, hw, hh), a) /\ ~StartsAt(Sub(hw, 0, hw, hh), a)
        /\ Sub(0, hh, hw, hh) \in Areas /\ Inside(Sub(0, hh, hw, hh), a) /\ ~StartsAt(Sub(0, hh, hw, hh), a)
        /\ Sub(hw, hh, hw, hh) \in Areas /\ Inside(Sub(hw, hh, hw, hh), a) /\ ~StartsAt(Sub(hw, hh, hw, hh), a)
    <3>1. \A dx \in {0, hw}, dy \in {0, hh} : dx \in Nat /\ dy \in Nat /\ dx + hw <= a.w /\ dy + hh <= a.h
      BY <1>1
    <3>2. hw \in Nat \ {0} /\ hh \in Nat \ {0} /\ hw # 0 /\ hh # 0
      BY <1>1, <2>2
    <3>3. \A dx \in {0, hw}, dy \in {0, hh} :
             /\ Sub(dx, dy, hw, hh) \in Areas /\ Inside(Sub(dx, dy, hw, hh), a)
             /\ StartsAt(Sub(dx, dy, hw, hh), a) <=> dx = 0 /\ dy = 0
      BY <1>3, <3>1, <3>2
    <3> QED BY <3>2, <3>3
  <2>4. /\ Apart(Sub(0, 0, hw, hh), Sub(hw, 0, hw, hh)) /\ Apart(Sub(0, 0, hw, hh), Sub(0, hh, hw, hh))
        /\ Apart(Sub(0, 0, hw, hh), Sub(hw, hh, hw, hh))
    <3>1. 0 + hw <= hw /\ 0 + hh <= hh /\ 0 \in Nat
      BY <1>4
    <3> QED BY <1>3b, <1>4, <3>1
  <2>5. Apart(Sub(hw, 0, hw, hh), Sub(0, hh, hw, hh)) /\ Apart(Sub(hw, 0, hw, hh), Sub(hw, hh, hw, hh))
    <3>1. 0 + hh <= hh /\ 0 \in Nat
      BY <1>4
    <3> QED BY <1>3b, <1>4, <3>1
  <2>6. Apart(Sub(0, hh, hw, hh), Sub(hw, hh, hw, hh))
    <3>1. 0 + hw <= hw /\ 0 \in Nat
      BY <1>4
    <3> QED BY <1>3b, <1>4, <3>1
  <2> QED BY <2>1, <2>3, <2>4, <2>5, <2>6, PartsFour
<1>6. CASE s = "HORZ"
  <2>1. SubAreas(a, s) = <<Sub(0, 0, a.w, hh), Sub(0, hh, a.w, hh)>>
    BY <1>2, <1>6
  <2>2. hh > 0
    <3>1. SubAreas(a, s)[1].h = hh /\ 1 \in 1..Len(SubAreas(a, s))
      BY <2>1 DEF Sub
    <3> QED BY <3>1
  <2>3. /\ Sub(0, 0, a.w, hh) \in Areas /\ Inside(Sub(0, 0, a.w, hh), a) /\ StartsAt(Sub(0, 0, a.w, hh), a)
        /\ Sub(0, hh, a.w, hh) \in Areas /\ Inside(Sub(0, hh, a.w, hh), a) /\ ~StartsAt(Sub(0, hh, a.w, hh), a)
    <3>1. /\ 0 \in Nat /\ hh \in Nat \ {0} /\ hh # 0 /\ a.w \in Nat \ {0} /\ hh \in Nat
          /\ 0 + a.w <= a.w /\ 0 + hh <= a.h /\ hh + hh <= a.h
      BY <1>1, <2>2
    <3>2. Sub(0, 0, a.w, hh) \in Areas /\ Inside(Sub(0, 0, a.w, hh), a) /\ StartsAt(Sub(0, 0, a.w, hh), a)
      BY <1>3, <3>1
    <3>3. Sub(0, hh, a.w, hh) \in Areas /\ Inside(Sub(0, hh, a.w, hh), a) /\ ~StartsAt(Sub(0, hh, a.w, hh), a)
      BY <1>3, <3>1
    <3> QED BY <3>2, <3>3
  <2>4. Apart(Sub(0, 0, a.w, hh), Sub(0, hh, a.w, hh))
    <3>1. 0 + hh <= hh /\ 0 \in Nat
      BY <1>4
    <3> QED BY <1>3b, <1>4, <3>1
  <2> QED BY <2>1, <2>3, <2>4, PartsTwo
<1>7. CASE s = "VERT"
  <2>1. SubAreas(a, s) = <<Sub(0, 0, hw, a.h), Sub(hw, 0, hw, a.h)>>
    BY <1>2, <1>7
  <2>2. hw > 0
    <3>1. SubAreas(a, s)[1].w = hw /\ 1 \in 1..Len(SubAreas(a, s))
      BY <2>1 DEF Sub
    <3> QED BY <3>1
  <2>3. /\ Sub(0, 0, hw, a.h) \in Areas /\ Inside(Sub(0, 0, hw, a.h), a) /\ StartsAt(Sub(0, 0, hw, a.h), a)
        /\ Sub(hw, 0, hw, a.h) \in Areas /\ Inside(Sub(hw, 0, hw, a.h), a) /\ ~StartsAt(Sub(hw, 0, hw, a.h), a)
    <3>1. /\ 0 \in Nat /\ hw \in Nat \ {0} /\ hw # 0 /\ a.h \in Nat \ {0} /\ hw \in Nat
          /\ 0 + a.h <= a.h /\ 0 + hw <= a.w /\ hw + hw <= a.w
      BY <1>1, <2>2
    <3>2. Sub(0, 0, hw, a.h) \in Areas /\ Inside(Sub(0, 0, hw, a.h), a) /\ StartsAt(Sub(0, 0, hw, a.h), a)
      BY <1>3, <3>1
    <3>3. Sub(hw, 0, hw, a.h) \in Areas /\ Inside(Sub(hw, 0, hw, a.h), a) /\ ~StartsAt(Sub(hw, 0, hw, a.h), a)
      BY <1>3, <3>1
    <3> QED BY <3>2, <3>3
  <2>4. Apart(Sub(0, 0, hw, a.h), Sub(hw, 0, hw, a.h))
    <3>1. 0 + hw <= hw /\ 0 \in Nat
      BY <1>4
    <3> QED BY <1>3b, <1>4, <3>1
  <2> QED BY <2>1, <2>3, <2>4, PartsTwo
<1>8. CASE s = "TRIH"
  <2>1. SubAreas(a, s) = <<Sub(0, 0, a.w, qh), Sub(0, qh, a.w, hh), Sub(0, lh, a.w, qh)>>
    BY <1>2, <1>8
  <2>2. qh > 0 /\ hh = qh + qh
    <3>1. SubAreas(a, s)[1].h = qh /\ 1 \in 1..Len(SubAreas(a, s))
      BY <2>1 DEF Sub
    <3> QED BY <1>1, <1>8, <3>1
  <2>3. /\ Sub(0, 0, a.w, qh) \in Areas /\ Inside(Sub(0, 0, a.w, qh), a) /\ StartsAt(Sub(0, 0, a.w, qh), a)
        /\ Sub(0, qh, a.w, hh) \in Areas /\ Inside(Sub(0, qh, a.w, hh), a) /\ ~StartsAt(Sub(0, qh, a.w, hh), a)
        /\ Sub(0, lh, a.w, qh) \in Areas /\ Inside(Sub(0, lh, a.w, qh), a)
        /\ ~StartsAt(Sub(0, lh, a.w, qh), a)
    <3>0. /\ qh \in Nat /\ qh # 0 /\ hh \in Nat /\ hh # 0
          /\ lh \in Nat /\ lh # 0 /\ lh = qh + hh /\ lh + qh <= a.h
          /\ a.w \in Nat /\ a.w # 0 /\ a.h \in Nat
      BY <1>4, <2>2, Quarters
    <3>1. /\ 0 \in Nat /\ a.w \in Nat \ {0} /\ qh \in Nat \ {0} /\ hh \in Nat \ {0} /\ lh \in Nat
          /\ qh \in Nat /\ qh # 0 /\ lh # 0 /\ 0 + a.w <= a.w /\ 0 + qh <= a.h /\ qh + hh <= a.h
          /\ lh + qh <= a.h
      BY <3>0
    <3>2. Sub(0, 0, a.w, qh) \in Areas /\ Inside(Sub(0, 0, a.w, qh), a) /\ StartsAt(Sub(0, 0, a.w, qh), a)
      BY <1>3, <3>1
    <3>3. Sub(0, qh, a.w, hh) \in Areas /\ Inside(Sub(0, qh, a.w, hh), a) /\ ~StartsAt(Sub(0, qh, a.w, hh), a)
      BY <1>3, <3>1
    <3>4. Sub(0, lh, a.w, qh) \in Areas /\ Inside(Sub(0, lh, a.w, qh), a) /\ ~StartsAt(Sub(0, lh, a.w, qh), a)
      BY <1>3, <3>1
    <3> QED BY <3>2, <3>3, <3>4
  <2>4. /\ Apart(Sub(0, 0, a.w, qh), Sub(0, qh, a.w, hh)) /\ Apart(Sub(0, 0, a.w, qh), Sub(0, lh, a.w, qh))
        /\ Apart(Sub(0, qh, a.w, hh), Sub(0, lh, a.w, qh))
    <3>1. 0 + qh <= qh /\ 0 + qh <= lh /\ qh + hh <= lh /\ 0 \in Nat
      BY <1>4, <2>2
    <3> QED BY <1>3b, <1>4, <3>1
  <2> QED BY <2>1, <2>3, <2>4, PartsThree
<1>9. CASE s = "TRIV"
  <2>1. SubAreas(a, s) = <<Sub(0, 0, qw, a.h), Sub(qw, 0, hw, a.h), Sub(lw, 0, qw, a.h)>>
    BY <1>2, <1>9
  <2>2. qw > 0 /\ hw = qw + qw
    <3>1. SubAreas(a, s)[1].w = qw /\ 1 \in 1..Len(SubAreas(a, s))
      BY <2>1 DEF Sub
    <3> QED BY <1>1, <1>9, <3>1
  <2>3. /\ Sub(0, 0, qw, a.h) \in Areas /\ Inside(Sub(0, 0, qw, a.h), a) /\ StartsAt(Sub(0, 0, qw, a.h), a)
        /\ Sub(qw, 0, hw, a.h) \in Areas /\ Inside(Sub(qw, 0, hw, a.h), a) /\ ~StartsAt(Sub(qw, 0, hw, a.h), a)
        /\ Sub(lw, 0, qw, a.h) \in Areas /\ Inside(Sub(lw, 0, qw, a.h), a)
        /\ ~StartsAt(Sub(lw, 0, qw, a.h), a)
    <3>0. /\ qw \in Nat /\ qw # 0 /\ hw \in Nat /\ hw # 0
          /\ lw \in Nat /\ lw # 0 /\ lw = qw + hw /\ lw + qw <= a.w
          /\ a.h \in Nat /\ a.h # 0 /\ a.w \in Nat
      BY <1>4, <2>2, Quarters
    <3>1. /\ 0 \in Nat /\ a.h \in Nat \ {0} /\ qw \in Nat \ {0} /\ hw \in Nat \ {0} /\ lw \in Nat
          /\ qw \in Nat /\ qw # 0 /\ lw # 0 /\ 0 + a.h <= a.h /\ 0 + qw <= a.w /\ qw + hw <= a.w
          /\ lw + qw <= a.w
      BY <3>0
    <3>2. Sub(0, 0, qw, a.h) \in Areas /\ Inside(Sub(0, 0, qw, a.h), a) /\ StartsAt(Sub(0, 0, qw, a.h), a)
      BY <1>3, <3>1
    <3>3. Sub(qw, 0, hw, a.h) \in Areas /\ Inside(Sub(qw, 0, hw, a.h), a) /\ ~StartsAt(Sub(qw, 0, hw, a.h), a)
      BY <1>3, <3>1
    <3>4. Sub(lw, 0, qw, a.h) \in Areas /\ Inside(Sub(lw, 0, qw, a.h), a) /\ ~StartsAt(Sub(lw, 0, qw, a.h), a)
      BY <1>3, <3>1
    <3> QED BY <3>2, <3>3, <3>4
  <2>4. /\ Apart(Sub(0, 0, qw, a.h), Sub(qw, 0, hw, a.h)) /\ Apart(Sub(0, 0, qw, a.h), Sub(lw, 0, qw, a.h))
        /\ Apart(Sub(qw, 0, hw, a.h), Sub(lw, 0, qw, a.h))
    <3>1. 0 + qw <= qw /\ 0 + qw <= lw /\ qw + hw <= lw /\ 0 \in Nat
      BY <1>4, <2>2
    <3> QED BY <1>3b, <1>4, <3>1
  <2> QED BY <2>1, <2>3, <2>4, PartsThree
<1> QED BY <1>5, <1>6, <1>7, <1>8, <1>9 DEF Splits

-----------------------------------------------------------------------------
(* Series of splits *)

(* A set of natural numbers that is not empty has a least element. *)
LEMMA LeastNatural ==
  ASSUME NEW T \in SUBSET Nat, T # {}
  PROVE  \E m \in T : \A n \in T : m <= n
<1>1. PICK m \in T : \A n \in T : <<n, m>> \notin OpToRel(<, Nat)
  BY WFMin, NatLessThanWellFounded
<1>2. \A n \in T : ~(n < m)
  BY <1>1 DEF OpToRel
<1> QED BY <1>2

(* The splits that two series share from the CTU on. *)
LEMMA SharedFacts ==
  ASSUME NEW S, NEW s \in Seq(S), NEW t \in Seq(S)
  PROVE  LET c == SharedSplits(s, t)
         IN c \in 0..Len(s) /\ c <= Len(t) /\ \A i \in 1..c : s[i] = t[i]
<1> DEFINE T == {n \in Nat : n = Len(s) \/ n = Len(t) \/ s[n + 1] # t[n + 1]}
           IsShared(n) == /\ n <= Len(t) /\ SubSeq(s, 1, n) = SubSeq(t, 1, n)
                          /\ n = Len(s) \/ n = Len(t) \/ s[n + 1] # t[n + 1]
<1>1. Len(s) \in T /\ Len(t) \in T /\ T \in SUBSET Nat
  OBVIOUS
<1>2. PICK m \in T : \A n \in T : m <= n
  <2> HIDE DEF T
  <2> QED BY <1>1, LeastNatural
<1>3. m \in 0..Len(s) /\ m <= Len(t) /\ m \in Nat
  BY <1>1, <1>2
<1>4. \A i \in 1..m : s[i] = t[i]
  <2> SUFFICES ASSUME NEW i \in 1..m, s[i] # t[i] PROVE FALSE
    OBVIOUS
  <2>1. i - 1 \in Nat /\ i - 1 < m /\ (i - 1) + 1 = i
    BY <1>3
  <2>2. i - 1 \in T
    BY <2>1
  <2> HIDE DEF T
  <2>3. m <= i - 1
    BY <1>2, <2>2
  <2> QED BY <1>3, <2>1, <2>3
<1>5. SubSeq(s, 1, m) = SubSeq(t, 1, m)
  BY <1>3, <1>4
<1>6. IsShared(m)
  BY <1>2, <1>3, <1>5
<1>7. SharedSplits(s, t) = CHOOSE n \in 0..Len(s) : IsShared(n)
  BY DEF SharedSplits
<1>8. SharedSplits(s, t) \in 0..Len(s) /\ IsShared(SharedSplits(s, t))
  <2> HIDE DEF IsShared
  <2> QED BY <1>3, <1>6, <1>7
<1> DEFINE c == SharedSplits(s, t)
<1>9. c \in 0..Len(s) /\ c <= Len(t) /\ SubSeq(s, 1, c) = SubSeq(t, 1, c)
  BY <1>8
<1> HIDE DEF c
<1>10. ASSUME NEW i \in 1..c PROVE s[i] = t[i]
  <2>1. SubSeq(s, 1, c)[i] = s[i] /\ SubSeq(t, 1, c)[i] = t[i]
    BY <1>9
  <2> QED BY <1>9, <2>1
<1> QED BY <1>9, <1>10 DEF c

(* What follows the head of a queue. *)
LEMMA TailFacts ==
  ASSUME NEW S, NEW q \in Seq(S), q # <<>>
  PROVE  /\ Tail(q) \in Seq(S) /\ Len(Tail(q)) = Len(q) - 1 /\ Len(q) \in Nat /\ Len(q) > 0
         /\ Head(q) = q[1] /\ q[1] \in S /\ 1 \in 1..Len(q)
         /\ \A i \in 1..Len(Tail(q)) : Tail(q)[i] = q[i + 1] /\ i + 1 \in 1..Len(q)
  OBVIOUS

(* A mode that had its turn is not in the queue again, nor are the unsplit *)
(* ones once a split has its turn.                                         *)
LEMMA OneTurnTail ==
  ASSUME NEW q \in Seq(Splits \cup {"NS", "STORE"}), q # <<>>, OneTurn(q)
  PROVE  /\ OneTurn(Tail(q)) /\ \A i \in 1..Len(Tail(q)) : Tail(q)[i] # Head(q)
         /\ Head(q) # "NS" => \A i \in 1..Len(Tail(q)) : Tail(q)[i] \in Splits
<1> DEFINE t == Tail(q)
<1>1. /\ t \in Seq(Splits \cup {"NS", "STORE"}) /\ Len(t) = Len(q) - 1 /\ Len(q) \in Nat /\ Len(q) > 0
      /\ Head(q) = q[1] /\ 1 \in 1..Len(q)
      /\ \A i \in 1..Len(t) : t[i] = q[i + 1] /\ i + 1 \in 1..Len(q) /\ i \in Nat /\ i > 0
  BY TailFacts
<1> HIDE DEF t
<1>2. \A i, j \in 1..Len(t) : i # j => t[i] # t[j]
  BY <1>1 DEF OneTurn
<1>3. \A i \in 1..Len(t) : t[i] # q[1]
  BY <1>1 DEF OneTurn
<1>4. ASSUME NEW i \in 1..Len(t)
      PROVE  t[i] # "NS" /\ (t[i] = "STORE" => i = 1 /\ q[1] = "NS")
  <2>1. t[i] = q[i + 1] /\ i + 1 \in 1..Len(q) /\ i + 1 # 1 /\ (i + 1 = 2 => i = 1)
    BY <1>1
  <2> QED BY <2>1 DEF OneTurn
<1>5. \A i \in 1..Len(t) : t[i] \in Splits \cup {"NS", "STORE"}
  BY <1>1
<1> QED BY <1>1, <1>2, <1>3, <1>4, <1>5 DEF OneTurn, t

(* The parts that wait behind the one that is entered wait on. *)
LEMMA PartsWaitTail ==
  ASSUME NEW q \in Seq(Areas), q # <<>>, NEW a, PartsWait(q, a)
  PROVE  /\ PartsWait(Tail(q), a) /\ Inside(Head(q), a) /\ ~StartsAt(Head(q), a) /\ Head(q) \in Areas
         /\ \A i \in 1..Len(Tail(q)) : Apart(Tail(q)[i], Head(q))
<1> DEFINE t == Tail(q)
<1>1. /\ Len(t) = Len(q) - 1 /\ Len(q) \in Nat /\ Head(q) = q[1] /\ q[1] \in Areas /\ 1 \in 1..Len(q)
      /\ \A i \in 1..Len(t) : t[i] = q[i + 1] /\ i + 1 \in 1..Len(q) /\ i \in Nat /\ i > 0
  BY TailFacts
<1> HIDE DEF t
<1>2. \A i, j \in 1..Len(t) : i # j => Apart(t[i], t[j])
  <2> SUFFICES ASSUME NEW i \in 1..Len(t), NEW j \in 1..Len(t), i # j PROVE Apart(t[i], t[j])
    OBVIOUS
  <2>1. t[i] = q[i + 1] /\ t[j] = q[j + 1] /\ i + 1 \in 1..Len(q) /\ j + 1 \in 1..Len(q) /\ i + 1 # j + 1
    BY <1>1
  <2> QED BY <2>1 DEF PartsWait
<1>3. \A i \in 1..Len(t) : Inside(t[i], a) /\ ~StartsAt(t[i], a)
  BY <1>1 DEF PartsWait
<1>4. \A i \in 1..Len(t) : Apart(t[i], q[1])
  <2> SUFFICES ASSUME NEW i \in 1..Len(t) PROVE Apart(t[i], q[1])
    OBVIOUS
  <2>1. t[i] = q[i + 1] /\ i + 1 \in 1..Len(q) /\ i + 1 # 1
    BY <1>1
  <2> QED BY <1>1, <2>1 DEF PartsWait
<1>5. Inside(q[1], a) /\ ~StartsAt(q[1], a)
  BY <1>1 DEF PartsWait
<1> QED BY <1>1, <1>2, <1>3, <1>4, <1>5 DEF PartsWait, t

-----------------------------------------------------------------------------
(* The stack of units *)

(* The unit on top. *)
LEMMA TopFacts ==
  ASSUME TypeOK, frames # Empty
  PROVE  /\ Len(frames) \in Nat /\ Len(frames) > 0 /\ Len(frames) \in 1..Len(frames)
         /\ Top = frames[Len(frames)] /\ Top \in FrameType
BY DEF TypeOK, Empty, Top

(* The unit on top changes, but neither its area nor how it is reached; *)
LEMMA Replaced ==
  ASSUME TypeOK, StackInv, frames # Empty, NEW f \in FrameType, frames' = WithTop(f),
         f.area = Top.area, f.path = Top.path, FrameInv(f)
  PROVE  /\ StackInv' /\ frames' \in Seq(FrameType) /\ Len(frames') = Len(frames) /\ frames' # Empty
         /\ Top' = f /\ \A k \in 1..Len(frames) : frames'[k] = IF k = Len(frames) THEN f ELSE frames[k]
<1> DEFINE n == Len(frames)
<1>1. n \in Nat /\ n > 0 /\ n \in 1..n /\ Top = frames[n] /\ frames \in Seq(FrameType)
  BY TopFacts DEF TypeOK
<1>2. /\ frames' \in Seq(FrameType) /\ Len(frames') = n
      /\ \A k \in 1..n : frames'[k] = IF k = n THEN f ELSE frames[k]
  BY <1>1 DEF WithTop
<1>3. frames' # Empty /\ Top' = f
  BY <1>1, <1>2 DEF Empty, Top
<1> HIDE DEF n
<1>4. \A k \in 1..n : FrameInv(frames'[k]) /\ Len(frames'[k].path) = k - 1
  BY <1>1, <1>2 DEF StackInv, n
<1>5. ASSUME NEW k \in 1..n, NEW j \in 1..n, j < k PROVE Below(frames'[j], frames'[k])
  <2>1. Below(frames[j], frames[k]) /\ j # n /\ frames'[j] = frames[j]
    BY <1>1, <1>2, <1>5 DEF StackInv, n
  <2>2. frames'[k].path = frames[k].path /\ frames'[k].area = frames[k].area
    BY <1>1, <1>2
  <2> QED BY <2>1, <2>2 DEF Below
<1>6. ASSUME NEW k \in 1..(n - 1), frames'[k].parts = {} PROVE StartsAt(frames'[k + 1].area, frames'[k].area)
  <2>1. k \in 1..n /\ k # n /\ k + 1 \in 1..n /\ frames'[k] = frames[k]
    BY <1>1, <1>2
  <2>2. frames'[k + 1].area = frames[k + 1].area
    BY <1>1, <1>2, <2>1
  <2>3. StartsAt(frames[k + 1].area, frames[k].area)
    BY <1>6, <2>1 DEF StackInv, n
  <2> QED BY <2>1, <2>2, <2>3
<1>7. StackInv'
  BY <1>2, <1>4, <1>5, <1>6 DEF StackInv
<1> QED BY <1>2, <1>3, <1>7 DEF n

(* What the cache says of an area in the units of a stack *)
EntryInv(entry, a, stack) ==
  \A j \in 1..Len(stack) :
    StoredBelow(entry, a, stack[j]) =>
      /\ StoredIn(entry, a, stack[j])
      /\ StartsAt(a, stack[j].area) => entry.before = Before(stack, j)

(* what the cache says of it has to be kept. *)
LEMMA ReplacedCache ==
  ASSUME TypeOK, CacheInv, frames # Empty, NEW f,
         Len(frames') = Len(frames), f.area = Top.area, f.path = Top.path,
         \A k \in 1..Len(frames) : frames'[k] = IF k = Len(frames) THEN f ELSE frames[k],
         \A a \in DOMAIN cache :
           StoredBelow(cache[a], a, Top) /\ StoredIn(cache[a], a, Top) => StoredIn(cache[a], a, f)
  PROVE  /\ \A a \in DOMAIN cache : EntryInv(cache[a], a, frames')
         /\ cache' = cache => CacheInv'
<1> DEFINE n == Len(frames)
<1>1. n \in Nat /\ n \in 1..n /\ Top = frames[n] /\ Len(frames') = n
      /\ \A k \in 1..n : frames'[k] = IF k = n THEN f ELSE frames[k]
  BY TopFacts
<1> HIDE DEF n
<1>2. ASSUME NEW a \in DOMAIN cache, NEW j \in 1..n, StoredBelow(cache[a], a, frames'[j])
      PROVE  /\ StoredIn(cache[a], a, frames'[j])
             /\ StartsAt(a, frames'[j].area) => cache[a].before = Before(frames', j)
  <2>1. frames'[j].area = frames[j].area /\ frames'[j].path = frames[j].path
    BY <1>1
  <2>2. StoredBelow(cache[a], a, frames[j])
    BY <1>2, <2>1 DEF StoredBelow
  <2>3. StoredIn(cache[a], a, frames[j]) /\ (StartsAt(a, frames[j].area) => cache[a].before = Before(frames, j))
    BY <2>2 DEF CacheInv, n
  <2>4. StoredIn(cache[a], a, frames'[j])
    BY <1>1, <2>2, <2>3
  <2>5. \A k \in 1..(j - 1) : frames'[k] = frames[k]
    BY <1>1
  <2>6. Before(frames', j) = Before(frames, j)
    BY <2>5 DEF Before
  <2> QED BY <2>1, <2>3, <2>4, <2>6
<1>3. \A a \in DOMAIN cache : EntryInv(cache[a], a, frames')
  BY <1>1, <1>2 DEF EntryInv
<1> QED BY <1>3 DEF CacheInv, EntryInv

(* A part of the unit on top is entered; *)
LEMMA Pushed ==
  ASSUME TypeOK, StackInv, frames # Empty, NEW f \in FrameType, NEW g \in FrameType,
         frames' = Append(WithTop(f), g),
         f.area = Top.area, f.path = Top.path, FrameInv(f), FrameInv(g),
         f.trying \in Splits, g.path = Append(f.path, f.trying), Inside(g.area, f.area),
         \A i \in 1..Len(f.left) : Apart(f.left[i], g.area),
         StartsAt(g.area, f.area) <=> f.parts = {}
  PROVE  /\ StackInv' /\ frames' \in Seq(FrameType) /\ Len(frames') = Len(frames) + 1 /\ frames' # Empty
         /\ Top' = g
         /\ \A k \in 1..Len(frames) : frames'[k] = IF k = Len(frames) THEN f ELSE frames[k]
         /\ frames'[Len(frames) + 1] = g /\ Len(f.path) = Len(frames) - 1
<1> DEFINE n == Len(frames)
<1>1. n \in Nat /\ n > 0 /\ n \in 1..n /\ Top = frames[n] /\ frames \in Seq(FrameType) /\ Top \in FrameType
  BY TopFacts DEF TypeOK
<1>2. /\ frames' \in Seq(FrameType) /\ Len(frames') = n + 1 /\ frames'[n + 1] = g
      /\ \A k \in 1..n : frames'[k] = IF k = n THEN f ELSE frames[k]
  <2> DEFINE w == WithTop(f)
  <2>1. w \in Seq(FrameType) /\ Len(w) = n /\ \A k \in 1..n : w[k] = IF k = n THEN f ELSE frames[k]
    BY <1>1 DEF WithTop
  <2> HIDE DEF w
  <2>2. frames' = Append(w, g)
    BY DEF w
  <2> QED BY <1>1, <2>1, <2>2
<1>3. frames' # Empty /\ Top' = g
  BY <1>1, <1>2 DEF Empty, Top
<1>4. /\ f.path \in Seq(Splits) /\ Len(f.path) = n - 1
      /\ g.path \in Seq(Splits) /\ Len(g.path) = n /\ g.path[n] = f.trying
      /\ \A i \in 1..(n - 1) : g.path[i] = f.path[i]
  <2>1. f.path \in Seq(Splits)
    BY DEF FrameType
  <2>2. Len(f.path) = n - 1
    BY <1>1 DEF StackInv
  <2> QED BY <1>1, <2>1, <2>2
<1> HIDE DEF n
<1>5. ASSUME NEW k \in 1..(n + 1) PROVE FrameInv(frames'[k]) /\ Len(frames'[k].path) = k - 1
  <2>1. CASE k = n + 1
    BY <1>1, <1>2, <1>4, <2>1
  <2>2. CASE k # n + 1
    <3>1. k \in 1..n
      BY <1>1, <2>2
    <3> QED BY <1>1, <1>2, <1>4, <3>1 DEF StackInv, n
  <2> QED BY <2>1, <2>2
<1>6. Below(f, g)
  BY <1>1, <1>4 DEF Below, Through, ThroughSplit
<1>7. ASSUME NEW k \in 1..(n + 1), NEW j \in 1..(n + 1), j < k PROVE Below(frames'[j], frames'[k])
  <2>0. j \in 1..n /\ (k \in 1..n \/ k = n + 1)
    BY <1>1, <1>7
  <2>1. CASE k \in 1..n
    <3>1. Below(frames[j], frames[k]) /\ j # n /\ frames'[j] = frames[j]
      BY <1>1, <1>2, <1>7, <2>0, <2>1 DEF StackInv, n
    <3>2. frames'[k].path = frames[k].path /\ frames'[k].area = frames[k].area
      BY <1>1, <1>2, <2>1
    <3> QED BY <3>1, <3>2 DEF Below
  <2>2. CASE k = n + 1 /\ j = n
    BY <1>1, <1>2, <1>6, <2>0, <2>2
  <2>3. CASE k = n + 1 /\ j # n
    <3>1. j \in 1..n /\ j \in Nat /\ j > 0 /\ j < n /\ frames'[j] = frames[j] /\ frames'[k] = g
      <4>1. j < n /\ j \in Nat /\ j > 0
        BY <1>1, <2>0, <2>3
      <4> QED BY <1>1, <1>2, <2>0, <2>3, <4>1
    <3>2. Below(frames[j], Top) /\ Len(frames[j].path) = j - 1 /\ frames[j] \in FrameType
      <4>1. n \in 1..Len(frames) /\ j \in 1..Len(frames) /\ frames[j] \in FrameType
        BY <1>1, <3>1 DEF n
      <4> QED BY <1>1, <3>1, <4>1 DEF StackInv
    <3>3. g.area \in Areas /\ f.area \in Areas /\ frames[j].area \in Areas /\ frames[j].left \in Seq(Areas)
          /\ frames[j].path \in Seq(Splits)
      BY <3>2 DEF FrameType
    <3>4. Inside(g.area, frames[j].area)
      BY <3>2, <3>3, InsideApart DEF Below
    <3>5. \A i \in 1..Len(frames[j].left) : Apart(frames[j].left[i], g.area)
      <4>1. \A i \in 1..Len(frames[j].left) : frames[j].left[i] \in Areas
        BY <3>3
      <4> QED BY <3>2, <3>3, <4>1, InsideApart DEF Below
    <3>6. StartsAt(g.area, frames[j].area) => frames[j].parts = {}
      BY <3>2, <3>3, InsideApart DEF Below
    <3>7. ThroughSplit(g.path, frames[j].path, frames[j].trying)
      <4>1. ThroughSplit(f.path, frames[j].path, frames[j].trying)
        BY <3>2 DEF Below
      <4>2. \A i \in 1..j : g.path[i] = f.path[i]
        BY <1>1, <1>4, <3>1
      <4>3. (j - 1) + 1 = j /\ j \in 1..j /\ j - 1 < n /\ j - 1 <= n /\ \A i \in 1..(j - 1) : i \in 1..j
        BY <1>1, <3>1
      <4> QED BY <1>1, <1>4, <3>1, <3>2, <4>1, <4>2, <4>3 DEF Through, ThroughSplit
    <3> QED BY <3>1, <3>2, <3>4, <3>5, <3>6, <3>7 DEF Below
  <2> QED BY <2>0, <2>1, <2>2, <2>3
<1>8. ASSUME NEW k \in 1..n, frames'[k].parts = {} PROVE StartsAt(frames'[k + 1].area, frames'[k].area)
  <2>1. CASE k = n
    BY <1>1, <1>2, <1>8, <2>1
  <2>2. CASE k # n
    <3>1. k \in 1..(n - 1) /\ k + 1 \in 1..n /\ frames'[k] = frames[k]
      BY <1>1, <1>2, <2>2
    <3>2. frames'[k + 1].area = frames[k + 1].area
      BY <1>1, <1>2, <3>1
    <3>3. StartsAt(frames[k + 1].area, frames[k].area)
      BY <1>8, <3>1 DEF StackInv, n
    <3> QED BY <3>1, <3>2, <3>3
  <2> QED BY <2>1, <2>2
<1>9. StackInv'
  <2>1. Len(frames') - 1 = n
    BY <1>1, <1>2
  <2> QED BY <1>2, <1>5, <1>7, <1>8, <2>1 DEF StackInv
<1> QED BY <1>2, <1>3, <1>4, <1>9 DEF n

(* nothing may be stored below the part then. *)
LEMMA PushedCache ==
  ASSUME TypeOK, CacheInv, frames # Empty, cache' = cache, NEW f \in FrameType, NEW g \in FrameType,
         Len(frames') = Len(frames) + 1, f.area = Top.area, f.path = Top.path,
         \A k \in 1..Len(frames) : frames'[k] = IF k = Len(frames) THEN f ELSE frames[k],
         frames'[Len(frames) + 1] = g, g.path = Append(f.path, f.trying), Inside(g.area, f.area),
         \A a \in DOMAIN cache :
           StoredBelow(cache[a], a, Top) /\ StoredIn(cache[a], a, Top)
             => StoredIn(cache[a], a, f) /\ ~StoredBelow(cache[a], a, g)
  PROVE  CacheInv'
<1> DEFINE n == Len(frames)
<1>1. n \in Nat /\ n \in 1..n /\ Top = frames[n] /\ Len(frames') = n + 1 /\ frames'[n + 1] = g
      /\ \A k \in 1..n : frames'[k] = IF k = n THEN f ELSE frames[k]
  BY TopFacts
<1> HIDE DEF n
<1>2. ASSUME NEW a \in DOMAIN cache, NEW j \in 1..(n + 1), StoredBelow(cache[a], a, frames'[j])
      PROVE  /\ StoredIn(cache[a], a, frames'[j])
             /\ StartsAt(a, frames'[j].area) => cache[a].before = Before(frames', j)
  <2>0. a \in Areas /\ g.area \in Areas /\ f.area \in Areas /\ f.path \in Seq(Splits) /\ f.trying \in Splits \cup {"NONE"}
    BY DEF TypeOK, FrameType
  <2>1. CASE j = n + 1
    <3>1. StoredBelow(cache[a], a, g)
      BY <1>1, <1>2, <2>1
    <3>2. Len(f.path) <= Len(g.path) /\ \A i \in 1..Len(f.path) : g.path[i] = f.path[i] /\ i \in 1..Len(g.path)
      BY <2>0
    <3>3. Through(cache[a].series, f.path)
      <4>1. cache[a].series \in Seq(Splits) /\ g.path \in Seq(Splits \cup {"NONE"})
        BY <2>0 DEF TypeOK
      <4>2. Len(cache[a].series) \in Nat /\ Len(g.path) \in Nat /\ Len(f.path) \in Nat
        BY <2>0, <4>1
      <4> QED BY <3>1, <3>2, <4>2 DEF StoredBelow, Through
    <3>4. Inside(a, f.area)
      BY <2>0, <3>1, InsideApart DEF StoredBelow
    <3>5. StoredBelow(cache[a], a, Top)
      BY <3>3, <3>4 DEF StoredBelow
    <3>6. StoredIn(cache[a], a, Top)
      BY <1>1, <3>5 DEF CacheInv, n
    <3> QED BY <3>1, <3>5, <3>6
  <2>2. CASE j \in 1..n
    <3>1. frames'[j].area = frames[j].area /\ frames'[j].path = frames[j].path
      BY <1>1, <2>2
    <3>2. StoredBelow(cache[a], a, frames[j])
      BY <1>2, <3>1 DEF StoredBelow
    <3>3. StoredIn(cache[a], a, frames[j]) /\ (StartsAt(a, frames[j].area) => cache[a].before = Before(frames, j))
      BY <2>2, <3>2 DEF CacheInv, n
    <3>4. StoredIn(cache[a], a, frames'[j])
      BY <1>1, <2>2, <3>2, <3>3
    <3>5. \A k \in 1..(j - 1) : frames'[k] = frames[k]
      BY <1>1, <2>2
    <3>6. Before(frames', j) = Before(frames, j)
      BY <3>5 DEF Before
    <3> QED BY <3>1, <3>3, <3>4, <3>6
  <2>3. j \in 1..n \/ j = n + 1
    BY <1>1
  <2> QED BY <2>1, <2>2, <2>3
<1> QED BY <1>1, <1>2 DEF CacheInv

(* The unit on top is left. *)
LEMMA Popped ==
  ASSUME TypeOK, StackInv, CacheInv, frames # Empty, frames' = Front(frames), cache' = cache
  PROVE  /\ StackInv' /\ CacheInv' /\ frames' \in Seq(FrameType) /\ Len(frames') = Len(frames) - 1
         /\ Len(frames) # 1 => frames' # Empty /\ Top' = frames[Len(frames) - 1]
         /\ Len(frames) = 1 => frames' = Empty
<1> DEFINE n == Len(frames)
<1>1. n \in Nat /\ n > 0 /\ n \in 1..n /\ Top = frames[n] /\ frames \in Seq(FrameType)
  BY TopFacts DEF TypeOK
<1>2. frames' \in Seq(FrameType) /\ Len(frames') = n - 1 /\ \A k \in 1..(n - 1) : frames'[k] = frames[k]
  <2>1. frames' = SubSeq(frames, 1, n - 1)
    BY DEF Front
  <2> HIDE DEF n
  <2>2. n - 1 \in 0..Len(frames)
    BY <1>1 DEF n
  <2> QED BY <1>1, <2>1, <2>2
<1>3. /\ n # 1 => frames' # Empty /\ Top' = frames[n - 1]
      /\ n = 1 => frames' = Empty
  BY <1>1, <1>2 DEF Empty, Top
<1> HIDE DEF n
<1>4. \A k \in 1..(n - 1) : k \in 1..n
  BY <1>1
<1>5. \A k \in 1..(n - 1) : FrameInv(frames'[k]) /\ Len(frames'[k].path) = k - 1
  BY <1>2, <1>4 DEF StackInv, n
<1>6. \A k \in 1..(n - 1), j \in 1..(n - 1) : j < k => Below(frames'[j], frames'[k])
  BY <1>2, <1>4 DEF StackInv, n
<1>7. ASSUME NEW k \in 1..(n - 1 - 1), frames'[k].parts = {}
      PROVE  StartsAt(frames'[k + 1].area, frames'[k].area)
  <2>1. k \in 1..(n - 1) /\ k + 1 \in 1..(n - 1) /\ frames'[k] = frames[k] /\ frames'[k + 1] = frames[k + 1]
    BY <1>1, <1>2
  <2> QED BY <1>7, <2>1 DEF StackInv, n
<1>8. StackInv'
  BY <1>2, <1>5, <1>6, <1>7 DEF StackInv
<1>9. ASSUME NEW a \in DOMAIN cache, NEW j \in 1..(n - 1), StoredBelow(cache[a], a, frames'[j])
      PROVE  /\ StoredIn(cache[a], a, frames'[j])
             /\ StartsAt(a, frames'[j].area) => cache[a].before = Before(frames', j)
  <2>1. j \in 1..n /\ frames'[j] = frames[j] /\ \A k \in 1..(j - 1) : frames'[k] = frames[k]
    BY <1>1, <1>2
  <2>2. Before(frames', j) = Before(frames, j)
    BY <2>1 DEF Before
  <2> QED BY <1>9, <2>1, <2>2 DEF CacheInv, n
<1>10. CacheInv'
  BY <1>2, <1>9 DEF CacheInv
<1> QED BY <1>2, <1>3, <1>8, <1>10 DEF n

(* Where the unit on top starts at the corner of one it is part of, nothing *)
(* was coded between the two.                                              *)
LEMMA NothingBetween ==
  ASSUME TypeOK, StackInv, frames # Empty, NEW j \in 1..Len(frames), StartsAt(Top.area, frames[j].area)
  PROVE  Before(frames, j) = CodedBefore
<1> DEFINE n == Len(frames)
<1>1. n \in Nat /\ n > 0 /\ n \in 1..n /\ Top = frames[n] /\ frames \in Seq(FrameType)
  BY TopFacts DEF TypeOK
<1> HIDE DEF n
<1>2. \A k \in 1..n : frames[k].area \in Areas
  <2>1. \A k \in 1..n : frames[k] \in FrameType
    BY <1>1 DEF n
  <2>2. \A f \in FrameType : f.area \in Areas
    BY DEF FrameType
  <2> QED BY <2>1, <2>2
<1>3. ASSUME NEW k \in 1..(n - 1), k >= j PROVE frames[k].parts = {}
  <2>1. k \in 1..n /\ j \in 1..n /\ k < n
    BY <1>1, <1>3 DEF n
  <2>2. Below(frames[k], frames[n])
    BY <2>1 DEF StackInv, n
  <2>3. StartsAt(frames[n].area, frames[k].area)
    <3>1. CASE j = k
      BY <1>1, <3>1
    <3>2. CASE j # k
      <4>1. Below(frames[j], frames[k])
        <5>1. j < k
          BY <1>3, <2>1, <3>2
        <5> QED BY <2>1, <5>1 DEF StackInv, n
      <4> QED BY <1>1, <1>2, <2>1, <2>2, <4>1, InsideApart DEF Below
    <3> QED BY <3>1, <3>2
  <2> QED BY <2>2, <2>3 DEF Below
<1>4. \A k \in 1..(n - 1) : k \in 1..(j - 1) \/ frames[k].parts = {}
  BY <1>1, <1>3 DEF n
<1>5. j \in 1..n /\ \A k \in 1..(j - 1) : k \in 1..(n - 1)
  <2>1. j \in 1..n
    BY DEF n
  <2> QED BY <1>1, <2>1
<1>6. CodedBefore = UNION {frames[k].parts : k \in 1..(n - 1)}
  BY DEF CodedBefore, n
<1> QED BY <1>4, <1>5, <1>6 DEF Before

-----------------------------------------------------------------------------
(* The search of a unit *)

(* A unit at its entry. *)
LEMMA FrameEntered ==
  ASSUME NEW id \in Nat, NEW parent \in Int, NEW via \in Splits \cup {"NONE"}, NEW area \in Areas,
         NEW path \in Seq(Splits)
  PROVE  LET f == Frame(id, parent, via, area, path)
         IN /\ f \in FrameType /\ FrameInv(f)
            /\ f.id = id /\ f.area = area /\ f.path = path /\ f.trying = "NONE" /\ f.parts = {}
<1> DEFINE f == Frame(id, parent, via, area, path)
           o == Offered(area)
           q == <<"NS", "STORE">> \o o
<1>1. /\ o \in Seq(Splits) /\ Len(o) \in Nat
      /\ \A i, j \in 1..Len(o) : i # j => o[i] # o[j]
      /\ \A i \in 1..Len(o) : o[i] \in Splits
  BY OfferedAssumption
<1> HIDE DEF o
<1>2. "NS" \notin Splits /\ "STORE" \notin Splits
  BY DEF Splits
<1>3. /\ q \in Seq(Splits \cup {"NS", "STORE"}) /\ Len(q) = Len(o) + 2
      /\ q[1] = "NS" /\ q[2] = "STORE" /\ \A i \in 1..Len(q) : i > 2 => q[i] = o[i - 2] /\ i - 2 \in 1..Len(o)
  BY <1>1
<1> HIDE DEF q
<1>4. OneTurn(q)
  <2>1. ASSUME NEW i \in 1..Len(q)
        PROVE  (q[i] = "NS" => i = 1) /\ (q[i] = "STORE" => i = 2)
    <3>1. i = 1 \/ i = 2 \/ i > 2
      BY <1>1, <1>3
    <3> QED BY <1>1, <1>2, <1>3, <3>1
  <2>2. ASSUME NEW i \in 1..Len(q), NEW j \in 1..Len(q), i # j PROVE q[i] # q[j]
    <3>1. CASE i > 2 /\ j > 2
      <4>1. i - 2 \in 1..Len(o) /\ j - 2 \in 1..Len(o) /\ q[i] = o[i - 2] /\ q[j] = o[j - 2]
        BY <1>3, <3>1
      <4>2. i - 2 # j - 2
        BY <1>1, <1>3, <2>2, <3>1
      <4> QED BY <1>1, <4>1, <4>2
    <3>2. CASE ~(i > 2 /\ j > 2)
      <4>1. i = 1 \/ i = 2 \/ j = 1 \/ j = 2
        BY <1>1, <1>3, <3>2
      <4> QED BY <1>3, <2>1, <2>2, <4>1
    <3> QED BY <3>1, <3>2
  <2> QED BY <1>3, <2>1, <2>2 DEF OneTurn
<1>5. f = [id |-> id, parent |-> parent, via |-> via, area |-> area, path |-> path, modes |-> q,
           trying |-> "NONE", left |-> <<>>, parts |-> {}, best |-> {}, completed |-> {}]
  BY DEF Frame, Empty, q, o
<1>6. f \in FrameType
  BY <1>3, <1>5 DEF FrameType
<1>7. FrameInv(f)
  <2>1. OneTurn(f.modes) /\ PartsWait(f.left, f.area)
    BY <1>4, <1>5 DEF PartsWait
  <2>2. KeptCounted(f) /\ f.trying = "NONE"
    BY <1>5 DEF KeptCounted
  <2>3. ASSUME NEW i \in 1..Len(f.modes), f.modes[i] \in Splits
        PROVE  \E k \in 1..Len(Offered(f.area)) : Offered(f.area)[k] = f.modes[i]
    <3>1. f.modes = q /\ f.area = area
      BY <1>5
    <3>2. i > 2
      BY <1>2, <1>3, <2>3, <3>1
    <3> QED BY <1>3, <3>1, <3>2 DEF o
  <2> QED BY <2>1, <2>2, <2>3 DEF FrameInv
<1> QED BY <1>5, <1>6, <1>7

(* An entry changes in some of its fields. *)
LEMMA FrameChanged ==
  ASSUME NEW f \in FrameType
  PROVE  /\ \A q \in Seq(Splits \cup {"NS", "STORE"}) : [f EXCEPT !.modes = q] \in FrameType
         /\ \A q \in Seq(Splits \cup {"NS", "STORE"}), b \in SUBSET Units, c \in SUBSET (Splits \cup {"NS"}) :
              [f EXCEPT !.modes = q, !.best = b, !.completed = c] \in FrameType
         /\ \A q \in Seq(Splits \cup {"NS", "STORE"}), s \in Splits, l \in Seq(Areas) :
              [f EXCEPT !.modes = q, !.trying = s, !.left = l, !.parts = {}] \in FrameType
         /\ \A l \in Seq(Areas) : [f EXCEPT !.left = l] \in FrameType
         /\ \A u \in SUBSET Units : [f EXCEPT !.parts = u] \in FrameType
         /\ [f EXCEPT !.trying = "NONE", !.left = Empty, !.parts = {}] \in FrameType
         /\ \A c \in SUBSET (Splits \cup {"NS"}), b \in SUBSET Units :
              [f EXCEPT !.trying = "NONE", !.parts = {}, !.completed = c, !.best = b] \in FrameType
<1>1. {} \in SUBSET Units /\ Empty \in Seq(Areas) /\ "NONE" \in Splits \cup {"NONE"}
  BY DEF Empty
<1>2. \A l \in Seq(Areas), s \in Splits \cup {"NONE"}, u \in SUBSET Units :
        [f EXCEPT !.trying = s, !.left = l, !.parts = u] \in FrameType
  BY DEF FrameType
<1>3. \A c \in SUBSET (Splits \cup {"NS"}), b \in SUBSET Units, s \in Splits \cup {"NONE"}, u \in SUBSET Units :
        [f EXCEPT !.trying = s, !.parts = u, !.completed = c, !.best = b] \in FrameType
  BY DEF FrameType
<1>4. \A q \in Seq(Splits \cup {"NS", "STORE"}), s \in Splits \cup {"NONE"}, l \in Seq(Areas), u \in SUBSET Units :
        [f EXCEPT !.modes = q, !.trying = s, !.left = l, !.parts = u] \in FrameType
  BY DEF FrameType
<1>5. \A q \in Seq(Splits \cup {"NS", "STORE"}), b \in SUBSET Units, c \in SUBSET (Splits \cup {"NS"}) :
        [f EXCEPT !.modes = q, !.best = b, !.completed = c] \in FrameType
  BY DEF FrameType
<1>6. /\ \A q \in Seq(Splits \cup {"NS", "STORE"}) : [f EXCEPT !.modes = q] \in FrameType
      /\ \A l \in Seq(Areas) : [f EXCEPT !.left = l] \in FrameType
      /\ \A u \in SUBSET Units : [f EXCEPT !.parts = u] \in FrameType
  BY DEF FrameType
<1> QED BY <1>1, <1>2, <1>3, <1>4, <1>5, <1>6

(* The CTU is an area of itself. *)
LEMMA CtuIsArea == Ctu \in Areas
  BY CtuAssumption DEF Areas, Inside

(* The search starts well, *)
LEMMA InitRecursion == Init => RecursionInv
<1> SUFFICES ASSUME Init PROVE RecursionInv
  OBVIOUS
<1> DEFINE f == Frame(0, -1, "NONE", Ctu, Empty)
<1>1. f \in FrameType /\ FrameInv(f) /\ f.path = Empty
  <2>1. Empty \in Seq(Splits)
    BY DEF Empty
  <2>2. \A p \in Int : LET g == Frame(0, p, "NONE", Ctu, Empty)
                      IN g \in FrameType /\ FrameInv(g) /\ g.path = Empty
    <3>1. \A i \in Nat, p \in Int, v \in Splits \cup {"NONE"}, s \in Seq(Splits) :
             LET g == Frame(i, p, v, Ctu, s)
             IN g \in FrameType /\ FrameInv(g) /\ g.path = s
      BY CtuIsArea, FrameEntered
    <3>2. 0 \in Nat /\ "NONE" \in Splits \cup {"NONE"}
      OBVIOUS
    <3> QED BY <2>1, <3>1, <3>2
  <2> QED BY <2>2
<1> HIDE DEF f
<1>2. frames = <<f>> /\ nextNodeId = 1 /\ returned = NoResult /\ cache = Empty /\ rows = Empty
  BY DEF Init, f
<1>3. Len(frames) = 1 /\ frames[1] = f /\ frames \in Seq(FrameType)
  BY <1>1, <1>2
<1>4. StackInv
  BY <1>1, <1>3 DEF StackInv, Empty
<1>5. ReturnedInv /\ CacheInv /\ SelectedCompleted
  BY <1>2 DEF ReturnedInv, CacheInv, SelectedCompleted, Empty
<1>6. NoResult \subseteq Units
  BY CtuIsArea DEF NoResult, Units
<1>7. TypeOK
  BY <1>2, <1>3, <1>6 DEF TypeOK, Empty
<1> QED BY <1>4, <1>5, <1>7 DEF RecursionInv

(* No part is waited for while modes are gone through. *)
LEMMA NothingReturned ==
  ASSUME RecursionInv, Top.trying = "NONE"
  PROVE  returned = NoResult
BY DEF RecursionInv, ReturnedInv, Splits

(* a mode that leaves the queue of the unit on top keeps it so, *)
LEMMA ModePassed ==
  ASSUME RecursionInv, NEW m, Popping(m), NEW f \in FrameType, frames' = WithTop(f),
         f.area = Top.area, f.path = Top.path, f.trying = Top.trying, f.left = Top.left,
         f.modes = Tail(Top.modes), KeptCounted(f)
  PROVE  /\ StackInv' /\ frames' \in Seq(FrameType) /\ Len(frames') = Len(frames) /\ frames' # Empty
         /\ Top' = f /\ \A k \in 1..Len(frames) : frames'[k] = IF k = Len(frames) THEN f ELSE frames[k]
         /\ returned' = returned => ReturnedInv'
         /\ \A a \in DOMAIN cache : EntryInv(cache[a], a, frames')
         /\ cache' = cache => CacheInv'
<1>1. /\ TypeOK /\ StackInv /\ CacheInv /\ frames # Empty /\ Top \in FrameType /\ FrameInv(Top)
      /\ Top.trying = "NONE" /\ Top.modes # <<>> /\ Top.modes \in Seq(Splits \cup {"NS", "STORE"})
  <2>1. TypeOK /\ StackInv /\ CacheInv /\ frames # Empty /\ Top.trying = "NONE" /\ Top.modes # <<>>
    BY DEF RecursionInv, Popping, Empty
  <2>2. Top \in FrameType /\ FrameInv(Top)
    BY <2>1, TopFacts DEF StackInv
  <2> QED BY <2>1, <2>2 DEF FrameType
<1>2. FrameInv(f)
  <2>1. OneTurn(f.modes) /\ PartsWait(f.left, f.area)
    BY <1>1, OneTurnTail DEF FrameInv
  <2>2. ASSUME NEW i \in 1..Len(f.modes), f.modes[i] \in Splits
        PROVE  \E k \in 1..Len(Offered(f.area)) : Offered(f.area)[k] = f.modes[i]
    <3>1. \E j \in 1..Len(Top.modes) : f.modes[i] = Top.modes[j]
      BY <1>1, TailFacts
    <3> QED BY <1>1, <2>2, <3>1 DEF FrameInv
  <2> QED BY <1>1, <2>1, <2>2 DEF FrameInv
<1>3. /\ StackInv' /\ frames' \in Seq(FrameType) /\ Len(frames') = Len(frames) /\ frames' # Empty
      /\ Top' = f /\ \A k \in 1..Len(frames) : frames'[k] = IF k = Len(frames) THEN f ELSE frames[k]
  BY <1>1, <1>2, Replaced
<1>4. returned' = returned => ReturnedInv'
  BY <1>1, NothingReturned DEF ReturnedInv, NoResult
<1>5. ASSUME NEW a \in DOMAIN cache, StoredIn(cache[a], a, Top) PROVE StoredIn(cache[a], a, f)
  <2>1. \A i \in 1..Len(f.modes) : \E j \in 1..Len(Top.modes) : f.modes[i] = Top.modes[j]
    BY <1>1, TailFacts
  <2> QED BY <1>5, <2>1 DEF StoredIn
<1>6. /\ \A a \in DOMAIN cache : EntryInv(cache[a], a, frames')
      /\ cache' = cache => CacheInv'
  BY <1>1, <1>3, <1>5, ReplacedCache
<1> QED BY <1>3, <1>4, <1>6

(* and so does an unsplit coding of it, new or reused, *)
LEMMA UnsplitRecursion ==
  ASSUME RecursionInv, ReuseCached \/ CodeUnsplit
  PROVE  RecursionInv'
<1>1. /\ UNCHANGED <<returned, cache, nextNodeId, rows>> /\ Popping("NS")
      /\ TypeOK /\ StackInv /\ frames # Empty
  BY DEF ReuseCached, CodeUnsplit, RecursionInv, Popping
<1>2. Top \in FrameType /\ FrameInv(Top) /\ Top.modes # <<>>
  BY <1>1, TopFacts DEF StackInv, Popping, Empty
<1>3. PICK origin \in Int : TakeUnsplit(Unsplit(Top, origin))
  <2>1. CASE CodeUnsplit
    <3>1. Top.id \in Int
      BY <1>2 DEF FrameType
    <3> QED BY <2>1, <3>1 DEF CodeUnsplit
  <2>2. CASE ReuseCached
    <3>1. Top.area \in DOMAIN cache
      BY <2>2 DEF ReuseCached, Reusing, IsValid, Top
    <3>2. cache[Top.area].origin \in Int
      BY <1>1, <3>1 DEF TypeOK
    <3> QED BY <2>2, <3>2 DEF ReuseCached, ReusedUnit
  <2> QED BY <2>1, <2>2
<1> DEFINE u == Unsplit(Top, origin)
           f == [Top EXCEPT !.modes = Tail(@), !.best = {u}, !.completed = @ \cup {"NS"}]
<1>4. u \in Units /\ u.area = Top.area /\ u.series = Top.path /\ Top.path \in Seq(Splits)
  BY <1>2 DEF Unsplit, Units, FrameType
<1>5. frames' = WithTop(f)
  BY <1>3 DEF TakeUnsplit
<1> HIDE DEF u
<1>6. f \in FrameType
  <2>1. Tail(Top.modes) \in Seq(Splits \cup {"NS", "STORE"}) /\ Top.completed \cup {"NS"} \in SUBSET (Splits \cup {"NS"})
    BY <1>2, TailFacts DEF FrameType
  <2> QED BY <1>2, <1>4, <2>1, FrameChanged
<1>7. /\ f.area = Top.area /\ f.path = Top.path /\ f.trying = Top.trying /\ f.left = Top.left
      /\ f.modes = Tail(Top.modes) /\ f.best = {u} /\ "NS" \in f.completed
  BY <1>2 DEF FrameType
<1> HIDE DEF f
<1>8. KeptCounted(f)
  BY <1>4, <1>7 DEF KeptCounted, StartsAt, Through
<1>9. /\ StackInv' /\ frames' \in Seq(FrameType) /\ ReturnedInv' /\ CacheInv'
  BY <1>1, <1>5, <1>6, <1>7, <1>8, ModePassed
<1> QED BY <1>1, <1>9 DEF RecursionInv, TypeOK, SelectedCompleted

(* or none of a mode; *)
LEMMA RefusedRecursion ==
  ASSUME RecursionInv, LeaveSplit \/ RefuseSplit
  PROVE  RecursionInv'
<1>1. /\ UNCHANGED <<returned, cache, nextNodeId, rows>> /\ TypeOK /\ StackInv /\ frames # Empty
      /\ \E m : Popping(m)
  BY DEF LeaveSplit, RefuseSplit, RecursionInv, Popping
<1> DEFINE f == [Top EXCEPT !.modes = Tail(@)]
<1>2. Top \in FrameType /\ FrameInv(Top) /\ Top.modes # <<>> /\ Top.modes \in Seq(Splits \cup {"NS", "STORE"})
  <2>1. Top \in FrameType /\ FrameInv(Top) /\ Top.modes # <<>>
    BY <1>1, TopFacts DEF StackInv, Popping, Empty
  <2> QED BY <2>1 DEF FrameType
<1>3. frames' = WithTop(f)
  BY DEF LeaveSplit, RefuseSplit
<1>4. f \in FrameType
  BY <1>2, TailFacts, FrameChanged
<1>5. /\ f.area = Top.area /\ f.path = Top.path /\ f.trying = Top.trying /\ f.left = Top.left
      /\ f.modes = Tail(Top.modes) /\ f.best = Top.best /\ f.completed = Top.completed
  BY <1>2 DEF FrameType
<1> HIDE DEF f
<1>6. (\E i \in 1..Len(f.modes) : f.modes[i] = "STORE") => \E i \in 1..Len(Top.modes) : Top.modes[i] = "STORE"
  BY <1>2, <1>5, TailFacts
<1>7. KeptCounted(f)
  BY <1>2, <1>5, <1>6 DEF KeptCounted, FrameInv
<1>8. /\ StackInv' /\ frames' \in Seq(FrameType) /\ ReturnedInv' /\ CacheInv'
  BY <1>1, <1>3, <1>4, <1>5, <1>7, ModePassed
<1> QED BY <1>1, <1>8 DEF RecursionInv, TypeOK, SelectedCompleted

(* the storing of an unsplit coding adds one to the cache that was found in *)
(* every unit of the stack in the split under test.                         *)
LEMMA StoreRecursion ==
  ASSUME RecursionInv, StoreUnsplit
  PROVE  RecursionInv'
<1>1. /\ UNCHANGED <<returned, nextNodeId, rows>> /\ TypeOK /\ StackInv /\ CacheInv /\ frames # Empty
      /\ Popping("STORE")
  BY DEF StoreUnsplit, RecursionInv, Popping
<1> DEFINE f == [Top EXCEPT !.modes = Tail(@)]
           n == Len(frames)
<1>2. Top \in FrameType /\ FrameInv(Top) /\ Top.modes # <<>> /\ Top.modes \in Seq(Splits \cup {"NS", "STORE"})
  <2>1. Top \in FrameType /\ FrameInv(Top) /\ Top.modes # <<>>
    BY <1>1, TopFacts DEF StackInv, Popping, Empty
  <2> QED BY <2>1 DEF FrameType
<1>3. frames' = WithTop(f)
  BY DEF StoreUnsplit
<1>4. f \in FrameType
  BY <1>2, TailFacts, FrameChanged
<1>5. /\ f.area = Top.area /\ f.path = Top.path /\ f.trying = Top.trying /\ f.left = Top.left
      /\ f.modes = Tail(Top.modes) /\ f.best = Top.best /\ f.completed = Top.completed
  BY <1>2 DEF FrameType
<1> HIDE DEF f
<1>6. (\E i \in 1..Len(f.modes) : f.modes[i] = "STORE") => \E i \in 1..Len(Top.modes) : Top.modes[i] = "STORE"
  BY <1>2, <1>5, TailFacts
<1>7. KeptCounted(f)
  BY <1>2, <1>5, <1>6 DEF KeptCounted, FrameInv
<1>8. /\ StackInv' /\ frames' \in Seq(FrameType) /\ ReturnedInv' /\ Len(frames') = n
      /\ \A k \in 1..n : frames'[k] = IF k = n THEN f ELSE frames[k]
      /\ \A a \in DOMAIN cache : EntryInv(cache[a], a, frames')
      /\ cache' = cache => CacheInv'
  BY <1>1, <1>3, <1>4, <1>5, <1>7, ModePassed
<1>9. CASE Top.best = {}
  <2>1. cache' = cache
    BY <1>9 DEF StoreUnsplit
  <2> QED BY <1>1, <1>8, <2>1 DEF RecursionInv, TypeOK, SelectedCompleted
<1>10. CASE Top.best # {}
  <2> DEFINE cu == CHOOSE c \in Top.best : TRUE
             e == [series |-> cu.series, origin |-> cu.origin, before |-> CodedBefore]
  <2>1. cu \in Units /\ cu.series = Top.path
    <3>1. cu \in Top.best
      BY <1>10
    <3> HIDE DEF cu
    <3>2. \E i \in 1..Len(Top.modes) : Top.modes[i] = "STORE"
      BY <1>1, <1>2, TailFacts DEF Popping
    <3> QED BY <1>2, <3>1, <3>2 DEF KeptCounted, FrameInv, FrameType
  <2>2. cache' = [a \in DOMAIN cache \cup {Top.area} |-> IF a = Top.area THEN e ELSE cache[a]]
    BY <1>10 DEF StoreUnsplit
  <2> HIDE DEF cu
  <2>3. /\ e.series = Top.path /\ e.origin \in Int /\ e.before = CodedBefore
        /\ Top.path \in Seq(Splits) /\ Top.area \in Areas
    BY <1>2, <2>1 DEF Units, FrameType
  <2> HIDE DEF e
  <2>4. /\ DOMAIN cache' = DOMAIN cache \cup {Top.area} /\ cache'[Top.area] = e
        /\ \A a \in DOMAIN cache : a # Top.area => cache'[a] = cache[a]
    BY <2>2
  <2>5. TypeOK'
    BY <1>1, <1>8, <2>3, <2>4 DEF TypeOK
  <2>6. n \in Nat /\ n > 0 /\ n \in 1..n /\ Top = frames[n] /\ frames \in Seq(FrameType)
    BY <1>1, TopFacts DEF TypeOK
  <2>7. ASSUME NEW j \in 1..n, StoredBelow(e, Top.area, frames'[j])
        PROVE  /\ StoredIn(e, Top.area, frames'[j])
               /\ StartsAt(Top.area, frames'[j].area) => e.before = Before(frames', j)
    <3>1. frames'[j].area = frames[j].area /\ frames'[j].path = frames[j].path
      BY <1>5, <1>8, <2>6
    <3>2. \A k \in 1..(j - 1) : frames'[k] = frames[k]
      BY <1>8, <2>6
    <3>3. Before(frames', j) = Before(frames, j)
      BY <3>2 DEF Before
    <3>4. StartsAt(Top.area, frames'[j].area) => e.before = Before(frames', j)
      BY <1>1, <2>3, <3>1, <3>3, NothingBetween
    <3>5. CASE j = n
      <4>1. ~(Len(frames'[j].path) < Len(e.series))
        BY <2>3, <2>6, <3>1, <3>5
      <4> QED BY <3>4, <4>1 DEF StoredIn
    <3>6. CASE j # n
      <4>1. frames'[j] = frames[j] /\ j < n /\ j \in 1..Len(frames) /\ n \in 1..Len(frames)
        BY <1>8, <2>6, <3>6
      <4>2. Below(frames[j], Top) /\ FrameInv(frames[j])
        BY <1>1, <2>6, <4>1 DEF StackInv
      <4>3. e.series[Len(frames[j].path) + 1] = frames[j].trying /\ frames[j].trying \in Splits
        BY <2>3, <4>2 DEF Below, ThroughSplit
      <4>4. \A i \in 1..Len(frames[j].modes) : frames[j].modes[i] # frames[j].trying
        <5>1. frames[j].trying # "NONE"
          BY <4>3 DEF Splits
        <5> QED BY <4>2, <5>1 DEF FrameInv, SplitInTest
      <4>5. \A i \in 1..Len(frames[j].left) : ~Inside(Top.area, frames[j].left[i])
        <5>1. frames[j].left \in Seq(Areas)
          <6>1. frames[j] \in FrameType
            BY <2>6, <4>1
          <6> QED BY <6>1 DEF FrameType
        <5>2. \A i \in 1..Len(frames[j].left) : frames[j].left[i] \in Areas
          BY <5>1
        <5> QED BY <2>3, <4>2, <5>2, InsideApart DEF Below
      <4> QED BY <3>4, <4>1, <4>3, <4>4, <4>5 DEF StoredIn
    <3> QED BY <3>5, <3>6
  <2>8. EntryInv(e, Top.area, frames')
    BY <1>8, <2>7 DEF EntryInv
  <2>9. \A a \in DOMAIN cache' : EntryInv(cache'[a], a, frames')
    BY <1>8, <2>4, <2>8
  <2>10. CacheInv'
    BY <2>9 DEF CacheInv, EntryInv
  <2> QED BY <1>1, <1>8, <2>5, <2>10 DEF RecursionInv, SelectedCompleted
<1> QED BY <1>9, <1>10

(* A part is entered when nothing was stored below it in this split: the     *)
(* invariant is kept.                                                        *)
LEMMA EnterRecursion ==
  ASSUME RecursionInv, frames # Empty, NEW F \in FrameType, NEW h \in Areas, F.left # <<>>, h = Head(F.left),
         Entering(F), UNCHANGED <<cache, rows>>, returned' = NoResult,
         F.area = Top.area, F.path = Top.path, F.trying \in Splits,
         OneTurn(F.modes), KeptCounted(F), SplitInTest(F),
         \A i \in 1..Len(F.modes) :
           F.modes[i] \in Splits => \E k \in 1..Len(Offered(F.area)) : Offered(F.area)[k] = F.modes[i],
         PartsWait(Tail(F.left), F.area), Inside(h, F.area),
         \A i \in 1..Len(Tail(F.left)) : Apart(Tail(F.left)[i], h),
         StartsAt(h, F.area) <=> F.parts = {},
         \A a \in DOMAIN cache :
           StoredBelow(cache[a], a, Top) /\ StoredIn(cache[a], a, Top) =>
             /\ StoredIn(cache[a], a, F)
             /\ ~(Through(cache[a].series, Append(F.path, F.trying)) /\ Inside(a, h))
  PROVE  RecursionInv'
<1> DEFINE f == [F EXCEPT !.left = Tail(@)]
           g == Frame(nextNodeId, F.id, F.trying, h, Append(F.path, F.trying))
<1>1. /\ TypeOK /\ StackInv /\ CacheInv /\ nextNodeId \in Nat
      /\ F.id \in Nat /\ F.path \in Seq(Splits) /\ F.left \in Seq(Areas)
  BY DEF RecursionInv, TypeOK, FrameType
<1>2. frames' = Append(WithTop(f), g) /\ nextNodeId' = nextNodeId + 1
  BY DEF Entering
<1>3. Tail(F.left) \in Seq(Areas) /\ \A i \in 1..Len(Tail(F.left)) : \E j \in 1..Len(F.left) : Tail(F.left)[i] = F.left[j]
  BY <1>1, TailFacts
<1>4. f \in FrameType
  BY <1>3, FrameChanged
<1>5. /\ f.area = F.area /\ f.path = F.path /\ f.trying = F.trying /\ f.left = Tail(F.left)
      /\ f.modes = F.modes /\ f.best = F.best /\ f.completed = F.completed /\ f.parts = F.parts
  BY DEF FrameType
<1>6. /\ g \in FrameType /\ FrameInv(g) /\ g.area = h /\ g.path = Append(F.path, F.trying)
  <2>1. F.id \in Int /\ F.trying \in Splits \cup {"NONE"} /\ Append(F.path, F.trying) \in Seq(Splits)
    BY <1>1
  <2>2. \A i \in Nat, p \in Int, v \in Splits \cup {"NONE"}, s \in Seq(Splits) :
           LET e == Frame(i, p, v, h, s)
           IN e \in FrameType /\ FrameInv(e) /\ e.area = h /\ e.path = s
    BY FrameEntered
  <2> DEFINE r == Append(F.path, F.trying)
  <2>3. nextNodeId \in Nat /\ F.id \in Int /\ F.trying \in Splits \cup {"NONE"} /\ r \in Seq(Splits)
    BY <1>1, <2>1
  <2>4. g = Frame(nextNodeId, F.id, F.trying, h, r)
    OBVIOUS
  <2> HIDE DEF r, g
  <2>5. g \in FrameType /\ FrameInv(g) /\ g.area = h /\ g.path = r
    BY <2>2, <2>3, <2>4
  <2> QED BY <2>5 DEF r
<1> HIDE DEF f, g
<1>7. FrameInv(f)
  <2>1. KeptCounted(f)
    BY <1>5 DEF KeptCounted
  <2>2. SplitInTest(f)
    BY <1>5 DEF SplitInTest
  <2> QED BY <1>5, <2>1, <2>2 DEF FrameInv
<1>8. /\ StackInv' /\ frames' \in Seq(FrameType) /\ Len(frames') = Len(frames) + 1
      /\ \A k \in 1..Len(frames) : frames'[k] = IF k = Len(frames) THEN f ELSE frames[k]
      /\ frames'[Len(frames) + 1] = g
  <2>1. /\ f.area = Top.area /\ f.path = Top.path /\ f.trying \in Splits /\ g.path = Append(f.path, f.trying)
        /\ Inside(g.area, f.area) /\ (StartsAt(g.area, f.area) <=> f.parts = {})
        /\ \A i \in 1..Len(f.left) : Apart(f.left[i], g.area)
    BY <1>5, <1>6
  <2> QED BY <1>1, <1>2, <1>4, <1>6, <1>7, <2>1, Pushed
<1>9. ASSUME NEW a \in DOMAIN cache, StoredBelow(cache[a], a, Top), StoredIn(cache[a], a, Top)
      PROVE  StoredIn(cache[a], a, f) /\ ~StoredBelow(cache[a], a, g)
  <2>1. StoredIn(cache[a], a, F) /\ ~StoredBelow(cache[a], a, g)
    BY <1>6, <1>9 DEF StoredBelow
  <2> QED BY <1>3, <1>5, <2>1 DEF StoredIn
<1>10. CacheInv'
  BY <1>1, <1>4, <1>5, <1>6, <1>8, <1>9, PushedCache
<1>11. TypeOK'
  <2>1. NoResult \subseteq Units
    BY CtuIsArea DEF NoResult, Units
  <2> QED BY <1>1, <1>2, <1>8, <2>1 DEF TypeOK
<1> QED BY <1>8, <1>10, <1>11 DEF RecursionInv, ReturnedInv, SelectedCompleted, NoResult

(* A split that is tested has its turn: nothing was stored in it yet, *)
LEMMA TestRecursion ==
  ASSUME RecursionInv, TestSplit
  PROVE  RecursionInv'
<1>1. PICK s \in Splits :
        /\ Popping(s)
        /\ Entering([Top EXCEPT !.modes = Tail(@), !.trying = s, !.left = SubAreas(Top.area, s), !.parts = {}])
  BY DEF TestSplit
<1> DEFINE q == SubAreas(Top.area, s)
           F == [Top EXCEPT !.modes = Tail(@), !.trying = s, !.left = q, !.parts = {}]
<1>2. /\ Top \in FrameType /\ FrameInv(Top) /\ Top.modes # <<>> /\ Top.modes \in Seq(Splits \cup {"NS", "STORE"})
      /\ frames # Empty /\ Head(Top.modes) = s /\ Top.trying = "NONE" /\ Top.area \in Areas /\ Top.path \in Seq(Splits)
  <2>1. Top \in FrameType /\ FrameInv(Top) /\ Top.modes # <<>> /\ frames # Empty
    BY <1>1, TopFacts DEF StackInv, Popping, Empty, RecursionInv
  <2> QED BY <1>1, <2>1 DEF FrameType, Popping
<1>3. UNCHANGED <<cache, rows>> /\ returned' = NoResult
  BY <1>2, NothingReturned DEF TestSplit
<1>4. /\ Tail(Top.modes) \in Seq(Splits \cup {"NS", "STORE"}) /\ OneTurn(Tail(Top.modes))
      /\ \A i \in 1..Len(Tail(Top.modes)) : /\ Tail(Top.modes)[i] \in Splits /\ Tail(Top.modes)[i] # s
                                           /\ \E j \in 1..Len(Top.modes) : Tail(Top.modes)[i] = Top.modes[j]
      /\ \E j \in 1..Len(Top.modes) : Top.modes[j] = s
  <2>1. s # "NS"
    BY DEF Splits
  <2>2. OneTurn(Top.modes)
    BY <1>2 DEF FrameInv
  <2>3. /\ OneTurn(Tail(Top.modes)) /\ \A i \in 1..Len(Tail(Top.modes)) : Tail(Top.modes)[i] # s
        /\ \A i \in 1..Len(Tail(Top.modes)) : Tail(Top.modes)[i] \in Splits
    BY <1>2, <2>1, <2>2, OneTurnTail
  <2> QED BY <1>2, <2>3, TailFacts
<1>5. PartsFit(q, Top.area)
  <2>1. PICK k \in 1..Len(Offered(Top.area)) : Offered(Top.area)[k] = s
    BY <1>2, <1>4 DEF FrameInv
  <2>2. /\ \A i \in 1..Len(q) : q[i].w > 0 /\ q[i].h > 0
        /\ s = "TRIH" => Top.area.h % 4 = 0
        /\ s = "TRIV" => Top.area.w % 4 = 0
    BY <1>2, <2>1, OfferedAssumption
  <2> QED BY <1>2, <2>2, SplitFits
<1> HIDE DEF q
<1>6. F \in FrameType
  BY <1>2, <1>4, <1>5, FrameChanged DEF PartsFit
<1>7. /\ F.area = Top.area /\ F.path = Top.path /\ F.trying = s /\ F.left = q /\ F.parts = {}
      /\ F.modes = Tail(Top.modes) /\ F.best = Top.best /\ F.completed = Top.completed
  BY <1>2 DEF FrameType
<1>8. Entering(F)
  BY <1>1 DEF q
<1> HIDE DEF F
<1> DEFINE t == Tail(q)
<1>9. /\ q \in Seq(Areas) /\ q # <<>> /\ Head(q) = q[1] /\ 1 \in 1..Len(q) /\ Head(q) \in Areas
      /\ \A i \in 1..Len(t) : t[i] = q[i + 1] /\ i + 1 \in 1..Len(q) /\ i + 1 # 1 /\ i \in Nat
  BY <1>5, TailFacts DEF PartsFit
<1> HIDE DEF t
<1>10. PartsWait(t, Top.area) /\ \A i \in 1..Len(t) : Apart(t[i], Head(q))
  <2>1. \A i \in 1..Len(t) : Inside(t[i], Top.area) /\ ~StartsAt(t[i], Top.area) /\ Apart(t[i], Head(q))
    BY <1>5, <1>9 DEF PartsFit
  <2>2. ASSUME NEW i \in 1..Len(t), NEW j \in 1..Len(t), i # j PROVE Apart(t[i], t[j])
    <3>1. t[i] = q[i + 1] /\ t[j] = q[j + 1] /\ i + 1 \in 1..Len(q) /\ j + 1 \in 1..Len(q) /\ i + 1 # j + 1
      BY <1>9, <2>2
    <3> QED BY <1>5, <3>1 DEF PartsFit
  <2> QED BY <2>1, <2>2 DEF PartsWait
<1>11. Inside(Head(q), Top.area) /\ StartsAt(Head(q), Top.area)
  BY <1>5, <1>9 DEF PartsFit
<1>12. KeptCounted(F)
  <2>1. ~\E i \in 1..Len(F.modes) : F.modes[i] = "STORE"
    BY <1>4, <1>7 DEF Splits
  <2> QED BY <1>2, <1>7, <2>1 DEF FrameInv, KeptCounted
<1>13. SplitInTest(F)
  BY <1>4, <1>7 DEF SplitInTest
<1>14. \A i \in 1..Len(F.modes) :
         F.modes[i] \in Splits => \E k \in 1..Len(Offered(F.area)) : Offered(F.area)[k] = F.modes[i]
  BY <1>2, <1>4, <1>7 DEF FrameInv
<1>15. ASSUME NEW a \in DOMAIN cache, StoredIn(cache[a], a, Top)
       PROVE  StoredIn(cache[a], a, F) /\ ~Through(cache[a].series, Append(F.path, s))
  <2>1. cache[a].series \in Seq(Splits) /\ Top.path \in Seq(Splits)
    BY <1>2 DEF RecursionInv, TypeOK
  <2>2. Len(Top.path) < Len(cache[a].series) => cache[a].series[Len(Top.path) + 1] # s
    BY <1>4, <1>15 DEF StoredIn
  <2>3. StoredIn(cache[a], a, F)
    BY <1>4, <1>7, <1>15, <2>2 DEF StoredIn
  <2>4. ~Through(cache[a].series, Append(F.path, s))
    BY <1>7, <2>1, <2>2 DEF Through
  <2> QED BY <2>3, <2>4
<1> QED
  <2>1. OneTurn(F.modes) /\ PartsWait(Tail(F.left), F.area) /\ Inside(Head(q), F.area) /\ F.left # <<>>
        /\ Head(q) = Head(F.left) /\ F.trying \in Splits /\ (StartsAt(Head(q), F.area) <=> F.parts = {})
        /\ \A i \in 1..Len(Tail(F.left)) : Apart(Tail(F.left)[i], Head(q))
    BY <1>4, <1>7, <1>9, <1>10, <1>11 DEF t
  <2>2. \A a \in DOMAIN cache :
          StoredBelow(cache[a], a, Top) /\ StoredIn(cache[a], a, Top) =>
            /\ StoredIn(cache[a], a, F)
            /\ ~(Through(cache[a].series, Append(F.path, F.trying)) /\ Inside(a, Head(q)))
    BY <1>7, <1>15
  <2> QED BY <1>2, <1>3, <1>6, <1>7, <1>8, <1>9, <1>12, <1>13, <1>14, <2>1, <2>2, EnterRecursion

(* and the next part has nothing stored in it either. *)
LEMMA NextPartRecursion ==
  ASSUME RecursionInv, NextPart
  PROVE  RecursionInv'
<1> DEFINE F == [Top EXCEPT !.parts = @ \cup returned]
<1>1. /\ frames # Empty /\ returned # NoResult /\ returned # {} /\ Top.left # <<>> /\ Entering(F)
      /\ returned' = NoResult /\ UNCHANGED <<cache, rows>> /\ returned \subseteq Units
  BY DEF NextPart, Resumes, Empty, RecursionInv, TypeOK
<1>2. /\ Top \in FrameType /\ FrameInv(Top) /\ Top.left \in Seq(Areas) /\ Top.area \in Areas
      /\ Top.path \in Seq(Splits) /\ Top.parts \in SUBSET Units
  <2>1. Top \in FrameType /\ FrameInv(Top)
    BY <1>1, TopFacts DEF StackInv, RecursionInv
  <2> QED BY <2>1 DEF FrameType
<1>3. /\ Top.trying \in Splits /\ \A cu \in returned : ThroughSplit(cu.series, Top.path, Top.trying)
      /\ Top.parts = {} => \E cu \in returned : StartsAt(cu.area, Top.area)
  BY <1>1 DEF RecursionInv, ReturnedInv
<1>4. F \in FrameType
  BY <1>1, <1>2, FrameChanged
<1>5. /\ F.area = Top.area /\ F.path = Top.path /\ F.trying = Top.trying /\ F.left = Top.left
      /\ F.parts = Top.parts \cup returned
      /\ F.modes = Top.modes /\ F.best = Top.best /\ F.completed = Top.completed
  BY <1>2 DEF FrameType
<1> HIDE DEF F
<1> DEFINE h == Head(Top.left)
<1>6. /\ PartsWait(Tail(Top.left), Top.area) /\ Inside(h, Top.area) /\ ~StartsAt(h, Top.area) /\ h \in Areas
      /\ \A i \in 1..Len(Tail(Top.left)) : Apart(Tail(Top.left)[i], h)
  BY <1>1, <1>2, PartsWaitTail DEF FrameInv
<1>7. h = Top.left[1] /\ 1 \in 1..Len(Top.left)
  BY <1>1, <1>2, TailFacts
<1> HIDE DEF h
<1>8. KeptCounted(F)
  BY <1>2, <1>5 DEF FrameInv, KeptCounted
<1>9. SplitInTest(F)
  <2>1. SplitInTest(Top)
    BY <1>2, <1>3 DEF FrameInv, Splits
  <2> QED BY <1>3, <1>5, <2>1 DEF SplitInTest
<1>10. /\ OneTurn(F.modes)
       /\ \A i \in 1..Len(F.modes) :
            F.modes[i] \in Splits => \E k \in 1..Len(Offered(F.area)) : Offered(F.area)[k] = F.modes[i]
  BY <1>2, <1>5 DEF FrameInv
<1>11. ASSUME NEW a \in DOMAIN cache, StoredIn(cache[a], a, Top)
       PROVE  /\ StoredIn(cache[a], a, F)
              /\ ~(Through(cache[a].series, Append(F.path, F.trying)) /\ Inside(a, h))
  <2>1. StoredIn(cache[a], a, F)
    BY <1>5, <1>11 DEF StoredIn
  <2>2. cache[a].series \in Seq(Splits)
    BY DEF RecursionInv, TypeOK
  <2>3. ASSUME Through(cache[a].series, Append(F.path, F.trying))
        PROVE  Len(Top.path) < Len(cache[a].series) /\ cache[a].series[Len(Top.path) + 1] = Top.trying
    <3> DEFINE p == Append(Top.path, Top.trying)
    <3>1. Len(p) = Len(Top.path) + 1 /\ p[Len(Top.path) + 1] = Top.trying /\ Len(Top.path) \in Nat
      BY <1>2
    <3>2. Through(cache[a].series, p)
      BY <1>5, <2>3
    <3> HIDE DEF p
    <3>3. Len(Top.path) + 1 \in 1..Len(p) /\ Len(cache[a].series) \in Nat
      BY <2>2, <3>1
    <3> QED BY <3>1, <3>2, <3>3 DEF Through
  <2> QED BY <1>7, <1>11, <2>1, <2>3 DEF StoredIn
<1> QED
  <2>1. PartsWait(Tail(F.left), F.area) /\ Inside(h, F.area) /\ F.left # <<>>
        /\ h = Head(F.left) /\ F.trying \in Splits /\ (StartsAt(h, F.area) <=> F.parts = {})
        /\ \A i \in 1..Len(Tail(F.left)) : Apart(Tail(F.left)[i], h)
    BY <1>1, <1>3, <1>5, <1>6 DEF h
  <2>2. \A a \in DOMAIN cache :
          StoredBelow(cache[a], a, Top) /\ StoredIn(cache[a], a, Top) =>
            /\ StoredIn(cache[a], a, F)
            /\ ~(Through(cache[a].series, Append(F.path, F.trying)) /\ Inside(a, h))
    BY <1>11
  <2> QED BY <1>1, <1>4, <1>5, <1>6, <1>8, <1>9, <1>10, <2>1, <2>2, EnterRecursion

(* A split whose test is broken off leaves what was kept, *)
LEMMA AbortRecursion ==
  ASSUME RecursionInv, AbortSplit
  PROVE  RecursionInv'
<1> DEFINE f == [Top EXCEPT !.trying = "NONE", !.left = Empty, !.parts = {}]
<1>1. /\ frames # Empty /\ frames' = WithTop(f) /\ returned' = NoResult /\ UNCHANGED <<cache, nextNodeId, rows>>
      /\ TypeOK /\ StackInv /\ CacheInv
  BY DEF AbortSplit, Resumes, RecursionInv
<1>2. Top \in FrameType /\ FrameInv(Top)
  BY <1>1, TopFacts DEF StackInv
<1>3. f \in FrameType
  BY <1>2, FrameChanged
<1>4. /\ f.area = Top.area /\ f.path = Top.path /\ f.trying = "NONE" /\ f.left = <<>> /\ f.parts = {}
      /\ f.modes = Top.modes /\ f.best = Top.best /\ f.completed = Top.completed
  BY <1>2 DEF FrameType, Empty
<1> HIDE DEF f
<1>5. FrameInv(f)
  <2>1. KeptCounted(f)
    BY <1>2, <1>4 DEF FrameInv, KeptCounted
  <2>2. PartsWait(f.left, f.area)
    BY <1>4 DEF PartsWait
  <2> QED BY <1>2, <1>4, <2>1, <2>2 DEF FrameInv
<1>6. /\ StackInv' /\ frames' \in Seq(FrameType) /\ Len(frames') = Len(frames)
      /\ \A k \in 1..Len(frames) : frames'[k] = IF k = Len(frames) THEN f ELSE frames[k]
  BY <1>1, <1>3, <1>4, <1>5, Replaced
<1>7. \A a \in DOMAIN cache : StoredIn(cache[a], a, Top) => StoredIn(cache[a], a, f)
  BY <1>4 DEF StoredIn
<1>8. CacheInv'
  BY <1>1, <1>4, <1>6, <1>7, ReplacedCache
<1>9. NoResult \subseteq Units
  BY CtuIsArea DEF NoResult, Units
<1> QED BY <1>1, <1>6, <1>8, <1>9 DEF RecursionInv, TypeOK, ReturnedInv, SelectedCompleted

(* and one whose parts are all coded is counted, kept or not. *)
LEMMA CompleteRecursion ==
  ASSUME RecursionInv, CompleteSplit
  PROVE  RecursionInv'
<1>1. PICK better \in BOOLEAN :
        /\ Top.best = {} => better
        /\ frames' = WithTop([Top EXCEPT !.trying = "NONE", !.parts = {}, !.completed = @ \cup {Top.trying},
                                         !.best = IF better THEN Top.parts \cup returned ELSE @])
  BY DEF CompleteSplit
<1> DEFINE best == IF better THEN Top.parts \cup returned ELSE Top.best
           f == [Top EXCEPT !.trying = "NONE", !.parts = {}, !.completed = Top.completed \cup {Top.trying},
                            !.best = best]
<1>2. /\ frames # Empty /\ returned # NoResult /\ returned # {} /\ Top.left = <<>> /\ returned \subseteq Units
      /\ returned' = NoResult /\ UNCHANGED <<cache, nextNodeId, rows>>
      /\ TypeOK /\ StackInv /\ CacheInv
  BY DEF CompleteSplit, Resumes, Empty, RecursionInv, TypeOK
<1>3. /\ Top \in FrameType /\ FrameInv(Top) /\ Top.path \in Seq(Splits) /\ Top.area \in Areas
      /\ Top.parts \in SUBSET Units /\ Top.best \in SUBSET Units /\ Top.completed \in SUBSET (Splits \cup {"NS"})
  <2>1. Top \in FrameType /\ FrameInv(Top)
    BY <1>2, TopFacts DEF StackInv
  <2> QED BY <2>1 DEF FrameType
<1>4. /\ Top.trying \in Splits /\ \A cu \in returned : ThroughSplit(cu.series, Top.path, Top.trying)
      /\ Top.parts = {} => \E cu \in returned : StartsAt(cu.area, Top.area)
  BY <1>2 DEF RecursionInv, ReturnedInv
<1>5. SplitInTest(Top)
  BY <1>3, <1>4 DEF FrameInv, Splits
<1>6. best \in SUBSET Units /\ best # {}
  BY <1>1, <1>2, <1>3
<1>7. f \in FrameType
  <2>1. Top.completed \cup {Top.trying} \in SUBSET (Splits \cup {"NS"})
    BY <1>3, <1>4
  <2> HIDE DEF best
  <2> QED BY <1>3, <1>6, <2>1, FrameChanged
<1>8. frames' = WithTop(f)
  BY <1>1
<1>9. /\ f.area = Top.area /\ f.path = Top.path /\ f.trying = "NONE" /\ f.left = <<>> /\ f.parts = {}
      /\ f.modes = Top.modes /\ f.best = best /\ f.completed = Top.completed \cup {Top.trying}
  BY <1>2, <1>3 DEF FrameType
<1> HIDE DEF f
<1>10. KeptCounted(f)
  <2>1. ~\E i \in 1..Len(f.modes) : f.modes[i] = "STORE"
    BY <1>5, <1>9 DEF SplitInTest, Splits
  <2>2. CASE better
    <3>1. \A cu \in best : ThroughSplit(cu.series, f.path, Top.trying)
      BY <1>4, <1>5, <1>9, <2>2 DEF SplitInTest
    <3>2. \E cu \in best : StartsAt(cu.area, f.area)
      BY <1>4, <1>5, <1>9, <2>2 DEF SplitInTest
    <3>3. ASSUME NEW cu \in best
          PROVE  /\ Through(cu.series, f.path) /\ Len(cu.series) # Len(f.path)
                 /\ cu.series[Len(f.path) + 1] \in f.completed
      <4>1. cu.series \in Seq(Splits) /\ f.path \in Seq(Splits)
        BY <1>3, <1>6, <1>9 DEF Units
      <4> QED BY <1>9, <3>1, <4>1 DEF ThroughSplit
    <3> HIDE DEF best
    <3> QED BY <1>6, <1>9, <2>1, <3>2, <3>3 DEF KeptCounted
  <2>3. CASE ~better
    <3>1. best = Top.best /\ Top.best # {} /\ KeptCounted(Top)
      BY <1>1, <1>3, <2>3 DEF FrameInv
    <3> HIDE DEF best
    <3> QED BY <1>9, <2>1, <3>1 DEF KeptCounted
  <2> QED BY <2>2, <2>3
<1>11. FrameInv(f)
  <2>1. PartsWait(f.left, f.area)
    BY <1>9 DEF PartsWait
  <2> QED BY <1>3, <1>9, <1>10, <2>1 DEF FrameInv
<1>12. /\ StackInv' /\ frames' \in Seq(FrameType) /\ Len(frames') = Len(frames)
       /\ \A k \in 1..Len(frames) : frames'[k] = IF k = Len(frames) THEN f ELSE frames[k]
  BY <1>2, <1>7, <1>8, <1>9, <1>11, Replaced
<1>13. \A a \in DOMAIN cache : StoredIn(cache[a], a, Top) => StoredIn(cache[a], a, f)
  BY <1>9 DEF StoredIn
<1>14. CacheInv'
  BY <1>2, <1>9, <1>12, <1>13, ReplacedCache
<1>15. NoResult \subseteq Units
  BY CtuIsArea DEF NoResult, Units
<1> QED BY <1>2, <1>12, <1>14, <1>15 DEF RecursionInv, TypeOK, ReturnedInv, SelectedCompleted

(* The row of a unit counts the mode it selects. *)
LEMMA RowCounts ==
  ASSUME NEW f \in FrameType, KeptCounted(f)
  PROVE  /\ Row(f) \in RowType
         /\ IF Row(f).selected = "NONE" THEN Row(f).completed = {} ELSE Row(f).selected \in Row(f).completed
<1> DEFINE sel == Selected(f.best, f.area, Len(f.path))
<1>1. /\ f.id \in Nat /\ f.parent \in Int /\ f.via \in Splits \cup {"NONE"} /\ f.area \in Areas
      /\ f.completed \in SUBSET (Splits \cup {"NS"}) /\ f.path \in Seq(Splits) /\ f.best \in SUBSET Units
  BY DEF FrameType
<1>2. ASSUME f.best = {} PROVE sel = "NONE" /\ f.completed = {}
  BY <1>2 DEF Selected, KeptCounted
<1>3. ASSUME f.best # {} PROVE sel \in f.completed /\ sel # "NONE"
  <2> DEFINE cu == CHOOSE c \in f.best : StartsAt(c.area, f.area)
  <2>1. cu \in f.best
    BY <1>3 DEF KeptCounted
  <2>2. sel = IF Len(cu.series) > Len(f.path) THEN cu.series[Len(f.path) + 1] ELSE "NS"
    BY <1>3 DEF Selected
  <2> HIDE DEF cu, sel
  <2>3. cu.series \in Seq(Splits) /\ Len(cu.series) \in Nat /\ Len(f.path) \in Nat
    BY <1>1, <2>1 DEF Units
  <2>4. Through(cu.series, f.path) /\ Len(cu.series) >= Len(f.path)
    BY <2>1 DEF KeptCounted, Through
  <2>5. sel \in f.completed
    BY <2>1, <2>2, <2>3, <2>4 DEF KeptCounted
  <2>6. sel # "NONE"
    BY <1>1, <2>5 DEF Splits
  <2> QED BY <2>5, <2>6
<1>4. sel \in Splits \cup {"NS", "NONE"} /\ IF sel = "NONE" THEN f.completed = {} ELSE sel \in f.completed
  <2> HIDE DEF sel
  <2> QED BY <1>1, <1>2, <1>3
<1> HIDE DEF sel
<1>5. Row(f) = [id |-> f.id, parent |-> f.parent, via |-> f.via, area |-> f.area, completed |-> f.completed,
                selected |-> sel]
  BY DEF Row, sel
<1> QED BY <1>1, <1>4, <1>5 DEF RowType

(* A unit that returns hands its coding to the split it is a part of. *)
LEMMA ReturnRecursion ==
  ASSUME RecursionInv, Return
  PROVE  RecursionInv'
<1> DEFINE n == Len(frames)
<1>1. /\ frames # Empty /\ frames' = Front(frames) /\ rows' = Append(rows, Row(Top))
      /\ UNCHANGED <<cache, nextNodeId>> /\ returned = NoResult
      /\ n = 1 => returned' = returned
      /\ n # 1 => returned' = Top.best
      /\ TypeOK /\ StackInv /\ CacheInv
  BY NothingReturned DEF Return, RecursionInv
<1>2. /\ Top \in FrameType /\ FrameInv(Top) /\ Top = frames[n] /\ n \in Nat /\ n > 0 /\ n \in 1..n
      /\ Top.area \in Areas /\ Top.best \in SUBSET Units /\ Top.path \in Seq(Splits)
  <2>1. Top \in FrameType /\ FrameInv(Top) /\ Top = frames[n] /\ n \in Nat /\ n > 0 /\ n \in 1..n
    BY <1>1, TopFacts DEF StackInv
  <2> QED BY <2>1 DEF FrameType
<1>3. /\ StackInv' /\ CacheInv' /\ frames' \in Seq(FrameType)
      /\ n # 1 => frames' # Empty /\ Top' = frames[n - 1]
  BY <1>1, Popped
<1> HIDE DEF n
<1>4. rows' \in Seq(RowType) /\ SelectedCompleted'
  <2> DEFINE row == Row(Top)
  <2>1. row \in RowType /\ IF row.selected = "NONE" THEN row.completed = {} ELSE row.selected \in row.completed
    BY <1>2, RowCounts DEF FrameInv
  <2> HIDE DEF row
  <2>2. rows \in Seq(RowType) /\ rows' = Append(rows, row) /\ SelectedCompleted
    BY <1>1 DEF TypeOK, RecursionInv, row
  <2>3. /\ rows' \in Seq(RowType) /\ DOMAIN rows' = 1..(Len(rows) + 1) /\ DOMAIN rows = 1..Len(rows)
        /\ rows'[Len(rows) + 1] = row /\ \A i \in 1..Len(rows) : rows'[i] = rows[i]
        /\ Len(rows) \in Nat
    BY <2>1, <2>2
  <2>4. \A i \in 1..(Len(rows) + 1) : i \in 1..Len(rows) \/ i = Len(rows) + 1
    BY <2>3
  <2>5. ASSUME NEW i \in DOMAIN rows'
        PROVE  IF rows'[i].selected = "NONE" THEN rows'[i].completed = {} ELSE rows'[i].selected \in rows'[i].completed
    <3>1. CASE i = Len(rows) + 1
      BY <2>1, <2>3, <3>1
    <3>2. CASE i \in 1..Len(rows)
      BY <2>2, <2>3, <3>2 DEF SelectedCompleted
    <3> QED BY <2>3, <2>4, <3>1, <3>2
  <2> QED BY <2>3, <2>5 DEF SelectedCompleted
<1>5. ReturnedInv' /\ returned' \subseteq Units
  <2>1. CASE n = 1
    <3>1. returned' = NoResult /\ NoResult \subseteq Units
      BY <1>1, <2>1, CtuIsArea DEF NoResult, Units
    <3> QED BY <3>1 DEF ReturnedInv, NoResult
  <2>2. CASE n # 1
    <3> DEFINE p == frames[n - 1]
    <3>1. /\ n - 1 \in 1..Len(frames) /\ n \in 1..Len(frames) /\ n - 1 < n /\ n - 1 \in 1..(Len(frames) - 1)
          /\ (n - 1) + 1 = n
      <4>1. n - 1 \in 1..n /\ n - 1 \in 1..(n - 1) /\ n - 1 < n /\ (n - 1) + 1 = n
        BY <1>2, <2>2
      <4> QED BY <1>2, <4>1 DEF n
    <3>2. Below(p, Top) /\ (p.parts = {} => StartsAt(Top.area, p.area))
      BY <1>1, <1>2, <3>1 DEF StackInv
    <3>3. p.area \in Areas /\ p.path \in Seq(Splits)
      <4>1. p \in FrameType
        BY <1>1, <3>1 DEF TypeOK
      <4> QED BY <4>1 DEF FrameType
    <3>4. returned' = Top.best /\ frames' # Empty /\ Top' = p
      BY <1>1, <1>3, <2>2
    <3> HIDE DEF p
    <3>5. ASSUME NEW cu \in Top.best PROVE ThroughSplit(cu.series, p.path, p.trying)
      <4>1. Through(cu.series, Top.path) /\ cu.series \in Seq(Splits)
        BY <1>2, <3>5 DEF FrameInv, KeptCounted, Units
      <4>2. ThroughSplit(Top.path, p.path, p.trying)
        BY <3>2 DEF Below
      <4>3. /\ Len(p.path) \in Nat /\ Len(Top.path) \in Nat /\ Len(cu.series) \in Nat
            /\ \A i \in 1..Len(p.path) : Top.path[i] = p.path[i]
            /\ Len(p.path) < Len(Top.path) /\ Top.path[Len(p.path) + 1] = p.trying
            /\ Len(Top.path) <= Len(cu.series) /\ \A i \in 1..Len(Top.path) : cu.series[i] = Top.path[i]
        BY <1>2, <3>3, <4>1, <4>2 DEF Through, ThroughSplit
      <4>4. Len(p.path) + 1 \in 1..Len(Top.path) /\ \A i \in 1..Len(p.path) : i \in 1..Len(Top.path)
        BY <4>3
      <4> QED BY <4>3, <4>4 DEF Through, ThroughSplit
    <3>6. ASSUME Top.best # {}, p.parts = {} PROVE \E cu \in Top.best : StartsAt(cu.area, p.area)
      <4>1. PICK cu \in Top.best : StartsAt(cu.area, Top.area)
        BY <1>2, <3>6 DEF FrameInv, KeptCounted
      <4> QED BY <3>2, <3>6, <4>1 DEF StartsAt
    <3> QED BY <1>2, <3>2, <3>4, <3>5, <3>6 DEF ReturnedInv, Below
  <2> QED BY <2>1, <2>2
<1>6. TypeOK'
  BY <1>1, <1>3, <1>4, <1>5 DEF TypeOK
<1> QED BY <1>3, <1>4, <1>5, <1>6 DEF RecursionInv

-----------------------------------------------------------------------------
(* What the search promises *)

(* Every step of the search keeps the invariant, *)
LEMMA NextRecursion ==
  ASSUME RecursionInv, [Next]_vars
  PROVE  RecursionInv'
<1>1. CASE UNCHANGED vars
  <2>1. frames' = frames /\ returned' = returned /\ cache' = cache /\ nextNodeId' = nextNodeId /\ rows' = rows
    BY <1>1 DEF vars
  <2>2. TypeOK' /\ SelectedCompleted'
    BY <2>1 DEF RecursionInv, TypeOK, SelectedCompleted
  <2>3. StackInv' /\ CacheInv'
    BY <2>1 DEF RecursionInv, StackInv, CacheInv
  <2>4. ReturnedInv'
    BY <2>1 DEF RecursionInv, ReturnedInv, Top
  <2> QED BY <2>2, <2>3, <2>4 DEF RecursionInv
<1>2. CASE Next
  BY <1>2, UnsplitRecursion, RefusedRecursion, StoreRecursion, TestRecursion, NextPartRecursion, AbortRecursion,
     CompleteRecursion, ReturnRecursion DEF Next
<1> QED BY <1>1, <1>2

(* so that it always holds. *)
THEOREM RecursionInvariance == Spec => []RecursionInv
<1>1. RecursionInv /\ [Next]_vars => RecursionInv'
  BY NextRecursion
<1> QED BY InitRecursion, <1>1, PTL DEF Spec

(* A coding is reused only where everything coded before the unit is what it *)
(* was when the coding was found: the area that both ways to the unit have   *)
(* in common starts where the unit does, so nothing was coded in between.    *)
LEMMA SoundWhenReused == RecursionInv => ReuseSound
<1> SUFFICES ASSUME RecursionInv, Popping("NS"), Reusing PROVE cache[Top.area].before = CodedBefore
  BY DEF ReuseSound
<1> DEFINE entry == cache[Top.area]
           c == SharedSplits(Top.path, entry.series)
           n == Len(frames)
<1>1. /\ TypeOK /\ StackInv /\ CacheInv /\ frames # Empty
      /\ Top \in FrameType /\ Top.path \in Seq(Splits) /\ Top.area \in Areas /\ n \in Nat /\ n > 0
      /\ n \in 1..n /\ Top = frames[n] /\ Len(Top.path) = n - 1
  <2>1. TypeOK /\ StackInv /\ CacheInv /\ frames # Empty
    BY DEF RecursionInv, Popping
  <2>2. Top \in FrameType /\ n \in Nat /\ n > 0 /\ n \in 1..n /\ Top = frames[n]
    BY <2>1, TopFacts
  <2> QED BY <2>1, <2>2 DEF FrameType, StackInv
<1>2. Top.area \in DOMAIN cache /\ StartsAt(Top.area, frames[c + 1].area)
  BY DEF Reusing, IsValid, SameNbHood, Top
<1>3. entry.series \in Seq(Splits)
  BY <1>1, <1>2 DEF TypeOK
<1> DEFINE path == Top.path
           series == entry.series
<1>4. c \in 0..Len(Top.path) /\ c <= Len(entry.series) /\ \A i \in 1..c : Top.path[i] = entry.series[i]
  <2>1. path \in Seq(Splits) /\ series \in Seq(Splits) /\ c = SharedSplits(path, series)
    BY <1>1, <1>3
  <2> HIDE DEF path, series, c
  <2>2. c \in 0..Len(path) /\ c <= Len(series) /\ \A i \in 1..c : path[i] = series[i]
    BY <2>1, SharedFacts
  <2> QED BY <2>2 DEF path, series
<1> HIDE DEF c, entry, path, series
<1> DEFINE f == frames[c + 1]
<1>5. c + 1 \in 1..n /\ c \in Nat /\ Len(f.path) = c /\ f.area \in Areas /\ f.path \in Seq(Splits)
  <2>1. c + 1 \in 1..Len(frames)
    BY <1>1, <1>4
  <2>2. f \in FrameType /\ Len(f.path) = (c + 1) - 1
    BY <1>1, <2>1 DEF TypeOK, StackInv
  <2> QED BY <1>1, <1>4, <2>1, <2>2 DEF FrameType
<1>6. Inside(Top.area, f.area) /\ \A i \in 1..c : f.path[i] = Top.path[i]
  <2>1. CASE c + 1 = n
    <3>1. f = Top
      BY <1>1, <2>1
    <3> HIDE DEF f
    <3> QED BY <1>1, <3>1, InsideApart
  <2>2. CASE c + 1 # n
    <3>1. Below(f, Top)
      <4>1. c + 1 < n /\ c + 1 \in 1..Len(frames) /\ n \in 1..Len(frames)
        BY <1>1, <1>5, <2>2
      <4> QED BY <1>1, <4>1 DEF StackInv
    <3> HIDE DEF f
    <3> QED BY <1>5, <3>1 DEF Below, ThroughSplit, Through
  <2> QED BY <2>1, <2>2
<1>7. Through(entry.series, f.path)
  BY <1>4, <1>5, <1>6 DEF Through
<1>8. entry.before = Before(frames, c + 1)
  <2>1. StoredBelow(entry, Top.area, f)
    BY <1>6, <1>7 DEF StoredBelow
  <2> QED BY <1>1, <1>2, <1>5, <2>1 DEF CacheInv, entry, n
<1>9. Before(frames, c + 1) = CodedBefore
  BY <1>1, <1>2, <1>5, NothingBetween DEF n
<1> QED BY <1>8, <1>9 DEF entry

(* Whatever is searched, and however often a unit is reached, what is reused *)
(* was found after the same codings.                                         *)
THEOREM ReuseIsSound == Spec => []ReuseSound
BY RecursionInvariance, SoundWhenReused, PTL

(* Every row of the cost file counts the mode it selects as completed.       *)
THEOREM SelectedIsCompleted == Spec => []SelectedCompleted
<1>1. RecursionInv => SelectedCompleted
  BY DEF RecursionInv
<1> QED BY RecursionInvariance, <1>1, PTL
-----------------------------------------------------------------------------
(* The table of tested modes *)

(* The rows of a table, those of the parts of a unit in a split of it, and  *)
(* what a split of an area covers. A names the areas of the coded units     *)
(* below each unit, which the table itself does not keep.                   *)
RowSet(rs) == {rs[i] : i \in 1..Len(rs)}
Kids(rs, id, s) == {q \in RowSet(rs) : q.parent = id /\ q.via = s}
AreasOf(units) == {cu.area : cu \in units}
Parts(area, s) == ToSet(SubAreas(area, s))
Cover(A, kids) == UNION {A[q.id] : q \in kids}
IsOffered(area, s) == s \in Splits /\ \E k \in 1..Len(Offered(area)) : Offered(area)[k] = s

(* All parts of a split have one row each that selects a mode, except the   *)
(* rest, and the coded units of these rows cover what is said.              *)
Partly(rs, A, id, area, s, rest, cover) ==
  LET kids == Kids(rs, id, s)
  IN /\ IsOffered(area, s)
     /\ AreasOf(kids) \cup rest = Parts(area, s)
     /\ \A q \in kids : q.area \notin rest /\ q.selected # "NONE"
     /\ \A q, r \in kids : q.area = r.area => q = r
     /\ cover = Cover(A, kids)

(* What the table says of a row: its unit is one of the coded units, or the *)
(* rows of the selected split say which they are;                           *)
RowFound(rs, A, q) ==
  /\ q.selected = "NS" => A[q.id] = {q.area}
  /\ q.selected \in Splits => Partly(rs, A, q.id, q.area, q.selected, {}, A[q.id])

(* of a unit that is still searched: what is kept is the unit itself, or    *)
(* found in the rows of a split that was tested,                            *)
BestUnsplit(f) == AreasOf(f.best) = {f.area} /\ \A cu \in f.best : cu.series = f.path
BestSplit(rs, A, f, s) ==
  /\ s \in Splits /\ s # f.trying /\ \A i \in 1..Len(f.modes) : f.modes[i] # s
  /\ \A cu \in f.best : ThroughSplit(cu.series, f.path, s)
  /\ Partly(rs, A, f.id, f.area, s, {}, AreasOf(f.best))
FrameFound(rs, A, f) ==
  /\ f.best # {} => BestUnsplit(f) \/ \E s \in Splits : BestSplit(rs, A, f, s)
  /\ \A i \in 1..Len(f.modes) : Kids(rs, f.id, f.modes[i]) = {}

(* and of the split in test, while a part is searched and when it returns.  *)
InTest(rs, A, f, area) == Partly(rs, A, f.id, f.area, f.trying, {area} \cup ToSet(f.left), AreasOf(f.parts))
ResultFound(rs, A, f, result) ==
  Partly(rs, A, f.id, f.area, f.trying, ToSet(f.left), AreasOf(f.parts \cup result))

(* No two units have the same name, a parent has its row behind its parts,  *)
(* and only the CTU has no parent.                                          *)
IdsOK(rs, stack, n) ==
  /\ \A i \in 1..Len(rs) : rs[i].id < n /\ rs[i].parent < n /\ (rs[i].parent # -1 => rs[i].via \in Splits)
  /\ \A i, j \in 1..Len(rs) : /\ rs[i].id = rs[j].id => i = j
                              /\ rs[i].parent = rs[j].id => i < j
  /\ \A k \in 1..Len(stack) :
       /\ stack[k].id < n /\ \A i \in 1..Len(rs) : rs[i].id # stack[k].id
       /\ \A j \in 1..Len(stack) : stack[j].id = stack[k].id => j = k
       /\ IF k = 1 THEN stack[k].parent = -1
          ELSE stack[k].parent = stack[k - 1].id /\ stack[k].via = stack[k - 1].trying
  /\ stack # Empty => \A i \in 1..Len(rs) : rs[i].parent # -1

CodedFound(rs, A, stack, units) ==
  units # NoResult =>
    /\ stack = Empty /\ rs # Empty
    /\ \A i \in 1..Len(rs) : rs[i].parent = -1 <=> i = Len(rs)
    /\ rs[Len(rs)].selected # "NONE" /\ A[rs[Len(rs)].id] = AreasOf(units)

Table(A, rs, stack, n, result, units) ==
  /\ IdsOK(rs, stack, n) /\ CodedFound(rs, A, stack, units)
  /\ \A i \in 1..Len(rs) : RowFound(rs, A, rs[i])
  /\ \A k \in 1..Len(stack) : FrameFound(rs, A, stack[k])
  /\ \A k \in 1..(Len(stack) - 1) : InTest(rs, A, stack[k], stack[k + 1].area)
  /\ result # NoResult /\ result # {} => ResultFound(rs, A, stack[Len(stack)], result)

TableInv == \E A \in [Nat -> SUBSET Areas] : Table(A, rows, frames, nextNodeId, returned, coded)

(* A row that is added is a part of its parent only.                        *)
Added(rs, r, rs2) ==
  /\ rs2 \in Seq(RowType) /\ Len(rs2) = Len(rs) + 1 /\ Len(rs) \in Nat
  /\ rs2[Len(rs) + 1] = r /\ \A i \in 1..Len(rs) : rs2[i] = rs[i]
  /\ RowSet(rs2) = RowSet(rs) \cup {r}
  /\ \A id, s : r.parent # id \/ r.via # s => Kids(rs2, id, s) = Kids(rs, id, s)
  /\ Kids(rs2, r.parent, r.via) = Kids(rs, r.parent, r.via) \cup {r}

(* What Added says holds of a row that is appended.                         *)
LEMMA RowAdded ==
  ASSUME NEW rs \in Seq(RowType), NEW r \in RowType, NEW rs2, rs2 = Append(rs, r)
  PROVE  Added(rs, r, rs2)
<1>1. /\ rs2 \in Seq(RowType) /\ Len(rs2) = Len(rs) + 1 /\ Len(rs) \in Nat
      /\ rs2[Len(rs) + 1] = r /\ \A i \in 1..Len(rs) : rs2[i] = rs[i]
  OBVIOUS
<1>2. \A i \in 1..Len(rs2) : i = Len(rs) + 1 \/ i \in 1..Len(rs)
  BY <1>1
<1>3. \A i \in 1..Len(rs) : i \in 1..Len(rs2)
  BY <1>1
<1>3b. Len(rs) + 1 \in 1..Len(rs2)
  BY <1>1
<1>4. RowSet(rs2) = RowSet(rs) \cup {r}
  <2>1. ASSUME NEW i \in 1..Len(rs2) PROVE rs2[i] \in RowSet(rs) \cup {r}
    BY <1>1, <1>2 DEF RowSet
  <2>2. ASSUME NEW i \in 1..Len(rs) PROVE rs[i] \in RowSet(rs2)
    <3>1. rs2[i] = rs[i] /\ i \in 1..Len(rs2)
      BY <1>1, <1>3
    <3> QED BY <3>1 DEF RowSet
  <2>3. r \in RowSet(rs2)
    BY <1>1, <1>3b DEF RowSet
  <2>4. RowSet(rs2) \subseteq RowSet(rs) \cup {r}
    BY <2>1 DEF RowSet
  <2>5. RowSet(rs) \subseteq RowSet(rs2)
    BY <2>2 DEF RowSet
  <2> QED BY <2>3, <2>4, <2>5
<1>5. /\ \A id, s : r.parent # id \/ r.via # s => Kids(rs2, id, s) = Kids(rs, id, s)
      /\ Kids(rs2, r.parent, r.via) = Kids(rs, r.parent, r.via) \cup {r}
  BY <1>4 DEF Kids
<1> QED BY <1>1, <1>4, <1>5 DEF Added

(* The unit on top changes, but neither its name nor its area.              *)
LEMMA TableReplaced ==
  ASSUME NEW A, NEW rs, NEW st \in Seq(FrameType), NEW n, NEW result, NEW units, NEW f,
         st # Empty, Table(A, rs, st, n, result, units),
         f.id = st[Len(st)].id, f.parent = st[Len(st)].parent, f.via = st[Len(st)].via,
         f.area = st[Len(st)].area, FrameFound(rs, A, f)
  PROVE  Table(A, rs, [st EXCEPT ![Len(st)] = f], n, NoResult, units)
<1>0. PICK st2 : st2 = [st EXCEPT ![Len(st)] = f]
  OBVIOUS
<1>1. PICK m : m = Len(st)
  OBVIOUS
<1>2. /\ m \in Nat /\ m > 0 /\ m \in 1..m /\ Len(st2) = m /\ st2 # Empty /\ DOMAIN st = 1..m
      /\ \A k \in 1..m : st2[k] = IF k = m THEN f ELSE st[k]
  BY <1>0, <1>1 DEF Empty
<1>3. \A k \in 1..m : /\ st2[k].id = st[k].id /\ st2[k].parent = st[k].parent /\ st2[k].via = st[k].via
                      /\ st2[k].area = st[k].area
  BY <1>1, <1>2
<1>4. \A k \in 1..m : k # 1 => k - 1 \in 1..m /\ st2[k - 1] = st[k - 1]
  BY <1>2
<1>5. IdsOK(rs, st, n)
  BY DEF Table
<1>6. IdsOK(rs, st2, n)
  <2>1. \A k \in 1..m :
          /\ st2[k].id < n /\ \A i \in 1..Len(rs) : rs[i].id # st2[k].id
          /\ \A j \in 1..m : st2[j].id = st2[k].id => j = k
    BY <1>1, <1>3, <1>5 DEF IdsOK
  <2>2. ASSUME NEW k \in 1..m
        PROVE  IF k = 1 THEN st2[k].parent = -1
               ELSE st2[k].parent = st2[k - 1].id /\ st2[k].via = st2[k - 1].trying
    <3>1. CASE k = 1
      BY <1>1, <1>3, <1>5, <3>1 DEF IdsOK
    <3>2. CASE k # 1
      <4>1. st[k].parent = st[k - 1].id /\ st[k].via = st[k - 1].trying
        BY <1>1, <1>5, <3>2 DEF IdsOK
      <4> QED BY <1>3, <1>4, <3>2, <4>1
    <3> QED BY <3>1, <3>2
  <2> QED BY <1>1, <1>2, <1>5, <2>1, <2>2 DEF IdsOK
<1>7. units = NoResult
  BY DEF Table, CodedFound
<1>8. \A k \in 1..m : FrameFound(rs, A, st2[k])
  BY <1>1, <1>2 DEF Table
<1>9. ASSUME NEW k \in 1..(m - 1) PROVE InTest(rs, A, st2[k], st2[k + 1].area)
  <2>1. k \in 1..m /\ k # m /\ k + 1 \in 1..m /\ st2[k] = st[k]
    BY <1>2
  <2>2. InTest(rs, A, st[k], st[k + 1].area)
    BY <1>1 DEF Table
  <2> QED BY <1>3, <2>1, <2>2
<1>10. \A i \in 1..Len(rs) : RowFound(rs, A, rs[i])
  BY DEF Table
<1> QED BY <1>0, <1>2, <1>6, <1>7, <1>8, <1>9, <1>10 DEF Table, CodedFound

(* What is kept of a unit is found as before while it goes through its      *)
(* modes, and when the test of a split is over without a better coding;     *)
LEMMA KeptFound ==
  ASSUME NEW A, NEW rs, NEW f, NEW g, FrameFound(rs, A, f),
         g.id = f.id, g.area = f.area, g.path = f.path, g.best = f.best,
         g.trying = f.trying \/ g.trying = "NONE" \/ \E i \in 1..Len(f.modes) : f.modes[i] = g.trying,
         \A i \in 1..Len(g.modes) : \E j \in 1..Len(f.modes) : g.modes[i] = f.modes[j]
  PROVE  FrameFound(rs, A, g)
<1>1. ASSUME NEW s \in Splits, BestSplit(rs, A, f, s) PROVE BestSplit(rs, A, g, s)
  <2>1. s # "NONE"
    BY DEF Splits
  <2>2. s # g.trying /\ \A i \in 1..Len(g.modes) : g.modes[i] # s
    BY <1>1, <2>1 DEF BestSplit
  <2> QED BY <1>1, <2>2 DEF BestSplit
<1>2. BestUnsplit(f) => BestUnsplit(g)
  BY DEF BestUnsplit
<1>3. \A i \in 1..Len(g.modes) : Kids(rs, g.id, g.modes[i]) = {}
  BY DEF FrameFound
<1> QED BY <1>1, <1>2, <1>3 DEF FrameFound

(* an unsplit coding is the unit itself;                                    *)
LEMMA UnsplitFound ==
  ASSUME NEW A, NEW rs, NEW f, NEW g, FrameFound(rs, A, f),
         g.id = f.id, BestUnsplit(g),
         \A i \in 1..Len(g.modes) : \E j \in 1..Len(f.modes) : g.modes[i] = f.modes[j]
  PROVE  FrameFound(rs, A, g)
<1>1. \A i \in 1..Len(g.modes) : Kids(rs, g.id, g.modes[i]) = {}
  BY DEF FrameFound
<1> QED BY <1>1 DEF FrameFound

(* a better split is found in the rows of its parts.                        *)
LEMMA SplitFound ==
  ASSUME NEW A, NEW rs, NEW f \in FrameType, NEW g, NEW result, FrameFound(rs, A, f), FrameInv(f),
         f.trying \in Splits, f.left = Empty, ResultFound(rs, A, f, result),
         \A cu \in result : ThroughSplit(cu.series, f.path, f.trying),
         g.id = f.id, g.area = f.area, g.path = f.path, g.best = f.parts \cup result,
         g.trying = "NONE", g.modes = f.modes
  PROVE  FrameFound(rs, A, g)
<1>1. f.trying # "NONE" /\ "NONE" \notin Splits
  BY DEF Splits
<1>2. SplitInTest(f)
  BY <1>1 DEF FrameInv
<1>3. ToSet(f.left) = {}
  BY DEF ToSet, Empty
<1>4. Partly(rs, A, g.id, g.area, f.trying, {}, AreasOf(g.best))
  BY <1>3 DEF ResultFound
<1>5. \A cu \in g.best : ThroughSplit(cu.series, g.path, f.trying)
  BY <1>2 DEF SplitInTest
<1>6. \A i \in 1..Len(g.modes) : g.modes[i] # f.trying
  BY <1>2 DEF SplitInTest
<1>7. BestSplit(rs, A, g, f.trying)
  BY <1>1, <1>4, <1>5, <1>6 DEF BestSplit
<1>8. \A i \in 1..Len(g.modes) : Kids(rs, g.id, g.modes[i]) = {}
  BY DEF FrameFound
<1> QED BY <1>7, <1>8 DEF FrameFound

(* The table of the state.                                                  *)
TableOf(A) == Table(A, rows, frames, nextNodeId, returned, coded)

(* Modes that are gone through, with an unsplit coding or without one, and  *)
(* a split whose test ends keep the table.                                  *)
LEMMA TopFound ==
  ASSUME RecursionInv, NEW A, TableOf(A), frames # Empty,
         UNCHANGED <<nextNodeId, rows, coded>>, returned' = NoResult, NEW f, frames' = WithTop(f),
         f.id = Top.id, f.parent = Top.parent, f.via = Top.via, f.area = Top.area, FrameFound(rows, A, f)
  PROVE  TableOf(A)'
<1>1. frames \in Seq(FrameType)
  BY DEF RecursionInv, TypeOK
<1>2. Table(A, rows, [frames EXCEPT ![Len(frames)] = f], nextNodeId, NoResult, coded)
  BY <1>1, TableReplaced DEF TableOf, Top
<1> QED BY <1>2 DEF TableOf, WithTop

(* The unit on top of a table.                                              *)
LEMMA TopTable ==
  ASSUME RecursionInv, NEW A, TableOf(A), frames # Empty
  PROVE  FrameFound(rows, A, Top) /\ Top \in FrameType /\ FrameInv(Top) /\ Top.modes \in Seq(Splits \cup {"NS", "STORE"})
<1>1. /\ Len(frames) \in Nat /\ Len(frames) > 0 /\ Len(frames) \in 1..Len(frames)
      /\ Top = frames[Len(frames)] /\ Top \in FrameType
  BY TopFacts DEF RecursionInv
<1> QED BY <1>1 DEF TableOf, Table, RecursionInv, StackInv, FrameType

(* Modes that do not start the test of a split keep the table,              *)
LEMMA ModesTable ==
  ASSUME RecursionInv, NEW A, TableOf(A), ReuseCached \/ CodeUnsplit \/ LeaveSplit \/ RefuseSplit \/ StoreUnsplit
  PROVE  TableOf(A)'
<1>1. /\ UNCHANGED <<nextNodeId, rows, coded, returned>> /\ frames # Empty /\ Top.trying = "NONE" /\ Top.modes # <<>>
  BY DEF ReuseCached, CodeUnsplit, LeaveSplit, RefuseSplit, StoreUnsplit, Popping, Empty
<1>2. returned' = NoResult
  BY <1>1, NothingReturned
<1>3. FrameFound(rows, A, Top) /\ Top \in FrameType /\ Top.modes \in Seq(Splits \cup {"NS", "STORE"})
  BY <1>1, TopTable
<1>4. \A i \in 1..Len(Tail(Top.modes)) : \E j \in 1..Len(Top.modes) : Tail(Top.modes)[i] = Top.modes[j]
  BY <1>1, <1>3, TailFacts
<1>5. CASE ReuseCached \/ CodeUnsplit
  <2>1. PICK origin : TakeUnsplit(Unsplit(Top, origin))
    BY <1>5 DEF ReuseCached, CodeUnsplit, ReusedUnit
  <2> DEFINE u == Unsplit(Top, origin)
             f == [Top EXCEPT !.modes = Tail(@), !.best = {u}, !.completed = @ \cup {"NS"}]
  <2>2. u.area = Top.area /\ u.series = Top.path
    BY DEF Unsplit
  <2>3. frames' = WithTop(f)
    BY <2>1 DEF TakeUnsplit
  <2> HIDE DEF u
  <2>4. /\ f.id = Top.id /\ f.parent = Top.parent /\ f.via = Top.via /\ f.area = Top.area /\ f.path = Top.path
        /\ f.modes = Tail(Top.modes) /\ f.best = {u}
    BY <1>3 DEF FrameType
  <2> HIDE DEF f
  <2>5. BestUnsplit(f)
    BY <2>2, <2>4 DEF BestUnsplit, AreasOf
  <2>6. FrameFound(rows, A, f)
    <3>1. f.id = Top.id /\ \A i \in 1..Len(f.modes) : \E j \in 1..Len(Top.modes) : f.modes[i] = Top.modes[j]
      BY <1>4, <2>4
    <3> QED BY <1>3, <2>5, <3>1, UnsplitFound
  <2>7. /\ UNCHANGED <<nextNodeId, rows, coded>> /\ returned' = NoResult /\ frames # Empty
        /\ f.id = Top.id /\ f.parent = Top.parent /\ f.via = Top.via /\ f.area = Top.area
    BY <1>1, <1>2, <2>4
  <2> QED BY <2>3, <2>6, <2>7, TopFound
<1>6. CASE LeaveSplit \/ RefuseSplit \/ StoreUnsplit
  <2> DEFINE f == [Top EXCEPT !.modes = Tail(@)]
  <2>1. frames' = WithTop(f)
    BY <1>6 DEF LeaveSplit, RefuseSplit, StoreUnsplit
  <2>2. /\ f.id = Top.id /\ f.parent = Top.parent /\ f.via = Top.via /\ f.area = Top.area /\ f.path = Top.path
        /\ f.modes = Tail(Top.modes) /\ f.best = Top.best /\ f.trying = Top.trying
    BY <1>3 DEF FrameType
  <2> HIDE DEF f
  <2>3. \A i \in 1..Len(f.modes) : \E j \in 1..Len(Top.modes) : f.modes[i] = Top.modes[j]
    BY <1>4, <2>2
  <2>4. FrameFound(rows, A, f)
    BY <1>3, <2>2, <2>3, KeptFound
  <2> QED BY <1>1, <1>2, <2>1, <2>2, <2>4, TopFound
<1> QED BY <1>5, <1>6

(* so does a split that is given up,                                        *)
LEMMA AbortTable ==
  ASSUME RecursionInv, NEW A, TableOf(A), AbortSplit
  PROVE  TableOf(A)'
<1> DEFINE f == [Top EXCEPT !.trying = "NONE", !.left = Empty, !.parts = {}]
<1>1. /\ UNCHANGED <<nextNodeId, rows, coded>> /\ frames # Empty /\ returned' = NoResult /\ frames' = WithTop(f)
  BY DEF AbortSplit, Resumes
<1>2. FrameFound(rows, A, Top) /\ Top \in FrameType
  BY <1>1, TopTable
<1>3. /\ f.id = Top.id /\ f.parent = Top.parent /\ f.via = Top.via /\ f.area = Top.area /\ f.path = Top.path
      /\ f.modes = Top.modes /\ f.best = Top.best /\ f.trying = "NONE"
  BY <1>2 DEF FrameType
<1> HIDE DEF f
<1>4. FrameFound(rows, A, f)
  BY <1>2, <1>3, KeptFound
<1> QED BY <1>1, <1>3, <1>4, TopFound

(* and one whose last part has returned.                                    *)
LEMMA CompleteTable ==
  ASSUME RecursionInv, NEW A, TableOf(A), CompleteSplit
  PROVE  TableOf(A)'
<1>1. PICK better \in BOOLEAN :
        frames' = WithTop([Top EXCEPT !.trying = "NONE", !.parts = {}, !.completed = @ \cup {Top.trying},
                                      !.best = IF better THEN Top.parts \cup returned ELSE @])
  BY DEF CompleteSplit
<1> DEFINE f == [Top EXCEPT !.trying = "NONE", !.parts = {}, !.completed = @ \cup {Top.trying},
                            !.best = IF better THEN Top.parts \cup returned ELSE @]
<1>2. /\ UNCHANGED <<nextNodeId, rows, coded>> /\ frames # Empty /\ returned' = NoResult /\ frames' = WithTop(f)
      /\ returned # NoResult /\ returned # {} /\ Top.left = Empty
  BY <1>1 DEF CompleteSplit, Resumes
<1>3. FrameFound(rows, A, Top) /\ Top \in FrameType /\ FrameInv(Top)
  BY <1>2, TopTable
<1>4. /\ f.id = Top.id /\ f.parent = Top.parent /\ f.via = Top.via /\ f.area = Top.area /\ f.path = Top.path
      /\ f.modes = Top.modes /\ f.trying = "NONE"
      /\ f.best = IF better THEN Top.parts \cup returned ELSE Top.best
  BY <1>3 DEF FrameType
<1> HIDE DEF f
<1>5. Top.trying \in Splits /\ \A cu \in returned : ThroughSplit(cu.series, Top.path, Top.trying)
  BY <1>2 DEF RecursionInv, ReturnedInv
<1>6. ResultFound(rows, A, Top, returned)
  BY <1>2 DEF TableOf, Table, Top
<1>7. FrameFound(rows, A, f)
  <2>1. CASE better
    BY <1>2, <1>3, <1>4, <1>5, <1>6, <2>1, SplitFound
  <2>2. CASE ~better
    BY <1>3, <1>4, <2>2, KeptFound
  <2> QED BY <2>1, <2>2
<1> QED BY <1>2, <1>4, <1>7, TopFound

(* A part of the unit on top is entered.                                    *)
LEMMA TablePushed ==
  ASSUME NEW A, NEW rs \in Seq(RowType), NEW st \in Seq(FrameType), NEW n \in Nat, NEW result, NEW units,
         NEW f \in FrameType, NEW g,
         st # Empty, Table(A, rs, st, n, result, units),
         f.id = st[Len(st)].id, f.parent = st[Len(st)].parent, f.via = st[Len(st)].via,
         f.area = st[Len(st)].area, FrameFound(rs, A, f),
         g.id = n, g.parent = f.id, g.via = f.trying, g.best = {}, InTest(rs, A, f, g.area)
  PROVE  Table(A, rs, Append([st EXCEPT ![Len(st)] = f], g), n + 1, NoResult, units)
<1>0. PICK st1 : st1 = [st EXCEPT ![Len(st)] = f]
  OBVIOUS
<1>1. PICK m : m = Len(st)
  OBVIOUS
<1>2. /\ m \in Nat /\ m > 0 /\ m \in 1..m /\ Len(st1) = m /\ st1 \in Seq(FrameType)
      /\ \A k \in 1..m : st1[k] = IF k = m THEN f ELSE st[k]
  BY <1>0, <1>1 DEF Empty
<1>3. PICK st2 : st2 = Append(st1, g)
  OBVIOUS
<1>4. /\ Len(st2) = m + 1 /\ st2[m + 1] = g /\ st2 # Empty
      /\ \A k \in 1..m : st2[k] = IF k = m THEN f ELSE st[k]
  <2>1. Len(st2) = m + 1 /\ st2[m + 1] = g /\ \A k \in 1..m : st2[k] = st1[k]
    BY <1>2, <1>3
  <2> QED BY <1>2, <2>1 DEF Empty
<1>5. \A k \in 1..m : /\ st2[k].id = st[k].id /\ st2[k].parent = st[k].parent /\ st2[k].via = st[k].via
                      /\ st2[k].area = st[k].area
  BY <1>1, <1>2, <1>4
<1>6. \A k \in 1..m : k # 1 => k - 1 \in 1..m /\ st2[k - 1] = st[k - 1]
  BY <1>2, <1>4
<1>7. /\ \A k \in 1..(m + 1) : k \in 1..m \/ k = m + 1
      /\ \A k \in 1..m : k \in 1..(m + 1) /\ k # m + 1
      /\ m + 1 \in 1..(m + 1) /\ m + 1 # 1 /\ (m + 1) - 1 = m
  BY <1>2
<1>8. IdsOK(rs, st, n)
  BY DEF Table
<1>9. /\ \A i \in 1..Len(rs) : rs[i].id \in Nat /\ rs[i].parent \in Int /\ rs[i].id < n /\ rs[i].parent < n
      /\ \A k \in 1..m : st[k].id \in Nat /\ st[k].id < n
  <2>1. \A i \in 1..Len(rs) : rs[i] \in RowType
    OBVIOUS
  <2>2. \A k \in 1..m : st[k] \in FrameType
    BY <1>1
  <2> QED BY <1>1, <1>8, <2>1, <2>2 DEF RowType, FrameType, IdsOK
<1>10. /\ \A i \in 1..Len(rs) : rs[i].id < n + 1 /\ rs[i].parent < n + 1 /\ rs[i].id # n /\ rs[i].parent # n
       /\ \A k \in 1..m : st[k].id < n + 1 /\ st[k].id # n
       /\ n < n + 1
  BY <1>9
<1>11. IdsOK(rs, st2, n + 1)
  <2>1. ASSUME NEW k \in 1..m
        PROVE  /\ st2[k].id < n + 1 /\ \A i \in 1..Len(rs) : rs[i].id # st2[k].id
               /\ \A j \in 1..(m + 1) : st2[j].id = st2[k].id => j = k
    <3>1. \A i \in 1..Len(rs) : rs[i].id # st2[k].id
      BY <1>1, <1>5, <1>8 DEF IdsOK
    <3>2. \A j \in 1..m : st2[j].id = st2[k].id => j = k
      BY <1>1, <1>5, <1>8 DEF IdsOK
    <3>3. st2[m + 1].id # st2[k].id
      BY <1>4, <1>5, <1>10
    <3> QED BY <1>5, <1>7, <1>10, <3>1, <3>2, <3>3
  <2>2. /\ st2[m + 1].id < n + 1 /\ \A i \in 1..Len(rs) : rs[i].id # st2[m + 1].id
        /\ \A j \in 1..(m + 1) : st2[j].id = st2[m + 1].id => j = m + 1
    BY <1>4, <1>5, <1>7, <1>10
  <2>3. ASSUME NEW k \in 1..m
        PROVE  IF k = 1 THEN st2[k].parent = -1
               ELSE st2[k].parent = st2[k - 1].id /\ st2[k].via = st2[k - 1].trying
    <3>1. CASE k = 1
      BY <1>1, <1>5, <1>8, <3>1 DEF IdsOK
    <3>2. CASE k # 1
      <4>1. st[k].parent = st[k - 1].id /\ st[k].via = st[k - 1].trying
        BY <1>1, <1>8, <3>2 DEF IdsOK
      <4> QED BY <1>5, <1>6, <3>2, <4>1
    <3> QED BY <3>1, <3>2
  <2>4. st2[m + 1].parent = st2[(m + 1) - 1].id /\ st2[m + 1].via = st2[(m + 1) - 1].trying
    BY <1>2, <1>4, <1>7
  <2>5. \A k \in 1..(m + 1) :
          /\ st2[k].id < n + 1 /\ \A i \in 1..Len(rs) : rs[i].id # st2[k].id
          /\ \A j \in 1..(m + 1) : st2[j].id = st2[k].id => j = k
    BY <1>7, <2>1, <2>2
  <2>6. \A k \in 1..(m + 1) :
          IF k = 1 THEN st2[k].parent = -1
          ELSE st2[k].parent = st2[k - 1].id /\ st2[k].via = st2[k - 1].trying
    BY <1>7, <2>3, <2>4
  <2>7. \A i \in 1..Len(rs) : rs[i].id < n + 1 /\ rs[i].parent < n + 1
    BY <1>10
  <2>8. /\ \A i \in 1..Len(rs) : rs[i].parent # -1 => rs[i].via \in Splits
        /\ \A i, j \in 1..Len(rs) : /\ rs[i].id = rs[j].id => i = j
                                    /\ rs[i].parent = rs[j].id => i < j
        /\ \A i \in 1..Len(rs) : rs[i].parent # -1
    BY <1>8 DEF IdsOK
  <2> QED BY <1>4, <2>5, <2>6, <2>7, <2>8 DEF IdsOK
<1>12. units = NoResult
  BY DEF Table, CodedFound
<1>13. FrameFound(rs, A, g)
  <2>1. ASSUME NEW s PROVE Kids(rs, g.id, s) = {}
    BY <1>10 DEF Kids, RowSet
  <2> QED BY <2>1 DEF FrameFound
<1>14. \A k \in 1..(m + 1) : FrameFound(rs, A, st2[k])
  <2>1. \A k \in 1..m : FrameFound(rs, A, st[k])
    BY <1>1 DEF Table
  <2> QED BY <1>4, <1>7, <1>13, <2>1
<1>15. ASSUME NEW k \in 1..m PROVE InTest(rs, A, st2[k], st2[k + 1].area)
  <2>1. CASE k = m
    BY <1>2, <1>4, <2>1
  <2>2. CASE k # m
    <3>1. k \in 1..(m - 1) /\ k + 1 \in 1..m /\ st2[k] = st[k]
      BY <1>2, <1>4, <2>2
    <3>2. InTest(rs, A, st[k], st[k + 1].area)
      BY <1>1, <3>1 DEF Table
    <3> QED BY <1>5, <3>1, <3>2
  <2> QED BY <2>1, <2>2
<1>16. \A i \in 1..Len(rs) : RowFound(rs, A, rs[i])
  BY DEF Table
<1> QED BY <1>0, <1>3, <1>4, <1>7, <1>11, <1>12, <1>14, <1>15, <1>16 DEF Table, CodedFound

(* The parts of a queue.                                                    *)
LEMMA QueueParts ==
  ASSUME NEW S, NEW q \in Seq(S), q # <<>>
  PROVE  ToSet(q) = {Head(q)} \cup ToSet(Tail(q))
<1>0. PICK t : t = Tail(q)
  OBVIOUS
<1>1. /\ t \in Seq(S) /\ Len(t) = Len(q) - 1 /\ Len(q) \in Nat /\ Len(q) > 0
      /\ Head(q) = q[1] /\ 1 \in 1..Len(q)
      /\ \A i \in 1..Len(t) : t[i] = q[i + 1] /\ i + 1 \in 1..Len(q)
  BY <1>0, TailFacts
<1>2. ToSet(q) = {q[i] : i \in 1..Len(q)} /\ ToSet(t) = {t[i] : i \in 1..Len(t)}
  <2>1. DOMAIN q = 1..Len(q) /\ DOMAIN t = 1..Len(t)
    BY <1>1
  <2> QED BY <2>1, Zenon DEF ToSet
<1>3. \A i \in 1..Len(q) : i # 1 => i - 1 \in 1..Len(t) /\ (i - 1) + 1 = i
  BY <1>1
<1>4. ASSUME NEW i \in 1..Len(q) PROVE q[i] \in {q[1]} \cup ToSet(t)
  <2>1. CASE i = 1
    BY <2>1
  <2>2. CASE i # 1
    <3>1. PICK j : j = i - 1
      OBVIOUS
    <3>2. j \in 1..Len(t) /\ t[j] = q[i]
      BY <1>1, <1>3, <2>2, <3>1
    <3> QED BY <1>2, <3>2
  <2> QED BY <2>1, <2>2
<1>5. \A i \in 1..Len(t) : t[i] \in ToSet(q)
  BY <1>1, <1>2
<1>6. ToSet(q) \subseteq {q[1]} \cup ToSet(t)
  BY <1>2, <1>4
<1>7. {q[1]} \cup ToSet(t) \subseteq ToSet(q)
  BY <1>1, <1>2, <1>5
<1> QED BY <1>0, <1>1, <1>6, <1>7

(* The parts of a split on offer are areas of the unit.                     *)
LEMMA OfferedFits ==
  ASSUME NEW a \in Areas, NEW s, IsOffered(a, s)
  PROVE  PartsFit(SubAreas(a, s), a)
<1>1. PICK k \in 1..Len(Offered(a)) : Offered(a)[k] = s
  BY DEF IsOffered
<1> DEFINE q == SubAreas(a, s)
<1>2. /\ \A i \in 1..Len(q) : q[i].w > 0 /\ q[i].h > 0
      /\ s = "TRIH" => a.h % 4 = 0
      /\ s = "TRIV" => a.w % 4 = 0
  BY <1>1, OfferedAssumption
<1> QED BY <1>2, SplitFits DEF IsOffered


(* A split that is tested has no rows yet, and the part that comes next is  *)
(* one of the rest.                                                         *)
LEMMA EnterTable ==
  ASSUME RecursionInv, NEW A, TableOf(A), frames # Empty, NEW F \in FrameType, F.left # <<>>, Entering(F),
         UNCHANGED <<rows, coded>>, returned' = NoResult,
         F.id = Top.id, F.parent = Top.parent, F.via = Top.via, F.area = Top.area, FrameFound(rows, A, F),
         Partly(rows, A, F.id, F.area, F.trying, ToSet(F.left), AreasOf(F.parts))
  PROVE  TableOf(A)'
<1> DEFINE f == [F EXCEPT !.left = Tail(@)]
           g == Frame(nextNodeId, F.id, F.trying, Head(F.left), Append(F.path, F.trying))
<1>1. /\ frames \in Seq(FrameType) /\ rows \in Seq(RowType) /\ nextNodeId \in Nat /\ F.left \in Seq(Areas)
  BY DEF RecursionInv, TypeOK, FrameType
<1>2. frames' = Append(WithTop(f), g) /\ nextNodeId' = nextNodeId + 1
  BY DEF Entering
<1>3. f \in FrameType
  BY <1>1, TailFacts, FrameChanged
<1>4. /\ f.id = F.id /\ f.parent = F.parent /\ f.via = F.via /\ f.area = F.area /\ f.path = F.path
      /\ f.trying = F.trying /\ f.left = Tail(F.left) /\ f.modes = F.modes /\ f.best = F.best /\ f.parts = F.parts
  BY DEF FrameType
<1>5. g.id = nextNodeId /\ g.parent = F.id /\ g.via = F.trying /\ g.area = Head(F.left) /\ g.best = {}
  BY DEF Frame
<1> HIDE DEF f, g
<1>6. ToSet(F.left) = {g.area} \cup ToSet(f.left)
  BY <1>1, <1>4, <1>5, QueueParts
<1>7. InTest(rows, A, f, g.area)
  BY <1>4, <1>6 DEF InTest
<1>8. FrameFound(rows, A, f)
  <2>1. BestUnsplit(F) => BestUnsplit(f)
    BY <1>4 DEF BestUnsplit
  <2>2. ASSUME NEW s, BestSplit(rows, A, F, s) PROVE BestSplit(rows, A, f, s)
    BY <1>4, <2>2 DEF BestSplit
  <2> QED BY <1>4, <2>1, <2>2 DEF FrameFound
<1>9. Table(A, rows, Append([frames EXCEPT ![Len(frames)] = f], g), nextNodeId + 1, NoResult, coded)
  <2>1. Table(A, rows, frames, nextNodeId, returned, coded)
    BY DEF TableOf
  <2>2. /\ f.id = frames[Len(frames)].id /\ f.parent = frames[Len(frames)].parent
        /\ f.via = frames[Len(frames)].via /\ f.area = frames[Len(frames)].area
        /\ g.parent = f.id /\ g.via = f.trying
    BY <1>4, <1>5 DEF Top
  <2> QED BY <1>1, <1>3, <1>5, <1>7, <1>8, <2>1, <2>2, TablePushed
<1> QED BY <1>2, <1>9 DEF TableOf, WithTop

(* The first part of a split is entered,                                    *)
LEMMA TestTable ==
  ASSUME RecursionInv, NEW A, TableOf(A), TestSplit
  PROVE  TableOf(A)'
<1>1. PICK s \in Splits :
        /\ Popping(s)
        /\ Entering([Top EXCEPT !.modes = Tail(@), !.trying = s, !.left = SubAreas(Top.area, s), !.parts = {}])
  BY DEF TestSplit
<1> DEFINE q == SubAreas(Top.area, s)
           F == [Top EXCEPT !.modes = Tail(@), !.trying = s, !.left = q, !.parts = {}]
<1>2. /\ frames # Empty /\ Top.trying = "NONE" /\ Top.modes # <<>> /\ Head(Top.modes) = s
  BY <1>1 DEF Popping, Empty
<1>3. /\ FrameFound(rows, A, Top) /\ Top \in FrameType /\ FrameInv(Top)
      /\ Top.modes \in Seq(Splits \cup {"NS", "STORE"}) /\ Top.area \in Areas
  <2>1. FrameFound(rows, A, Top) /\ Top \in FrameType /\ FrameInv(Top) /\ Top.modes \in Seq(Splits \cup {"NS", "STORE"})
    BY <1>2, TopTable
  <2> QED BY <2>1 DEF FrameType
<1>4. UNCHANGED <<rows, coded>> /\ returned' = NoResult
  BY <1>2, NothingReturned DEF TestSplit
<1>5. /\ Tail(Top.modes) \in Seq(Splits \cup {"NS", "STORE"})
      /\ 1 \in 1..Len(Top.modes) /\ Top.modes[1] = s
      /\ \A i \in 1..Len(Tail(Top.modes)) : \E j \in 1..Len(Top.modes) : Tail(Top.modes)[i] = Top.modes[j]
  BY <1>2, <1>3, TailFacts
<1>5b. \A i \in 1..Len(Tail(Top.modes)) : Tail(Top.modes)[i] # s
  BY <1>2, <1>3, OneTurnTail DEF FrameInv
<1>6. IsOffered(Top.area, s)
  BY <1>3, <1>5 DEF FrameInv, IsOffered
<1>7. PartsFit(q, Top.area)
  BY <1>3, <1>6, OfferedFits
<1> HIDE DEF q
<1>8. F \in FrameType
  BY <1>3, <1>5, <1>7, FrameChanged DEF PartsFit
<1>9. /\ F.id = Top.id /\ F.parent = Top.parent /\ F.via = Top.via /\ F.area = Top.area /\ F.path = Top.path
      /\ F.trying = s /\ F.left = q /\ F.parts = {} /\ F.modes = Tail(Top.modes) /\ F.best = Top.best
  BY <1>3 DEF FrameType
<1>10. Entering(F)
  BY <1>1 DEF q
<1> HIDE DEF F
<1>11. FrameFound(rows, A, F)
  <2>1. \A i \in 1..Len(F.modes) : \E j \in 1..Len(Top.modes) : F.modes[i] = Top.modes[j]
    BY <1>5, <1>9
  <2>2. \E j \in 1..Len(Top.modes) : Top.modes[j] = F.trying
    BY <1>5, <1>9
  <2> QED BY <1>3, <1>9, <2>1, <2>2, KeptFound
<1>12. Kids(rows, F.id, s) = {}
  BY <1>3, <1>5, <1>9 DEF FrameFound
<1>13. Partly(rows, A, F.id, F.area, F.trying, ToSet(F.left), AreasOf(F.parts))
  <2>1. Parts(F.area, s) = ToSet(F.left)
    BY <1>9 DEF Parts, q
  <2>2. AreasOf({}) = {} /\ Cover(A, {}) = {}
    BY DEF AreasOf, Cover
  <2> QED BY <1>6, <1>9, <1>12, <2>1, <2>2 DEF Partly
<1> QED BY <1>2, <1>4, <1>7, <1>8, <1>9, <1>10, <1>11, <1>13, EnterTable DEF PartsFit

(* or the next one, once the part before it has returned.                   *)
LEMMA NextPartTable ==
  ASSUME RecursionInv, NEW A, TableOf(A), NextPart
  PROVE  TableOf(A)'
<1> DEFINE F == [Top EXCEPT !.parts = @ \cup returned]
<1>1. /\ frames # Empty /\ returned # NoResult /\ returned # {} /\ Top.left # <<>> /\ Entering(F)
      /\ returned' = NoResult /\ UNCHANGED <<rows, coded>> /\ returned \subseteq Units
  BY DEF NextPart, Resumes, Empty, RecursionInv, TypeOK
<1>2. FrameFound(rows, A, Top) /\ Top \in FrameType /\ Top.parts \in SUBSET Units
  <2>1. FrameFound(rows, A, Top) /\ Top \in FrameType
    BY <1>1, TopTable
  <2> QED BY <2>1 DEF FrameType
<1>3. F \in FrameType
  BY <1>1, <1>2, FrameChanged
<1>4. /\ F.id = Top.id /\ F.parent = Top.parent /\ F.via = Top.via /\ F.area = Top.area /\ F.path = Top.path
      /\ F.trying = Top.trying /\ F.left = Top.left /\ F.parts = Top.parts \cup returned
      /\ F.modes = Top.modes /\ F.best = Top.best
  BY <1>2 DEF FrameType
<1> HIDE DEF F
<1>5. FrameFound(rows, A, F)
  BY <1>2, <1>4, KeptFound
<1>6. Partly(rows, A, F.id, F.area, F.trying, ToSet(F.left), AreasOf(F.parts))
  <2>1. ResultFound(rows, A, Top, returned)
    BY <1>1 DEF TableOf, Table, Top
  <2> QED BY <1>4, <2>1 DEF ResultFound
<1> QED BY <1>1, <1>3, <1>4, <1>5, <1>6, EnterTable

(* The mode a row selects is the split its coding goes through.             *)
LEMMA SelectedIs ==
  ASSUME NEW f \in FrameType, KeptCounted(f)
  PROVE  /\ f.best = {} => Row(f).selected = "NONE"
         /\ f.best # {} /\ BestUnsplit(f) => Row(f).selected = "NS"
         /\ \A s : f.best # {} /\ (\A cu \in f.best : ThroughSplit(cu.series, f.path, s)) => Row(f).selected = s
<1> DEFINE sel == Selected(f.best, f.area, Len(f.path))
<1>1. f.path \in Seq(Splits) /\ f.best \in SUBSET Units /\ Len(f.path) \in Nat
  <2>1. f.path \in Seq(Splits) /\ f.best \in SUBSET Units
    BY DEF FrameType
  <2> QED BY <2>1
<1>2. Row(f).selected = sel
  BY DEF Row
<1>3. f.best = {} => sel = "NONE"
  BY DEF Selected
<1>4. ASSUME f.best # {}
      PROVE  /\ BestUnsplit(f) => sel = "NS"
             /\ \A s : (\A cu \in f.best : ThroughSplit(cu.series, f.path, s)) => sel = s
  <2> DEFINE cu == CHOOSE c \in f.best : StartsAt(c.area, f.area)
  <2>1. cu \in f.best
    BY <1>4 DEF KeptCounted
  <2>2. sel = IF Len(cu.series) > Len(f.path) THEN cu.series[Len(f.path) + 1] ELSE "NS"
    BY <1>4 DEF Selected
  <2> HIDE DEF cu, sel
  <2>3. Len(cu.series) \in Nat
    <3>1. cu.series \in Seq(Splits)
      BY <1>1, <2>1 DEF Units
    <3> QED BY <3>1
  <2>4. BestUnsplit(f) => sel = "NS"
    <3>1. ~(Len(f.path) > Len(f.path))
      BY <1>1
    <3> QED BY <2>1, <2>2, <3>1 DEF BestUnsplit
  <2>5. ASSUME NEW s, \A c \in f.best : ThroughSplit(c.series, f.path, s) PROVE sel = s
    <3>1. Len(f.path) < Len(cu.series) /\ cu.series[Len(f.path) + 1] = s
      BY <2>1, <2>5 DEF ThroughSplit
    <3>2. Len(cu.series) > Len(f.path)
      BY <1>1, <2>3, <3>1
    <3> QED BY <2>2, <3>1, <3>2
  <2> QED BY <2>4, <2>5
<1> HIDE DEF sel
<1> QED BY <1>2, <1>3, <1>4

(* The unit on top returns: its row takes its name,                         *)
NamesReturned(rs, st, n, m, r, rs2, st2) ==
  /\ IdsOK(rs2, st2, n)
  /\ m # 1 => r.parent = st[m - 1].id /\ r.via = st[m - 1].trying
  /\ m = 1 => \A i \in 1..Len(rs2) : rs2[i].parent = -1 <=> i = Len(rs2)
  /\ \A k \in 1..(m - 2) : st[k].id # r.parent
  /\ \A i \in 1..Len(rs) : rs[i].id # r.parent /\ rs[i].id # r.id
  /\ r.parent # r.id

(* which nothing else has, and whose parts stand in front of it,            *)
LEMMA IdsReturned ==
  ASSUME NEW rs \in Seq(RowType), NEW st \in Seq(FrameType), NEW n \in Nat, NEW m, m = Len(st), m \in Nat, m > 0,
         IdsOK(rs, st, n), NEW r \in RowType, r.id = st[m].id, r.parent = st[m].parent, r.via = st[m].via,
         \A k \in 1..(m - 1) : st[k].trying \in Splits,
         NEW rs2, rs2 = Append(rs, r), NEW st2, Len(st2) = m - 1, \A k \in 1..(m - 1) : st2[k] = st[k],
         st2 # Empty => m # 1
  PROVE  NamesReturned(rs, st, n, m, r, rs2, st2)
<1>0. PICK l : l = Len(rs)
  OBVIOUS
<1>1. /\ l \in Nat /\ Len(rs2) = l + 1 /\ rs2[l + 1] = r /\ \A i \in 1..l : rs2[i] = rs[i]
  <2>1. Added(rs, r, rs2)
    BY RowAdded
  <2> QED BY <1>0, <2>1 DEF Added
<1>2. \A i \in 1..(l + 1) : i = l + 1 \/ i \in 1..l
  BY <1>1
<1>3. \A i \in 1..l : rs[i].id \in Nat /\ rs[i].parent \in Int
  <2>1. \A i \in 1..l : rs[i] \in RowType
    BY <1>0
  <2> QED BY <2>1 DEF RowType
<1>4. \A k \in 1..m : st[k].id \in Nat /\ st[k].parent \in Int
  <2>1. \A k \in 1..m : st[k] \in FrameType
    OBVIOUS
  <2> QED BY <2>1 DEF FrameType
<1>5. /\ m \in 1..m /\ \A k \in 1..(m - 1) : k \in 1..m /\ k # m
      /\ \A k \in 1..(m - 1) : k # 1 => k - 1 \in 1..(m - 1)
      /\ m # 1 => m - 1 \in 1..(m - 1) /\ m - 1 \in 1..m
      /\ \A k \in 1..(m - 2) : k \in 1..(m - 1) /\ k # m - 1
  OBVIOUS
<1>6. /\ \A k \in 1..m : st[k].id < n /\ \A i \in 1..l : rs[i].id # st[k].id
      /\ \A k \in 1..m : \A j \in 1..m : st[j].id = st[k].id => j = k
      /\ st[1].parent = -1
      /\ \A k \in 1..m : k # 1 => st[k].parent = st[k - 1].id /\ st[k].via = st[k - 1].trying
      /\ \A i \in 1..l : rs[i].parent # -1
  <2>1. st # Empty /\ 1 \in 1..m
    BY DEF Empty
  <2> QED BY <1>0, <2>1 DEF IdsOK
<1>7. /\ \A i \in 1..l : rs[i].id < n /\ rs[i].parent < n /\ rs[i].via \in Splits
      /\ \A i, j \in 1..l : /\ rs[i].id = rs[j].id => i = j
                            /\ rs[i].parent = rs[j].id => i < j
  BY <1>0, <1>6 DEF IdsOK
<1>8. m # 1 => r.parent = st[m - 1].id /\ r.via = st[m - 1].trying
  BY <1>5, <1>6
<1>9. m = 1 => r.parent = -1
  BY <1>6
<1>10. /\ \A k \in 1..(m - 1) : st[k].id # r.id
       /\ \A i \in 1..l : rs[i].id # r.id
  <2>1. \A k \in 1..m : st[m].id = st[k].id => m = k
    BY <1>5, <1>6
  <2>2. \A i \in 1..l : rs[i].id # st[m].id
    BY <1>5, <1>6
  <2> QED BY <1>5, <2>1, <2>2
<1>11. /\ \A k \in 1..(m - 2) : st[k].id # r.parent
       /\ \A i \in 1..l : rs[i].id # r.parent
       /\ r.parent # r.id /\ r.id < n /\ r.parent < n
       /\ r.parent # -1 <=> m # 1
  <2>1. -1 \notin Nat /\ -1 < n /\ \A i \in Nat : i # -1
    OBVIOUS
  <2>2. r.id = st[m].id /\ r.id \in Nat /\ r.id < n
    BY <1>4, <1>5, <1>6
  <2>3. CASE m = 1
    <3>1. \A k \in 1..(m - 2) : FALSE
      BY <2>3
    <3> QED BY <1>3, <1>9, <2>1, <2>2, <2>3, <3>1
  <2>4. CASE m # 1
    <3>1. r.parent = st[m - 1].id /\ m - 1 \in 1..m /\ m - 1 # m
      BY <1>5, <1>8, <2>4
    <3>2. r.parent \in Nat /\ r.parent < n /\ r.parent # r.id
      <4>1. st[m - 1].id \in Nat
        BY <1>4, <3>1
      <4>2. st[m - 1].id < n
        BY <1>6, <3>1
      <4>3. st[m - 1].id # st[m].id
        BY <1>5, <1>6, <3>1
      <4> QED BY <2>2, <3>1, <4>1, <4>2, <4>3
    <3>3. \A i \in 1..l : rs[i].id # r.parent
      <4>1. \A k \in 1..m : \A i \in 1..l : rs[i].id # st[k].id
        BY <1>6
      <4>2. \A i \in 1..l : rs[i].id # st[m - 1].id
        BY <3>1, <4>1
      <4> QED BY <3>1, <4>2
    <3>4. \A k \in 1..(m - 2) : st[k].id # r.parent
      <4>1. \A k \in 1..m : st[m - 1].id = st[k].id => m - 1 = k
        BY <1>6, <3>1
      <4>2. \A k \in 1..(m - 2) : k \in 1..m /\ k # m - 1
        BY <1>5
      <4> QED BY <3>1, <4>1, <4>2
    <3> QED BY <2>1, <2>2, <2>4, <3>2, <3>3, <3>4
  <2> QED BY <2>3, <2>4
<1>12. ASSUME m = 1 PROVE \A i \in 1..Len(rs2) : rs2[i].parent = -1 <=> i = Len(rs2)
  <2>1. \A i \in 1..l : i # l + 1
    BY <1>1
  <2> QED BY <1>1, <1>2, <1>6, <1>9, <1>12, <2>1
<1>13. IdsOK(rs2, st2, n)
  <2>1. \A i \in 1..(l + 1) :
          rs2[i].id < n /\ rs2[i].parent < n /\ (rs2[i].parent # -1 => rs2[i].via \in Splits)
    <3>1. \A i \in 1..l : rs2[i].id < n /\ rs2[i].parent < n /\ rs2[i].via \in Splits
      BY <1>1, <1>7
    <3>2. rs2[l + 1].id < n /\ rs2[l + 1].parent < n /\ (rs2[l + 1].parent # -1 => rs2[l + 1].via \in Splits)
      BY <1>1, <1>5, <1>8, <1>11
    <3> QED BY <1>2, <3>1, <3>2
  <2>2. ASSUME NEW i \in 1..(l + 1), NEW j \in 1..(l + 1)
        PROVE  /\ rs2[i].id = rs2[j].id => i = j
               /\ rs2[i].parent = rs2[j].id => i < j
    <3>1. CASE i \in 1..l /\ j \in 1..l
      BY <1>1, <1>7, <3>1
    <3>2. CASE i \in 1..l /\ j = l + 1
      BY <1>1, <1>10, <3>2
    <3>3. CASE i = l + 1 /\ j \in 1..l
      BY <1>1, <1>10, <1>11, <3>3
    <3>4. CASE i = l + 1 /\ j = l + 1
      BY <1>1, <1>11, <3>4
    <3> QED BY <1>2, <3>1, <3>2, <3>3, <3>4
  <2>3. ASSUME NEW k \in 1..(m - 1)
        PROVE  /\ st2[k].id < n /\ \A i \in 1..(l + 1) : rs2[i].id # st2[k].id
               /\ \A j \in 1..(m - 1) : st2[j].id = st2[k].id => j = k
    <3>1. \A i \in 1..(l + 1) : rs2[i].id # st2[k].id
      <4>1. st2[k] = st[k] /\ k \in 1..m
        BY <1>5
      <4>2. \A i \in 1..l : rs2[i].id # st[k].id
        BY <1>1, <1>6, <4>1
      <4>3. rs2[l + 1].id # st[k].id
        BY <1>1, <1>10
      <4> QED BY <1>2, <4>1, <4>2, <4>3
    <3>2. st2[k].id < n
      BY <1>5, <1>6
    <3>3. \A j \in 1..(m - 1) : st2[j].id = st2[k].id => j = k
      <4>1. st2[k] = st[k] /\ \A j \in 1..(m - 1) : st2[j] = st[j]
        OBVIOUS
      <4>2. k \in 1..m /\ \A j \in 1..(m - 1) : j \in 1..m
        BY <1>5
      <4>3. \A j \in 1..m : st[j].id = st[k].id => j = k
        BY <1>6, <4>2
      <4> QED BY <4>1, <4>2, <4>3
    <3> QED BY <3>1, <3>2, <3>3
  <2>4. ASSUME NEW k \in 1..(m - 1)
        PROVE  IF k = 1 THEN st2[k].parent = -1
               ELSE st2[k].parent = st2[k - 1].id /\ st2[k].via = st2[k - 1].trying
    <3>1. k \in 1..m /\ st2[k] = st[k]
      BY <1>5
    <3>2. CASE k = 1
      BY <1>6, <3>1, <3>2
    <3>3. CASE k # 1
      <4>1. st2[k - 1] = st[k - 1]
        BY <1>5, <3>3
      <4>2. st[k].parent = st[k - 1].id /\ st[k].via = st[k - 1].trying
        BY <1>6, <3>1, <3>3
      <4> QED BY <3>1, <3>3, <4>1, <4>2
    <3> QED BY <3>2, <3>3
  <2>5. st2 # Empty => \A i \in 1..(l + 1) : rs2[i].parent # -1
    BY <1>1, <1>2, <1>6, <1>11
  <2> QED BY <1>1, <2>1, <2>2, <2>3, <2>4, <2>5 DEF IdsOK
<1> QED BY <1>0, <1>8, <1>10, <1>11, <1>12, <1>13 DEF NamesReturned

(* and its coded units are those of its row.                                *)
TableAfter(A, rs, stack, n, m, best, units) ==
  IF m = 1 THEN Table(A, rs, stack, n, NoResult, best) ELSE Table(A, rs, stack, n, best, units)

(* so that the table goes on without it on the stack.                       *)
LEMMA TableReturned ==
  ASSUME NEW A \in [Nat -> SUBSET Areas], NEW rs \in Seq(RowType), NEW st \in Seq(FrameType), NEW n \in Nat,
         NEW result, NEW units, NEW m, m = Len(st), m \in Nat, m > 0,
         Table(A, rs, st, n, result, units),
         \A k \in 1..m : FrameInv(st[k]),
         \A k \in 1..(m - 1) : Below(st[k], st[m]),
         NEW best, best = st[m].best, m = 1 => best # {},
         NEW r, r = Row(st[m]),
         NEW A2, A2 = [A EXCEPT ![r.id] = AreasOf(best)],
         NEW rs2, rs2 = Append(rs, r),
         NEW st2, Len(st2) = m - 1, \A k \in 1..(m - 1) : st2[k] = st[k], st2 # Empty => m # 1, m = 1 => st2 = Empty
  PROVE  TableAfter(A2, rs2, st2, n, m, best, units)
<1>0. PICK top : top = st[m]
  OBVIOUS
<1>1. PICK l : l = Len(rs)
  OBVIOUS
<1>2. /\ top \in FrameType /\ FrameInv(top) /\ KeptCounted(top) /\ m \in 1..m
      /\ top.id \in Nat /\ top.area \in Areas /\ top.best \in SUBSET Units
  <2>1. m \in 1..m
    OBVIOUS
  <2>2. top \in FrameType /\ FrameInv(top)
    BY <1>0, <2>1
  <2> QED BY <2>1, <2>2 DEF FrameInv, FrameType
<1>3. /\ r \in RowType /\ r.id = top.id /\ r.parent = top.parent /\ r.via = top.via /\ r.area = top.area
  <2>1. r \in RowType
    BY <1>0, <1>2, RowCounts
  <2> QED BY <1>0, <2>1 DEF Row
<1>4. /\ best = {} => r.selected = "NONE"
      /\ best # {} /\ BestUnsplit(top) => r.selected = "NS"
      /\ \A s : BestSplit(rs, A, top, s) => best = {} \/ r.selected = s
  <2>1. \A s : BestSplit(rs, A, top, s) => \A cu \in top.best : ThroughSplit(cu.series, top.path, s)
    BY DEF BestSplit
  <2> QED BY <1>0, <1>2, <2>1, SelectedIs
<1>5. FrameFound(rs, A, top)
  BY <1>0, <1>2 DEF Table
<1>6. best # {} => r.selected \in Splits \cup {"NS"} /\ r.selected # "NONE"
  <2>1. "NONE" \notin Splits /\ "NS" # "NONE"
    BY DEF Splits
  <2>2. best # {} => BestUnsplit(top) \/ \E s \in Splits : BestSplit(rs, A, top, s)
    BY <1>0, <1>5 DEF FrameFound
  <2> QED BY <1>4, <2>1, <2>2
<1>7. /\ l \in Nat /\ Len(rs2) = l + 1 /\ rs2[l + 1] = r /\ \A i \in 1..l : rs2[i] = rs[i]
      /\ RowSet(rs) = {rs[i] : i \in 1..l}
      /\ \A id, s : r.parent # id \/ r.via # s => Kids(rs2, id, s) = Kids(rs, id, s)
      /\ Kids(rs2, r.parent, r.via) = Kids(rs, r.parent, r.via) \cup {r}
  <2>1. Added(rs, r, rs2)
    BY <1>3, RowAdded
  <2> QED BY <1>1, <2>1 DEF Added, RowSet
<1>8. \A i \in 1..(l + 1) : i = l + 1 \/ i \in 1..l
  BY <1>7
<1>9. \A k \in 1..(m - 1) : st[k].trying \in Splits /\ st[k].trying # "NONE" /\ k \in 1..m
  <2>1. "NONE" \notin Splits
    BY DEF Splits
  <2>2. \A k \in 1..(m - 1) : k \in 1..m
    OBVIOUS
  <2> QED BY <2>1, <2>2 DEF Below
<1>10. /\ IdsOK(rs2, st2, n)
       /\ m # 1 => r.parent = st[m - 1].id /\ r.via = st[m - 1].trying
       /\ m = 1 => \A i \in 1..Len(rs2) : rs2[i].parent = -1 <=> i = Len(rs2)
       /\ \A k \in 1..(m - 2) : st[k].id # r.parent
       /\ \A i \in 1..Len(rs) : rs[i].id # r.parent /\ rs[i].id # r.id
       /\ r.parent # r.id
  <2>1. IdsOK(rs, st, n)
    BY DEF Table
  <2>2. r \in RowType /\ r.id = st[m].id /\ r.parent = st[m].parent /\ r.via = st[m].via
    BY <1>0, <1>3
  <2>3. \A k \in 1..(m - 1) : st[k].trying \in Splits
    BY <1>9
  <2>4. NamesReturned(rs, st, n, m, r, rs2, st2)
    BY <2>1, <2>2, <2>3, IdsReturned
  <2> QED BY <2>4 DEF NamesReturned
<1>11. /\ A2[r.id] = AreasOf(best) /\ \A i \in Nat : i # r.id => A2[i] = A[i]
       /\ \A q \in RowSet(rs) : A2[q.id] = A[q.id] /\ q.id # r.id /\ q.id # r.parent
  <2>1. r.id \in Nat
    BY <1>2, <1>3
  <2>2. \A i \in 1..l : rs[i] \in RowType
    BY <1>1
  <2>3. \A q \in RowSet(rs) : q.id \in Nat /\ q.id # r.id /\ q.id # r.parent
    <3>1. \A i \in 1..l : rs[i].id \in Nat
      BY <2>2 DEF RowType
    <3>2. \A i \in 1..l : rs[i].id # r.id /\ rs[i].id # r.parent
      BY <1>1, <1>10
    <3> QED BY <1>7, <3>1, <3>2
  <2> QED BY <2>1, <2>3
<1>12. ASSUME NEW id, NEW s, r.parent # id \/ r.via # s
       PROVE  \A area, rest, cover :
                Partly(rs, A, id, area, s, rest, cover) => Partly(rs2, A2, id, area, s, rest, cover)
  <2>1. Kids(rs2, id, s) = Kids(rs, id, s)
    BY <1>7, <1>12, Zenon
  <2>2. \A q \in Kids(rs, id, s) : A2[q.id] = A[q.id]
    BY <1>11 DEF Kids
  <2>3. Cover(A2, Kids(rs2, id, s)) = Cover(A, Kids(rs, id, s))
    BY <2>1, <2>2 DEF Cover
  <2> QED BY <2>1, <2>3 DEF Partly
<1>13. ASSUME NEW i \in 1..(l + 1) PROVE RowFound(rs2, A2, rs2[i])
  <2>1. CASE i \in 1..l
    <3>1. PICK q : q = rs[i]
      OBVIOUS
    <3>2. RowFound(rs, A, q) /\ q \in RowSet(rs) /\ rs2[i] = q
      BY <1>1, <1>7, <2>1, <3>1 DEF Table
    <3>3. A2[q.id] = A[q.id] /\ q.id # r.parent
      BY <1>11, <3>2
    <3>4. RowFound(rs2, A2, q)
      BY <1>12, <3>2, <3>3 DEF RowFound
    <3> QED BY <3>2, <3>4
  <2>2. CASE i = l + 1
    <3>1. rs2[i] = r
      BY <1>7, <2>2
    <3>2. "NS" \notin Splits /\ "NONE" \notin Splits /\ "NS" # "NONE"
      BY DEF Splits
    <3>3. r.selected = "NS" => A2[r.id] = {r.area}
      <4>1. ASSUME r.selected = "NS" PROVE AreasOf(best) = {r.area}
        <5>1. best # {} /\ ~(\E s \in Splits : BestSplit(rs, A, top, s))
          BY <1>4, <3>2, <4>1
        <5>2. BestUnsplit(top)
          BY <1>0, <1>5, <5>1 DEF FrameFound
        <5> QED BY <1>0, <1>3, <5>2 DEF BestUnsplit
      <4> QED BY <1>11, <4>1
    <3>4. r.selected \in Splits => Partly(rs2, A2, r.id, r.area, r.selected, {}, A2[r.id])
      <4>1. ASSUME r.selected \in Splits PROVE Partly(rs, A, top.id, top.area, r.selected, {}, AreasOf(best))
        <5>1. best # {} /\ ~BestUnsplit(top)
          BY <1>4, <3>2, <4>1
        <5>2. PICK s \in Splits : BestSplit(rs, A, top, s)
          BY <1>0, <1>5, <5>1 DEF FrameFound
        <5>3. s = r.selected
          BY <1>4, <5>1, <5>2
        <5> QED BY <1>0, <5>2, <5>3 DEF BestSplit
      <4>2. ASSUME r.selected \in Splits PROVE Partly(rs2, A2, top.id, top.area, r.selected, {}, AreasOf(best))
        <5>1. r.parent # top.id
          BY <1>3, <1>10
        <5> QED BY <1>12, <4>1, <4>2, <5>1, Zenon
      <4> QED BY <1>3, <1>11, <4>2
    <3> QED BY <3>1, <3>3, <3>4 DEF RowFound
  <2> QED BY <1>8, <2>1, <2>2
<1>14. ASSUME NEW k \in 1..(m - 1) PROVE FrameFound(rs2, A2, st2[k])
  <2>1. PICK f : f = st[k]
    OBVIOUS
  <2>2. FrameFound(rs, A, f) /\ st2[k] = f /\ FrameInv(f) /\ f.trying # "NONE"
    BY <1>9, <2>1 DEF Table
  <2>3. SplitInTest(f)
    BY <2>2 DEF FrameInv
  <2>4. r.parent = f.id => r.via = f.trying
    <3>1. k = m - 1 \/ k \in 1..(m - 2)
      OBVIOUS
    <3>2. CASE k = m - 1
      <4>1. m # 1
        BY <3>2
      <4>2. r.via = st[m - 1].trying
        BY <1>10, <4>1
      <4> QED BY <2>1, <3>2, <4>2, Zenon
    <3>3. CASE k \in 1..(m - 2)
      BY <1>10, <2>1, <3>3
    <3> QED BY <3>1, <3>2, <3>3
  <2>5. ASSUME NEW s \in Splits, BestSplit(rs, A, f, s) PROVE BestSplit(rs2, A2, f, s)
    <3>1. s # f.trying /\ Partly(rs, A, f.id, f.area, s, {}, AreasOf(f.best))
      BY <2>5 DEF BestSplit
    <3>2. Partly(rs2, A2, f.id, f.area, s, {}, AreasOf(f.best))
      BY <1>12, <2>4, <3>1
    <3> QED BY <2>5, <3>2 DEF BestSplit
  <2>6. ASSUME NEW i \in 1..Len(f.modes) PROVE Kids(rs2, f.id, f.modes[i]) = {}
    <3>1. f.modes[i] # f.trying /\ Kids(rs, f.id, f.modes[i]) = {}
      BY <2>2, <2>3 DEF SplitInTest, FrameFound
    <3>2. r.parent # f.id \/ r.via # f.modes[i]
      BY <2>4, <3>1
    <3>3. \A id, s : r.parent # id \/ r.via # s => Kids(rs2, id, s) = Kids(rs, id, s)
      BY <1>7
    <3> QED BY <3>1, <3>2, <3>3, Zenon
  <2>7. FrameFound(rs2, A2, f)
    BY <2>2, <2>5, <2>6 DEF FrameFound
  <2> QED BY <2>2, <2>7
<1>15. ASSUME NEW k \in 1..(m - 2) PROVE InTest(rs2, A2, st2[k], st2[k + 1].area)
  <2>1. k \in 1..(m - 1) /\ k + 1 \in 1..(m - 1)
    OBVIOUS
  <2>2. st2[k] = st[k] /\ st2[k + 1] = st[k + 1] /\ InTest(rs, A, st[k], st[k + 1].area) /\ st[k].id # r.parent
    BY <1>10, <2>1 DEF Table
  <2> QED BY <1>12, <2>2 DEF InTest
<1>16. \A k \in 1..((m - 1) - 1) : k \in 1..(m - 2)
  OBVIOUS
<1>17. CASE m = 1
  <2>1. CodedFound(rs2, A2, st2, best)
    <3>1. rs2 # Empty /\ Len(rs2) = l + 1 /\ rs2[l + 1] = r
      BY <1>7 DEF Empty
    <3> QED BY <1>6, <1>10, <1>11, <1>17, <3>1 DEF CodedFound
  <2>2. Table(A2, rs2, st2, n, NoResult, best)
    BY <1>7, <1>10, <1>13, <1>14, <1>15, <1>16, <2>1 DEF Table
  <2> QED BY <1>17, <2>2 DEF TableAfter
<1>18. CASE m # 1
  <2>1. PICK p : p = st[m - 1]
    OBVIOUS
  <2>2. m - 1 \in 1..(m - 1) /\ st2[m - 1] = p /\ (m - 1) + 1 = m
    BY <1>18, <2>1
  <2>3. InTest(rs, A, p, top.area) /\ Below(p, top) /\ r.parent = p.id /\ r.via = p.trying
    BY <1>0, <1>10, <1>18, <2>1, <2>2 DEF Table
  <2>4. ASSUME best # {} PROVE ResultFound(rs2, A2, p, best)
    <3>1. PICK kids : kids = Kids(rs, p.id, p.trying)
      OBVIOUS
    <3>2. Kids(rs2, p.id, p.trying) = kids \cup {r}
      BY <1>7, <2>3, <3>1, Zenon
    <3>3. /\ IsOffered(p.area, p.trying)
          /\ AreasOf(kids) \cup ({top.area} \cup ToSet(p.left)) = Parts(p.area, p.trying)
          /\ \A q \in kids : q.area \notin {top.area} \cup ToSet(p.left) /\ q.selected # "NONE"
          /\ \A q, v \in kids : q.area = v.area => q = v
          /\ AreasOf(p.parts) = Cover(A, kids)
      BY <2>3, <3>1 DEF InTest, Partly
    <3>4. top.area \notin ToSet(p.left)
      <4>1. p.left \in Seq(Areas)
        <5>1. m - 1 \in 1..m
          BY <1>9, <2>2
        <5>2. p \in FrameType
          BY <2>1, <5>1
        <5> QED BY <5>2 DEF FrameType
      <4>2. ToSet(p.left) = {p.left[i] : i \in 1..Len(p.left)}
        <5>1. DOMAIN p.left = 1..Len(p.left)
          BY <4>1
        <5> QED BY <5>1, Zenon DEF ToSet
      <4>3. \A i \in 1..Len(p.left) : p.left[i] \in Areas /\ Apart(p.left[i], top.area)
        BY <2>3, <4>1 DEF Below
      <4>4. ~Apart(top.area, top.area)
        BY <1>2, InsideApart
      <4> QED BY <4>2, <4>3, <4>4
    <3>5. AreasOf(kids \cup {r}) = AreasOf(kids) \cup {top.area}
      BY <1>3 DEF AreasOf
    <3>6. Cover(A2, kids \cup {r}) = Cover(A, kids) \cup AreasOf(best)
      <4>1. \A q \in kids : A2[q.id] = A[q.id]
        BY <1>11, <3>1 DEF Kids
      <4> QED BY <1>11, <4>1 DEF Cover
    <3>7. AreasOf(p.parts \cup best) = AreasOf(p.parts) \cup AreasOf(best)
      BY DEF AreasOf
    <3>8. r.selected # "NONE" /\ r.area = top.area
      BY <1>3, <1>6, <2>4
    <3>9. AreasOf(kids \cup {r}) \cup ToSet(p.left) = Parts(p.area, p.trying)
      BY <3>3, <3>5
    <3>10. \A q \in kids \cup {r} : q.area \notin ToSet(p.left) /\ q.selected # "NONE"
      BY <3>3, <3>4, <3>8
    <3>11. \A q, v \in kids \cup {r} : q.area = v.area => q = v
      BY <3>3, <3>8
    <3>12. AreasOf(p.parts \cup best) = Cover(A2, kids \cup {r})
      BY <3>3, <3>6, <3>7
    <3> QED BY <3>2, <3>3, <3>9, <3>10, <3>11, <3>12 DEF ResultFound, Partly
  <2>5. units = NoResult
    <3>1. st # Empty
      BY DEF Empty
    <3> QED BY <3>1 DEF Table, CodedFound
  <2>6. CodedFound(rs2, A2, st2, units)
    BY <2>5 DEF CodedFound
  <2>7. Table(A2, rs2, st2, n, best, units)
    BY <1>7, <1>10, <1>13, <1>14, <1>15, <1>16, <2>2, <2>4, <2>6 DEF Table
  <2> QED BY <1>18, <2>7 DEF TableAfter
<1> QED BY <1>17, <1>18

(* The steps that return a unit keep the table.                             *)
LEMMA ReturnTable ==
  ASSUME RecursionInv, NEW A \in [Nat -> SUBSET Areas], TableOf(A), Return
  PROVE  TableInv'
<1>0. PICK m : m = Len(frames)
  OBVIOUS
<1>1. /\ frames # Empty /\ frames' = Front(frames) /\ rows' = Append(rows, Row(Top))
      /\ nextNodeId' = nextNodeId /\ returned = NoResult
      /\ m = 1 => coded' = Top.best /\ returned' = returned /\ Top.best # {}
      /\ m # 1 => returned' = Top.best /\ coded' = coded
      /\ TypeOK /\ StackInv
  BY <1>0, NothingReturned DEF Return, RecursionInv
<1>2. /\ m \in Nat /\ m > 0 /\ m \in 1..m /\ Top = frames[m] /\ Top \in FrameType
      /\ frames \in Seq(FrameType) /\ rows \in Seq(RowType) /\ nextNodeId \in Nat
  BY <1>0, <1>1, TopFacts DEF TypeOK
<1>3. Table(A, rows, frames, nextNodeId, returned, coded)
  BY DEF TableOf
<1>4. /\ \A k \in 1..m : FrameInv(frames[k])
      /\ \A k \in 1..(m - 1) : Below(frames[k], frames[m])
  <2>1. \A k \in 1..(m - 1) : k \in 1..m /\ k < m
    BY <1>2
  <2> QED BY <1>0, <1>1, <1>2, <2>1 DEF StackInv
<1>5. PICK st2 : st2 = Front(frames)
  OBVIOUS
<1>6. /\ Len(st2) = m - 1 /\ \A k \in 1..(m - 1) : st2[k] = frames[k]
      /\ st2 # Empty => m # 1
      /\ m = 1 => st2 = Empty
  <2>1. st2 = SubSeq(frames, 1, m - 1)
    BY <1>0, <1>5 DEF Front
  <2>2. m - 1 \in 0..Len(frames)
    BY <1>0, <1>2
  <2>3. st2 \in Seq(FrameType) /\ Len(st2) = m - 1 /\ \A k \in 1..(m - 1) : st2[k] = frames[k]
    BY <1>2, <2>1, <2>2
  <2> QED BY <1>2, <2>3 DEF Empty
<1>7. PICK r : r = Row(Top)
  OBVIOUS
<1>8. PICK A2 : A2 = [A EXCEPT ![r.id] = AreasOf(Top.best)]
  OBVIOUS
<1>9. A2 \in [Nat -> SUBSET Areas]
  <2>1. AreasOf(Top.best) \in SUBSET Areas
    <3>1. Top.best \in SUBSET Units
      BY <1>2 DEF FrameType
    <3> QED BY <3>1 DEF AreasOf, Units
  <2> QED BY <1>8, <2>1
<1>10. PICK rs2 : rs2 = Append(rows, r)
  OBVIOUS
<1>11. PICK b : b = Top.best
  OBVIOUS
<1>12. TableAfter(A2, rs2, st2, nextNodeId, m, b, coded)
  <2>1. b = frames[m].best /\ (m = 1 => b # {}) /\ r = Row(frames[m]) /\ A2 = [A EXCEPT ![r.id] = AreasOf(b)]
    BY <1>1, <1>2, <1>7, <1>8, <1>11
  <2>2. m = Len(frames) /\ m \in Nat /\ m > 0 /\ frames \in Seq(FrameType) /\ rows \in Seq(RowType) /\ nextNodeId \in Nat
    BY <1>0, <1>2
  <2>3. PICK fs, rs, n, u, t : fs = frames /\ rs = rows /\ n = nextNodeId /\ u = coded /\ t = returned
    OBVIOUS
  <2>4. /\ m = Len(fs) /\ m \in Nat /\ m > 0 /\ fs \in Seq(FrameType) /\ rs \in Seq(RowType) /\ n \in Nat
        /\ Table(A, rs, fs, n, t, u)
        /\ \A k \in 1..m : FrameInv(fs[k])
        /\ \A k \in 1..(m - 1) : Below(fs[k], fs[m])
        /\ b = fs[m].best /\ r = Row(fs[m]) /\ rs2 = Append(rs, r)
        /\ \A k \in 1..(m - 1) : st2[k] = fs[k]
    BY <1>3, <1>4, <1>6, <1>10, <2>1, <2>2, <2>3
  <2>5. Len(st2) = m - 1 /\ (st2 # Empty => m # 1) /\ (m = 1 => st2 = Empty)
    BY <1>6
  <2>6. TableAfter(A2, rs2, st2, n, m, b, u)
    BY <2>1, <2>4, <2>5, TableReturned
  <2> QED BY <2>3, <2>6
<1>13. Table(A2, rows', frames', nextNodeId', returned', coded')
  <2>1. rows' = rs2 /\ frames' = st2 /\ nextNodeId' = nextNodeId
    BY <1>1, <1>5, <1>7, <1>10
  <2>2. CASE m = 1
    BY <1>1, <1>11, <1>12, <2>1, <2>2 DEF TableAfter
  <2>3. CASE m # 1
    BY <1>1, <1>11, <1>12, <2>1, <2>3 DEF TableAfter
  <2> QED BY <2>2, <2>3
<1> QED BY <1>9, <1>13 DEF TableInv

(* The search starts with an empty table,                                   *)
LEMMA InitTable == Init => TableInv
<1> SUFFICES ASSUME Init PROVE TableInv
  OBVIOUS
<1>1. PICK f : f = Frame(0, -1, "NONE", Ctu, Empty)
  OBVIOUS
<1>2. frames = <<f>> /\ nextNodeId = 1 /\ returned = NoResult /\ rows = <<>> /\ coded = NoResult
  BY <1>1 DEF Init, Empty
<1>3. f.id = 0 /\ f.parent = -1 /\ f.best = {}
  BY <1>1 DEF Frame
<1>4. Len(frames) = 1 /\ frames[1] = f /\ Len(rows) = 0 /\ frames # Empty
  BY <1>2 DEF Empty
<1>5. (\A i \in 1..Len(rows) : FALSE) /\ RowSet(rows) = {}
  BY <1>4 DEF RowSet
<1>6. \A k \in 1..Len(frames) : k = 1
  BY <1>4
<1>7. IdsOK(rows, frames, nextNodeId)
  BY <1>2, <1>3, <1>4, <1>5, <1>6 DEF IdsOK
<1>8. PICK A : A = [i \in Nat |-> {}]
  OBVIOUS
<1>9. FrameFound(rows, A, f)
  BY <1>3, <1>5 DEF FrameFound, Kids
<1>10. \A k \in 1..(Len(frames) - 1) : FALSE
  BY <1>4
<1>11. Table(A, rows, frames, nextNodeId, returned, coded)
  BY <1>2, <1>4, <1>5, <1>6, <1>7, <1>9, <1>10 DEF Table, CodedFound
<1>12. A \in [Nat -> SUBSET Areas]
  BY <1>8
<1> QED BY <1>11, <1>12 DEF TableInv

(* every step of it keeps the table what it is,                             *)
LEMMA NextTable ==
  ASSUME RecursionInv, TableInv, [Next]_vars
  PROVE  TableInv'
<1>1. PICK A \in [Nat -> SUBSET Areas] : TableOf(A)
  BY DEF TableInv, TableOf
<1>2. TableOf(A)' => TableInv'
  BY <1>1 DEF TableInv, TableOf
<1>3. CASE UNCHANGED vars
  <2>1. TableOf(A)'
    BY <1>1, <1>3 DEF TableOf, vars
  <2> QED BY <1>2, <2>1
<1>4. CASE Return
  BY <1>1, <1>4, ReturnTable
<1>5. CASE ReuseCached \/ CodeUnsplit \/ LeaveSplit \/ RefuseSplit \/ StoreUnsplit
  BY <1>1, <1>2, <1>5, ModesTable
<1>6. CASE TestSplit \/ AbortSplit \/ NextPart \/ CompleteSplit
  BY <1>1, <1>2, <1>6, TestTable, AbortTable, NextPartTable, CompleteTable
<1> QED BY <1>3, <1>4, <1>5, <1>6 DEF Next

(* so that it always is.                                                    *)
THEOREM TableInvariance == Spec => []TableInv
<1>1. RecursionInv /\ TableInv /\ [Next]_vars => TableInv'
  BY NextTable
<1> QED BY InitTable, RecursionInvariance, <1>1, PTL DEF Spec

-----------------------------------------------------------------------------
(* The rows the reader keeps *)

(* A set that has 0 and goes on from each number below n.                  *)
Reaches(S, n) == 0 \in S /\ \A i \in 0..(n - 1) : i \in S => i + 1 \in S

(* What holds at 0 and goes on from each number below n holds up to n.      *)
LEMMA UpTo ==
  ASSUME NEW n \in Nat, NEW S, Reaches(S, n)
  PROVE  \A i \in 0..n : i \in S
<1> DEFINE T == {i \in 0..n : i \notin S}
<1> SUFFICES ASSUME T # {} PROVE FALSE
  OBVIOUS
<1>1. T \in SUBSET Nat
  OBVIOUS
<1>2. PICK m \in T : \A i \in T : m <= i
  <2> HIDE DEF T
  <2> QED BY <1>1, LeastNatural
<1>3. m \in 1..n /\ m - 1 \in 0..(n - 1) /\ (m - 1) + 1 = m
  BY DEF Reaches
<1>4. m - 1 \in T
  BY <1>3 DEF Reaches
<1> QED BY <1>2, <1>3, <1>4

(* The rows kept after so many steps backwards through the file.            *)
IsKept(v, rs, n) == v = [i \in 0..n |-> IF i = 0 THEN {} ELSE Keep(v[i - 1], rs[Len(rs) + 1 - i])]

(* The reader goes through such steps.                                      *)
LEMMA KeptExist ==
  ASSUME NEW rs, NEW n \in Nat
  PROVE  \E v : IsKept(v, rs, n)
<1> DEFINE S == {m \in 0..n : \E v : IsKept(v, rs, m)}
<1>1. 0 \in S
  <2>1. IsKept([i \in 0..0 |-> {}], rs, 0)
    BY DEF IsKept
  <2> QED BY <2>1
<1>2. ASSUME NEW m \in 0..(n - 1), m \in S PROVE m + 1 \in S
  <2>1. PICK v : IsKept(v, rs, m)
    BY <1>2
  <2> DEFINE w == [i \in 0..(m + 1) |-> IF i <= m THEN v[i] ELSE Keep(v[m], rs[Len(rs) + 1 - (m + 1)])]
  <2>2. IsKept(w, rs, m + 1)
    <3>1. \A i \in 0..m : v[i] = IF i = 0 THEN {} ELSE Keep(v[i - 1], rs[Len(rs) + 1 - i])
      BY <2>1 DEF IsKept
    <3>2. ASSUME NEW i \in 0..(m + 1)
          PROVE  w[i] = IF i = 0 THEN {} ELSE Keep(w[i - 1], rs[Len(rs) + 1 - i])
      <4>1. CASE i \in 0..m
        <5>1. w[i] = v[i] /\ (i # 0 => w[i - 1] = v[i - 1])
          BY <4>1
        <5> HIDE DEF w
        <5> QED BY <3>1, <4>1, <5>1
      <4>2. CASE i = m + 1
        <5>1. w[i] = Keep(v[m], rs[Len(rs) + 1 - (m + 1)]) /\ w[i - 1] = v[m] /\ i # 0
          BY <4>2
        <5> HIDE DEF w
        <5> QED BY <4>2, <5>1
      <4>3. i \in 0..m \/ i = m + 1
        OBVIOUS
      <4> QED BY <4>1, <4>2, <4>3
    <3>3. w = [i \in 0..(m + 1) |-> w[i]]
      OBVIOUS
    <3> HIDE DEF w
    <3> QED BY <3>2, <3>3 DEF IsKept
  <2> HIDE DEF w
  <2> QED BY <2>2
<1> HIDE DEF S
<1>3. Reaches(S, n)
  BY <1>1, <1>2 DEF Reaches
<1>4. n \in S
  BY <1>3, UpTo
<1> QED BY <1>4 DEF S

(* A row is kept if it belongs to a kept row.                               *)
Child(q, p) == q.parent = p.id /\ q.via = p.selected
Wanted(kept, row) == row.parent = -1 \/ \E p \in kept : Child(row, p)

(* All such rows are, as a parent is read before its parts.                 *)
LEMMA KeptAre ==
  ASSUME rows \in Seq(RowType), NEW st, NEW n, IdsOK(rows, st, n)
  PROVE  /\ SelectedRows \subseteq RowSet(rows)
         /\ \A r \in RowSet(rows) : r \in SelectedRows <=> Wanted(SelectedRows, r)
<1>0. PICK rs, l : rs = rows /\ l = Len(rows)
  OBVIOUS
<1>1. PICK v : v = CHOOSE u : IsKept(u, rs, l)
  OBVIOUS
<1>2. l \in Nat /\ l = Len(rs)
  BY <1>0
<1>3. IsKept(v, rs, l)
  BY <1>1, <1>2, KeptExist
<1>4. SelectedRows = v[l]
  BY <1>0, <1>1 DEF SelectedRows, IsKept
<1>5. v[0] = {} /\ \A i \in 0..(l - 1) : v[i + 1] = Keep(v[i], rs[l - i])
  <2>1. \A i \in 0..l : v[i] = IF i = 0 THEN {} ELSE Keep(v[i - 1], rs[Len(rs) + 1 - i])
    BY <1>3 DEF IsKept
  <2>2. 0 \in 0..l
    BY <1>2
  <2>3. ASSUME NEW i \in 0..(l - 1) PROVE v[i + 1] = Keep(v[i], rs[l - i])
    <3>1. i + 1 \in 0..l /\ i + 1 # 0 /\ (i + 1) - 1 = i /\ l + 1 - (i + 1) = l - i
      BY <1>2
    <3>2. v[i + 1] = Keep(v[(i + 1) - 1], rs[l + 1 - (i + 1)])
      BY <1>2, <2>1, <3>1
    <3> QED BY <3>1, <3>2
  <2> QED BY <2>1, <2>2, <2>3
<1>6. \A i, j \in 1..l : (rs[i].id = rs[j].id => i = j) /\ (rs[i].parent = rs[j].id => i < j)
  BY <1>0 DEF IdsOK
<1> DEFINE Done(i) == {j \in 1..l : j > l - i}
           S == {i \in 0..l : /\ \A r \in v[i] : \E j \in Done(i) : r = rs[j]
                              /\ \A j \in Done(i) : rs[j] \in v[i] <=> Wanted(v[i], rs[j])}
<1>7. 0 \in S
  BY <1>2, <1>5
<1>8. ASSUME NEW i \in 0..(l - 1), i \in S PROVE i + 1 \in S
  <2>1. PICK e, k : k = l - i /\ e = rs[k]
    OBVIOUS
  <2>2. /\ k \in 1..l /\ i + 1 \in 0..l
        /\ \A j : j \in Done(i + 1) <=> j = k \/ j \in Done(i)
        /\ \A j \in Done(i) : j \in 1..l /\ j # k /\ k < j /\ ~(j < k)
    BY <1>2, <2>1
  <2> HIDE DEF Done
  <2>3. /\ \A r \in v[i] : \E j \in Done(i) : r = rs[j]
        /\ \A j \in Done(i) : rs[j] \in v[i] <=> Wanted(v[i], rs[j])
    BY <1>8
  <2>4. v[i + 1] = IF Wanted(v[i], e) THEN v[i] \cup {e} ELSE v[i]
    BY <1>5, <2>1 DEF Keep, Wanted, Child
  <2>5. /\ \A j \in Done(i) : rs[j] # e
        /\ e \notin v[i]
        /\ \A j \in Done(i + 1) : rs[j].parent # e.id
    <3>1. \A j \in Done(i) : rs[j] # e /\ rs[j].parent # e.id
      BY <1>6, <2>1, <2>2
    <3>2. e.parent # e.id
      BY <1>6, <2>1, <2>2
    <3> QED BY <2>1, <2>2, <2>3, <3>1, <3>2
  <2>6. \A j \in Done(i + 1) : Wanted(v[i + 1], rs[j]) <=> Wanted(v[i], rs[j])
    BY <2>4, <2>5 DEF Wanted, Child
  <2>7. \A r \in v[i + 1] : \E j \in Done(i + 1) : r = rs[j]
    BY <2>1, <2>2, <2>3, <2>4
  <2>8. ASSUME NEW j \in Done(i + 1) PROVE rs[j] \in v[i + 1] <=> Wanted(v[i + 1], rs[j])
    <3>1. CASE j = k
      BY <2>1, <2>4, <2>5, <2>6, <3>1
    <3>2. CASE j \in Done(i)
      BY <2>3, <2>4, <2>5, <2>6, <3>2
    <3> QED BY <2>2, <3>1, <3>2
  <2> QED BY <2>2, <2>7, <2>8
<1> HIDE DEF S
<1>9. Reaches(S, l)
  BY <1>7, <1>8 DEF Reaches
<1>10. l \in S
  BY <1>2, <1>9, UpTo
<1>11. Done(l) = 1..l
  BY <1>2
<1> HIDE DEF Done
<1>12. /\ \A r \in v[l] : \E j \in 1..l : r = rs[j]
       /\ \A j \in 1..l : rs[j] \in v[l] <=> Wanted(v[l], rs[j])
  BY <1>10, <1>11 DEF S
<1>13. RowSet(rows) = {rs[j] : j \in 1..l}
  BY <1>0 DEF RowSet
<1> QED BY <1>4, <1>12, <1>13

-----------------------------------------------------------------------------
(* The tree of the kept rows *)

(* The kept rows are a tree: each but the root has a parent, that stands    *)
(* behind it in the file, and the children of a split row are its parts.    *)
Sub(K, p) == {q \in K : Child(q, p)}
IsTree(K, A, root, at) ==
  /\ root \in K /\ at \in [K -> Nat]
  /\ \A p, q \in K : at[p] = at[q] => p = q
  /\ \A q \in K : at[q] <= at[root] /\ q.area \in Areas /\ q.selected \in Splits \cup {"NS"}
  /\ \A q \in K : q # root => \E p \in K : Child(q, p)
  /\ \A p, q \in K : Child(q, p) => at[q] < at[p] /\ p.selected \in Splits
  /\ \A p \in K : p.selected = "NS" => A[p.id] = {p.area}
  /\ \A p \in K : p.selected \in Splits =>
       /\ IsOffered(p.area, p.selected) /\ AreasOf(Sub(K, p)) = Parts(p.area, p.selected)
       /\ A[p.id] = Cover(A, Sub(K, p))
       /\ \A q, r \in Sub(K, p) : q.area = r.area => q = r

(* The coded units are those of the unsplit rows.                           *)
LEMMA TreeCovers ==
  ASSUME NEW K, NEW A, NEW root, NEW at, IsTree(K, A, root, at)
  PROVE  AreasOf({r \in K : r.selected = "NS"}) = A[root.id]
<1>1. /\ root \in K
      /\ \A q \in K : at[q] \in Nat /\ at[q] <= at[root]
      /\ \A q \in K : q.selected \in Splits \cup {"NS"}
      /\ \A q \in K : q # root => \E p \in K : q \in Sub(K, p)
      /\ \A p \in K : \A q \in Sub(K, p) : q \in K /\ at[q] < at[p] /\ p.selected \in Splits
      /\ \A p \in K : p.selected = "NS" => A[p.id] = {p.area}
      /\ \A p \in K : p.selected \in Splits => A[p.id] = UNION {A[q.id] : q \in Sub(K, p)}
  BY DEF IsTree, Sub, Cover
<1>2. ASSUME NEW a \in A[root.id] PROVE \E r \in K : r.selected = "NS" /\ r.area = a
  <2> DEFINE T == {at[q] : q \in {p \in K : a \in A[p.id]}}
  <2>1. T \in SUBSET Nat /\ T # {}
    BY <1>1, <1>2
  <2>2. PICK n \in T : \A i \in T : n <= i
    <3> HIDE DEF T
    <3> QED BY <2>1, LeastNatural
  <2>3. PICK p \in K : a \in A[p.id] /\ n = at[p]
    OBVIOUS
  <2>4. CASE p.selected = "NS"
    BY <1>1, <2>3, <2>4
  <2>5. CASE p.selected \in Splits
    <3>1. PICK q \in Sub(K, p) : a \in A[q.id]
      BY <1>1, <2>3, <2>5
    <3>2. at[q] \in T /\ at[q] < at[p] /\ at[q] \in Nat /\ at[p] \in Nat
      BY <1>1, <3>1
    <3> HIDE DEF T
    <3>3. at[p] <= at[q]
      BY <2>2, <2>3, <3>2
    <3> QED BY <3>2, <3>3
  <2> QED BY <1>1, <2>3, <2>4, <2>5
<1>3. ASSUME NEW r \in K, r.selected = "NS" PROVE r.area \in A[root.id]
  <2> DEFINE a == r.area
             h(q) == at[root] - at[q]
             T == {h(q) : q \in {p \in K : a \in A[p.id]}}
  <2>1. T \in SUBSET Nat /\ T # {}
    <3>1. \A q \in K : at[root] - at[q] \in Nat
      BY <1>1
    <3>2. r \in {p \in K : a \in A[p.id]}
      BY <1>1, <1>3
    <3> QED BY <3>1, <3>2
  <2>2. PICK n \in T : \A i \in T : n <= i
    <3> HIDE DEF T
    <3> QED BY <2>1, LeastNatural
  <2>3. PICK q \in K : a \in A[q.id] /\ n = h(q)
    OBVIOUS
  <2>4. CASE q = root
    BY <2>3, <2>4
  <2>5. CASE q # root
    <3>1. PICK p \in K : q \in Sub(K, p)
      BY <1>1, <2>5
    <3>2. at[q] < at[p] /\ at[p] \in Nat /\ at[q] \in Nat /\ at[root] \in Nat /\ a \in A[p.id]
      <4>1. at[q] < at[p] /\ p.selected \in Splits
        BY <1>1, <3>1
      <4>2. A[p.id] = UNION {A[o.id] : o \in Sub(K, p)}
        BY <1>1, <4>1
      <4>3. a \in A[p.id]
        BY <2>3, <3>1, <4>2
      <4>4. at[p] \in Nat /\ at[q] \in Nat /\ at[root] \in Nat
        BY <1>1
      <4> QED BY <4>1, <4>3, <4>4
    <3>3. h(p) \in T /\ h(p) < h(q)
      <4>1. h(p) \in T
        BY <3>2
      <4>2. h(p) < h(q)
        BY <3>2
      <4> QED BY <4>1, <4>2
    <3>4. h(q) <= h(p)
      <4> HIDE DEF T, h
      <4> QED BY <2>2, <2>3, <3>3
    <3>5. at[root] - at[p] < at[root] - at[q] /\ at[root] - at[q] <= at[root] - at[p]
      BY <3>3, <3>4
    <3> QED BY <3>2, <3>5
  <2> QED BY <2>4, <2>5
<1> QED BY <1>2, <1>3 DEF AreasOf

(* A part of a split has less samples than the unit.                        *)
Within(a, b) == Inside(a, b) /\ ~Inside(b, a)

(* The parts of a split lie in the unit, and apart from each other.         *)
LEMMA PartsWithin ==
  ASSUME NEW a \in Areas, NEW s, IsOffered(a, s)
  PROVE  /\ \A b \in Parts(a, s) : b \in Areas /\ Within(b, a)
         /\ \A b, c \in Parts(a, s) : b # c => Apart(b, c)
<1>1. PICK q : q = SubAreas(a, s)
  OBVIOUS
<1>2. PartsFit(q, a) /\ s \in Splits
  BY <1>1, OfferedFits DEF IsOffered
<1>3. Len(q) >= 2
  <2> DEFINE two(p1, p2) == <<p1, p2>>
             three(p1, p2, p3) == <<p1, p2, p3>>
             four(p1, p2, p3, p4) == <<p1, p2, p3, p4>>
  <2>1. \E p1, p2, p3, p4 : q = two(p1, p2) \/ q = three(p1, p2, p3) \/ q = four(p1, p2, p3, p4)
    <3> HIDE DEF two, three, four
    <3>1. CASE s = "QUAD"
      <4>1. \E p1, p2, p3, p4 : q = <<p1, p2, p3, p4>>
        BY <1>1, <3>1 DEF SubAreas
      <4> QED BY <4>1 DEF four
    <3>2. CASE s = "HORZ"
      <4>1. \E p1, p2 : q = <<p1, p2>>
        BY <1>1, <3>2 DEF SubAreas
      <4> QED BY <4>1 DEF two
    <3>3. CASE s = "VERT"
      <4>1. \E p1, p2 : q = <<p1, p2>>
        BY <1>1, <3>3 DEF SubAreas
      <4> QED BY <4>1 DEF two
    <3>4. CASE s = "TRIH"
      <4>1. \E p1, p2, p3 : q = <<p1, p2, p3>>
        BY <1>1, <3>4 DEF SubAreas
      <4> QED BY <4>1 DEF three
    <3>5. CASE s = "TRIV"
      <4>1. \E p1, p2, p3 : q = <<p1, p2, p3>>
        BY <1>1, <3>5 DEF SubAreas
      <4> QED BY <4>1 DEF three
    <3> QED BY <1>2, <3>1, <3>2, <3>3, <3>4, <3>5 DEF Splits
  <2> QED BY <2>1
<1>4. /\ q \in Seq(Areas) /\ Len(q) \in Nat /\ 1 \in 1..Len(q) /\ 2 \in 1..Len(q) /\ StartsAt(q[1], a)
      /\ \A i \in 1..Len(q) : q[i] \in Areas /\ Inside(q[i], a) /\ (i # 1 => ~StartsAt(q[i], a))
      /\ \A i, j \in 1..Len(q) : i # j => Apart(q[i], q[j])
  <2>1. q \in Seq(Areas)
    BY <1>2 DEF PartsFit
  <2>2. Len(q) \in Nat /\ 1 \in 1..Len(q) /\ 2 \in 1..Len(q) /\ \A i \in 1..Len(q) : q[i] \in Areas
    BY <1>3, <2>1
  <2> QED BY <1>2, <2>1, <2>2 DEF PartsFit
<1>5. Parts(a, s) = {q[i] : i \in 1..Len(q)}
  <2>1. DOMAIN q = 1..Len(q)
    BY <1>4
  <2> QED BY <1>1, <2>1, Zenon DEF Parts, ToSet
<1>6. ASSUME NEW i \in 1..Len(q) PROVE ~Inside(a, q[i])
  <2>1. CASE i = 1
    <3>1. Apart(q[1], q[2]) /\ Inside(q[2], a) /\ q[1] \in Areas /\ q[2] \in Areas
      BY <1>4
    <3>2. Inside(a, q[1]) => Inside(q[2], q[1])
      BY <3>1, InsideApart
    <3>3. Apart(q[2], q[1]) /\ Inside(q[2], q[2])
      BY <3>1, InsideApart
    <3>4. ~Inside(q[2], q[1])
      BY <3>1, <3>3, InsideApart
    <3> QED BY <2>1, <3>2, <3>4
  <2>2. CASE i # 1
    <3>1. Inside(q[i], a) /\ ~StartsAt(q[i], a) /\ q[i] \in Areas
      BY <1>4, <2>2
    <3> QED BY <3>1, AreaType DEF Inside, StartsAt
  <2> QED BY <2>1, <2>2
<1>7. \A i \in 1..Len(q) : q[i] \in Areas /\ Within(q[i], a)
  BY <1>4, <1>6 DEF Within
<1> QED BY <1>4, <1>5, <1>7

(* What lies in one of two areas that are apart is apart from the other.    *)
LEMMA WithinFacts ==
  ASSUME NEW a \in Areas, NEW b \in Areas, NEW c \in Areas
  PROVE  /\ Within(a, b) /\ Within(b, c) => Within(a, c)
         /\ Within(a, b) /\ Apart(b, c) => Apart(a, c)
         /\ Within(a, b) /\ Apart(c, b) => Apart(c, a)
         /\ Apart(a, b) \/ Within(a, b) => a # b
<1>1. Within(a, b) /\ Within(b, c) => Within(a, c)
  BY InsideApart DEF Within
<1>2. Within(a, b) /\ Apart(b, c) => Apart(a, c)
  <2>1. Apart(b, c) => Apart(c, b)
    BY InsideApart
  <2>2. Inside(a, b) /\ Apart(c, b) => Apart(c, a)
    BY InsideApart
  <2>3. Apart(c, a) => Apart(a, c)
    BY InsideApart
  <2> QED BY <2>1, <2>2, <2>3 DEF Within
<1>3. Within(a, b) /\ Apart(c, b) => Apart(c, a)
  BY InsideApart DEF Within
<1>4. Inside(a, a) /\ ~Apart(a, a)
  BY InsideApart
<1> QED BY <1>1, <1>2, <1>3, <1>4 DEF Within

(* Two rows of a tree, in their order in the file: the first one is a part  *)
(* of a part of the other, or they have no sample in common.                *)
Ordered(K, at, q, r) ==
  \A p \in K : Child(q, p) =>
    /\ at[r] < at[p] => Apart(q.area, r.area)
    /\ p = r => Within(q.area, r.area)
    /\ at[p] < at[r] => Apart(q.area, r.area) \/ Within(q.area, r.area)

(* The rows of a tree are ordered like this: of two rows that are not, the  *)
(* later ones in the file are not either.                                   *)
LEMMA TreeOrdered ==
  ASSUME NEW K, NEW A, NEW root, NEW at, IsTree(K, A, root, at)
  PROVE  \A q, r \in K : at[q] < at[r] => Ordered(K, at, q, r)
<1>1. /\ root \in K
      /\ \A q \in K : at[q] \in Nat /\ at[q] <= at[root] /\ q.area \in Areas
      /\ \A p, q \in K : at[p] = at[q] => p = q
      /\ \A q \in K : q # root => \E p \in K : Child(q, p)
      /\ \A p, q \in K : Child(q, p) => at[q] < at[p]
  BY DEF IsTree
<1>1b. \A p \in K : \A q \in Sub(K, p) :
         /\ IsOffered(p.area, p.selected) /\ AreasOf(Sub(K, p)) = Parts(p.area, p.selected)
         /\ \A r \in Sub(K, p) : q.area = r.area => q = r
  <2>1. \A p \in K : \A q \in Sub(K, p) : p.selected \in Splits
    BY DEF IsTree, Sub
  <2> QED BY <2>1 DEF IsTree
<1>1c. \A p \in K : \A q \in Sub(K, p) : q.area \in Parts(p.area, p.selected)
  <2>1. \A p \in K : \A q \in Sub(K, p) : q.area \in AreasOf(Sub(K, p))
    BY DEF AreasOf
  <2> QED BY <1>1b, <2>1
<1>1d. \A p, q \in K : Child(q, p) => q \in Sub(K, p)
  BY DEF Sub
<1>2. \A p, q \in K : Child(q, p) => Within(q.area, p.area)
  <2> SUFFICES ASSUME NEW p \in K, NEW q \in K, Child(q, p) PROVE Within(q.area, p.area)
    OBVIOUS
  <2>1. p.area \in Areas /\ IsOffered(p.area, p.selected) /\ q.area \in Parts(p.area, p.selected)
    BY <1>1, <1>1b, <1>1c, <1>1d
  <2> QED BY <2>1, PartsWithin
<1>3. \A p, q, r \in K : Child(q, p) /\ Child(r, p) /\ q # r => Apart(q.area, r.area)
  <2> SUFFICES ASSUME NEW p \in K, NEW q \in K, NEW r \in K, Child(q, p), Child(r, p), q # r
               PROVE  Apart(q.area, r.area)
    OBVIOUS
  <2>1. /\ p.area \in Areas /\ IsOffered(p.area, p.selected)
        /\ q.area \in Parts(p.area, p.selected) /\ r.area \in Parts(p.area, p.selected)
        /\ q.area # r.area
    BY <1>1, <1>1b, <1>1c, <1>1d
  <2> QED BY <2>1, PartsWithin
<1> DEFINE h(q, r) == (at[root] - at[q]) + (at[root] - at[r])
           Bad(q, r) == at[q] < at[r] /\ ~Ordered(K, at, q, r)
           T == {n \in Nat : \E q, r \in K : Bad(q, r) /\ n = h(q, r)}
<1>4. SUFFICES ASSUME T # {} PROVE FALSE
  <2>1. \A q, r \in K : h(q, r) \in Nat
    BY <1>1
  <2> HIDE DEF h
  <2> QED BY <2>1
<1>5. PICK n \in T : \A i \in T : n <= i
  <2>1. T \in SUBSET Nat
    OBVIOUS
  <2> HIDE DEF T
  <2> QED BY <1>4, <2>1, LeastNatural
<1>6. PICK q, r \in K : Bad(q, r) /\ n = h(q, r)
  OBVIOUS
<1>7. ASSUME NEW u \in K, NEW v \in K, at[u] < at[v], at[q] + at[r] < at[u] + at[v] PROVE Ordered(K, at, u, v)
  <2>1. /\ at[q] \in Nat /\ at[r] \in Nat /\ at[u] \in Nat /\ at[v] \in Nat /\ at[root] \in Nat
        /\ at[u] <= at[root] /\ at[v] <= at[root] /\ at[q] <= at[root] /\ at[r] <= at[root]
    BY <1>1
  <2>2. h(u, v) \in Nat /\ h(u, v) < h(q, r)
    BY <1>7, <2>1
  <2>3. h(u, v) \notin T
    <3>1. h(q, r) \in Nat
      BY <2>1
    <3> HIDE DEF T, h
    <3>2. h(u, v) \in T => h(q, r) <= h(u, v)
      BY <1>5, <1>6
    <3> QED BY <2>2, <3>1, <3>2
  <2> HIDE DEF h
  <2> QED BY <1>7, <2>2, <2>3
<1> HIDE DEF T, h
<1>8. at[q] < at[r] /\ at[q] \in Nat /\ at[r] \in Nat /\ q.area \in Areas /\ r.area \in Areas
  BY <1>1, <1>6
<1>9. ASSUME NEW p \in K, Child(q, p)
      PROVE  /\ at[r] < at[p] => Apart(q.area, r.area)
             /\ p = r => Within(q.area, r.area)
             /\ at[p] < at[r] => Apart(q.area, r.area) \/ Within(q.area, r.area)
  <2>1. Within(q.area, p.area) /\ at[q] < at[p] /\ at[p] \in Nat /\ p.area \in Areas
    BY <1>1, <1>2, <1>9
  <2>2. ASSUME at[r] < at[p] PROVE Apart(q.area, r.area)
    <3>1. PICK o \in K : Child(r, o)
      <4>1. r # root
        BY <1>1, <1>8, <2>1, <2>2
      <4> QED BY <1>1, <4>1
    <3>2. Within(r.area, o.area) /\ at[r] < at[o] /\ at[o] \in Nat /\ o.area \in Areas
      BY <1>1, <1>2, <3>1
    <3>3. CASE o = p
      <4>1. q # r
        BY <1>8
      <4> QED BY <1>3, <1>9, <3>1, <3>3, <4>1
    <3>4. CASE at[o] < at[p]
      <4>1. at[q] < at[o] /\ at[q] + at[r] < at[q] + at[o]
        BY <1>8, <3>2
      <4>2. Ordered(K, at, q, o)
        BY <1>7, <4>1
      <4>3. Apart(q.area, o.area)
        BY <1>9, <3>4, <4>2 DEF Ordered
      <4> QED BY <1>8, <3>2, <4>3, WithinFacts
    <3>5. CASE at[p] < at[o]
      <4>1. at[q] + at[r] < at[r] + at[p]
        BY <1>8, <2>1
      <4>2. Ordered(K, at, r, p)
        BY <1>7, <2>2, <4>1
      <4>3. Apart(r.area, p.area)
        BY <3>1, <3>5, <4>2 DEF Ordered
      <4>4. Apart(r.area, q.area)
        BY <1>8, <2>1, <4>3, WithinFacts
      <4> QED BY <1>8, <4>4, InsideApart
    <3>6. at[o] = at[p] => o = p
      BY <1>1
    <3>7. at[o] < at[p] \/ at[p] < at[o] \/ at[o] = at[p]
      BY <2>1, <3>2
    <3> QED BY <3>3, <3>4, <3>5, <3>6, <3>7
  <2>3. ASSUME at[p] < at[r] PROVE Apart(q.area, r.area) \/ Within(q.area, r.area)
    <3>1. PICK o \in K : Child(p, o)
      <4>1. p # root
        BY <1>1, <1>8, <2>1, <2>3
      <4> QED BY <1>1, <4>1
    <3>2. Ordered(K, at, p, r)
      <4>1. at[q] + at[r] < at[p] + at[r]
        BY <1>8, <2>1
      <4> QED BY <1>7, <2>3, <4>1
    <3>3. Apart(p.area, r.area) \/ Within(p.area, r.area)
      <4>1. at[o] < at[r] \/ at[r] < at[o] \/ o = r
        <5>1. at[o] \in Nat /\ (at[o] = at[r] => o = r)
          BY <1>1
        <5> QED BY <1>8, <5>1
      <4> QED BY <3>1, <3>2, <4>1 DEF Ordered
    <3> QED BY <1>8, <2>1, <3>3, WithinFacts
  <2> QED BY <2>1, <2>2, <2>3
<1>10. Ordered(K, at, q, r)
  BY <1>9 DEF Ordered
<1> QED BY <1>6, <1>10

(* No two rows of a tree have the same area.                                *)
LEMMA TreeApart ==
  ASSUME NEW K, NEW A, NEW root, NEW at, IsTree(K, A, root, at)
  PROVE  \A q, r \in K : q.area = r.area => q = r
<1>1. /\ root \in K
      /\ \A q \in K : at[q] \in Nat /\ at[q] <= at[root] /\ q.area \in Areas
      /\ \A p, q \in K : at[p] = at[q] => p = q
      /\ \A q \in K : q # root => \E p \in K : Child(q, p)
  BY DEF IsTree
<1>2. ASSUME NEW q \in K, NEW r \in K, at[q] < at[r] PROVE q.area # r.area
  <2>1. Ordered(K, at, q, r)
    BY <1>2, TreeOrdered
  <2>2. PICK p \in K : Child(q, p)
    <3>1. at[q] \in Nat /\ at[r] \in Nat /\ at[r] <= at[root] /\ at[root] \in Nat
      BY <1>1
    <3>2. q # root
      BY <1>2, <3>1
    <3> QED BY <1>1, <3>2
  <2>3. at[p] < at[r] \/ at[r] < at[p] \/ p = r
    <3>1. at[p] \in Nat /\ at[r] \in Nat /\ (at[p] = at[r] => p = r)
      BY <1>1
    <3> QED BY <3>1
  <2>4. Apart(q.area, r.area) \/ Within(q.area, r.area)
    BY <2>1, <2>2, <2>3 DEF Ordered
  <2> QED BY <1>1, <2>4, WithinFacts
<1>3. SUFFICES ASSUME NEW q \in K, NEW r \in K, q.area = r.area PROVE q = r
  OBVIOUS
<1>4. ~(at[q] < at[r]) /\ ~(at[r] < at[q])
  BY <1>2, <1>3
<1>5. at[q] \in Nat /\ at[r] \in Nat
  BY <1>1
<1>6. at[q] = at[r]
  BY <1>4, <1>5
<1> QED BY <1>1, <1>6

(* The rows that are kept of a coded CTU are such a tree.                   *)
TreeOf(K, A, root, at) ==
  /\ IsTree(K, A, root, at) /\ A[root.id] = AreasOf(coded)
  /\ \A p \in K : p.selected \in Splits => {q \in K : q.parent = p.id} = Sub(K, p)

(* This is so in every state in which the CTU is coded.                     *)
LEMMA CodedTree ==
  ASSUME TypeOK, NEW A, TableOf(A), coded # NoResult
  PROVE  \E root, at : TreeOf(SelectedRows, A, root, at)
<1>0. PICK rs, l, K : rs = rows /\ l = Len(rows) /\ K = SelectedRows
  OBVIOUS
<1>1. /\ rs \in Seq(RowType) /\ l = Len(rs) /\ l \in Nat /\ \A i \in 1..l : rs[i] \in RowType
  <2>1. rs \in Seq(RowType) /\ l = Len(rs)
    BY <1>0 DEF TypeOK
  <2> QED BY <2>1
<1>2. IdsOK(rs, frames, nextNodeId) /\ CodedFound(rs, A, frames, coded) /\ \A i \in 1..l : RowFound(rs, A, rs[i])
  BY <1>0 DEF TableOf, Table
<1>3. /\ K \subseteq RowSet(rs) /\ \A r \in RowSet(rs) : r \in K <=> Wanted(K, r)
  <2>1. rows \in Seq(RowType) /\ IdsOK(rows, frames, nextNodeId)
    BY <1>0, <1>1, <1>2
  <2> QED BY <1>0, <2>1, KeptAre
<1>4. RowSet(rs) = {rs[i] : i \in 1..l}
  BY <1>1 DEF RowSet
<1>5. /\ l > 0 /\ \A i \in 1..l : rs[i].parent = -1 <=> i = l
      /\ rs[l].selected # "NONE" /\ A[rs[l].id] = AreasOf(coded)
  <2>1. rs # <<>>
    BY <1>2 DEF CodedFound, Empty
  <2>2. l > 0
    BY <1>1, <2>1
  <2> QED BY <1>1, <1>2, <2>2 DEF CodedFound
<1>6. /\ \A i, j \in 1..l : (rs[i].id = rs[j].id => i = j) /\ (rs[i].parent = rs[j].id => i < j)
      /\ \A i \in 1..l : rs[i].parent # -1 => rs[i].via \in Splits
  BY <1>1, <1>2 DEF IdsOK
<1>7. \A i \in 1..l : rs[i].id \in Nat /\ rs[i].id # -1 /\ rs[i].area \in Areas
                      /\ rs[i].selected \in Splits \cup {"NS", "NONE"}
  BY <1>1 DEF RowType
<1> DEFINE at == [q \in K |-> CHOOSE i \in 1..l : rs[i] = q]
           root == rs[l]
<1>8. \A q \in K : at[q] \in 1..l /\ rs[at[q]] = q
  <2>1. ASSUME NEW q \in K PROVE at[q] \in 1..l /\ rs[at[q]] = q
    <3>1. \E i \in 1..l : rs[i] = q
      BY <1>3, <1>4
    <3>2. at[q] = CHOOSE i \in 1..l : rs[i] = q
      OBVIOUS
    <3> HIDE DEF at
    <3> QED BY <3>1, <3>2
  <2> QED BY <2>1
<1>9. at \in [K -> Nat]
  <2>1. at = [q \in K |-> at[q]] /\ DOMAIN at = K
    OBVIOUS
  <2>2. \A q \in K : at[q] \in Nat
    BY <1>8
  <2> HIDE DEF at
  <2> QED BY <2>1, <2>2
<1> HIDE DEF at
<1>10. /\ root \in K /\ l \in 1..l /\ \A q \in K : q.parent = -1 => q = root
  <2>1. l \in 1..l
    BY <1>1, <1>5
  <2>2. root \in RowSet(rs) /\ root.parent = -1
    BY <1>4, <1>5, <2>1
  <2>3. Wanted(K, root)
    BY <2>2 DEF Wanted
  <2>4. \A q \in K : q.parent = -1 => q = root
    BY <1>5, <1>8
  <2> QED BY <1>3, <2>1, <2>2, <2>3, <2>4
<1>11. \A p, q \in K : (p.id = q.id => p = q) /\ (at[p] = at[q] => p = q) /\ (q.parent = p.id => at[q] < at[p])
  BY <1>6, <1>8
<1>12. \A q \in K : q.id \in Nat /\ q.id # -1 /\ q.area \in Areas /\ q.selected \in Splits \cup {"NS", "NONE"}
                    /\ (q.parent # -1 => q.via \in Splits) /\ RowFound(rs, A, q)
  BY <1>2, <1>6, <1>7, <1>8
<1>13. at[root] = l /\ \A q \in K : at[q] <= at[root]
  <2>1. at[root] = l
    BY <1>6, <1>8, <1>10
  <2> QED BY <1>8, <2>1
<1>14. \A q \in K : q # root => \E p \in K : Child(q, p)
  BY <1>3, <1>10 DEF Wanted
<1>15. \A p, q \in K : Child(q, p) => at[q] < at[p] /\ p.selected \in Splits
  BY <1>11, <1>12 DEF Child
<1>16. \A p \in K : Kids(rs, p.id, p.selected) = Sub(K, p)
  <2>1. \A p \in K : \A q \in Kids(rs, p.id, p.selected) : q \in RowSet(rs) /\ Child(q, p) /\ Wanted(K, q)
    BY DEF Kids, Child, Wanted
  <2>2. \A p \in K : \A q \in Sub(K, p) : q \in Kids(rs, p.id, p.selected)
    BY <1>3 DEF Kids, Child, Sub
  <2>3. \A p \in K : \A q \in Kids(rs, p.id, p.selected) : q \in Sub(K, p)
    BY <1>3, <2>1 DEF Sub
  <2> QED BY <2>2, <2>3
<1>17. \A p \in K : p.selected \in Splits =>
         /\ IsOffered(p.area, p.selected) /\ AreasOf(Sub(K, p)) = Parts(p.area, p.selected)
         /\ A[p.id] = Cover(A, Sub(K, p))
         /\ \A q, r \in Sub(K, p) : q.area = r.area => q = r
         /\ \A q \in Sub(K, p) : q.selected # "NONE"
  <2> SUFFICES ASSUME NEW p \in K, p.selected \in Splits
               PROVE  /\ IsOffered(p.area, p.selected) /\ AreasOf(Sub(K, p)) = Parts(p.area, p.selected)
                      /\ A[p.id] = Cover(A, Sub(K, p))
                      /\ \A q, r \in Sub(K, p) : q.area = r.area => q = r
                      /\ \A q \in Sub(K, p) : q.selected # "NONE"
    OBVIOUS
  <2>1. Partly(rs, A, p.id, p.area, p.selected, {}, A[p.id])
    BY <1>12 DEF RowFound
  <2>2. Kids(rs, p.id, p.selected) = Sub(K, p)
    BY <1>16
  <2>3. AreasOf(Sub(K, p)) \cup {} = Parts(p.area, p.selected)
    BY <2>1, <2>2 DEF Partly
  <2> QED BY <2>1, <2>2, <2>3 DEF Partly
<1>18. \A q \in K : q.selected # "NONE"
  <2>1. ASSUME NEW q \in K PROVE q.selected # "NONE"
    <3>1. CASE q = root
      BY <1>5, <3>1
    <3>2. CASE q # root
      <4>1. PICK p \in K : Child(q, p)
        BY <1>14, <3>2
      <4>2. q \in Sub(K, p) /\ p.selected \in Splits
        BY <1>15, <4>1 DEF Sub
      <4> QED BY <1>17, <4>2
    <3> QED BY <3>1, <3>2
  <2> QED BY <2>1
<1>19. \A p \in K : p.selected = "NS" => A[p.id] = {p.area}
  BY <1>12 DEF RowFound
<1>20. \A p \in K : p.selected \in Splits => {q \in K : q.parent = p.id} = Sub(K, p)
  <2>1. ASSUME NEW p \in K, NEW q \in K, q.parent = p.id PROVE Child(q, p)
    <3>1. q.parent # -1
      BY <1>12, <2>1
    <3>2. PICK o \in K : Child(q, o)
      BY <1>3, <3>1 DEF Wanted
    <3>3. o = p
      BY <1>11, <2>1, <3>2 DEF Child
    <3> QED BY <3>2, <3>3
  <2> QED BY <2>1 DEF Sub, Child
<1> HIDE DEF root
<1>21. IsTree(K, A, root, at)
  BY <1>9, <1>10, <1>11, <1>12, <1>13, <1>14, <1>15, <1>17, <1>18, <1>19 DEF IsTree
<1>22. A[root.id] = AreasOf(coded)
  BY <1>5 DEF root
<1>23. TreeOf(K, A, root, at)
  BY <1>20, <1>21, <1>22 DEF TreeOf
<1> QED BY <1>0, <1>23

(* The reader finds the coded tree in the table of all tested modes.        *)
LEMMA FoundWhenCoded == RecursionInv /\ TableInv => ReaderFindsTree
<1> SUFFICES ASSUME RecursionInv, TableInv, coded # NoResult
             PROVE  LET unsplit == {r \in SelectedRows : r.selected = "NS"}
                    IN /\ {r.area : r \in unsplit} = {cu.area : cu \in coded}
                       /\ \A r, q \in SelectedRows : r.area = q.area => r = q
                       /\ \A r \in SelectedRows \ unsplit :
                            {q.area : q \in {p \in SelectedRows : p.parent = r.id}}
                              = ToSet(SubAreas(r.area, r.selected))
  BY DEF ReaderFindsTree
<1>1. PICK K : K = SelectedRows
  OBVIOUS
<1>2. PICK A \in [Nat -> SUBSET Areas] : TableOf(A)
  BY DEF TableInv, TableOf
<1>3. PICK root, at : TreeOf(K, A, root, at)
  BY <1>1, <1>2, CodedTree DEF RecursionInv
<1>4. IsTree(K, A, root, at)
  BY <1>3 DEF TreeOf
<1>5. AreasOf({r \in K : r.selected = "NS"}) = AreasOf(coded)
  BY <1>3, <1>4, TreeCovers DEF TreeOf
<1>6. \A r, q \in K : r.area = q.area => r = q
  BY <1>4, TreeApart
<1>7. ASSUME NEW r \in K, r.selected # "NS"
      PROVE  AreasOf({p \in K : p.parent = r.id}) = ToSet(SubAreas(r.area, r.selected))
  <2>1. r.selected \in Splits
    BY <1>4, <1>7 DEF IsTree
  <2>2. {p \in K : p.parent = r.id} = Sub(K, r)
    BY <1>3, <2>1 DEF TreeOf
  <2>3. AreasOf(Sub(K, r)) = Parts(r.area, r.selected)
    BY <1>4, <2>1 DEF IsTree
  <2> QED BY <2>2, <2>3 DEF Parts
<1> QED BY <1>1, <1>5, <1>6, <1>7 DEF AreasOf

(* Whatever is searched, the rows that are read backwards from the end of   *)
(* the cost file are those of the coded tree, and no others.                *)
THEOREM ReaderFindsCodedTree == Spec => []ReaderFindsTree
BY RecursionInvariance, TableInvariance, FoundWhenCoded, PTL
=============================================================================
