------------------------- MODULE PartitionerProofs -------------------------
(* Proofs about Partitioner. First the stack: its levels, their counters and *)
(* the splits that canSplit leaves open. Then the areas: the parts of a      *)
(* split tile what it splits, and no CHECK of splitCurrArea fires on a split *)
(* that canSplit allows.                                                     *)
EXTENDS Partitioner, TLAPS

(* The counters splitCurrArea sets are those of part 0. *)
LEMMA PushIsDescend ==
  ASSUME NEW c \in Counters, NEW s \in Splits, NEW implicit \in BOOLEAN
  PROVE  /\ Push(c, s, implicit) = Descend(c, s, 0, s # "QUAD" /\ implicit)
         /\ Push(c, s, implicit) \in Counters
  BY DEF Push, Descend, Counters, IsTt, Splits, Mtt

(* nextPart turns the counters of a part into those of the next one. *)
LEMMA AdvanceIsDescend ==
  ASSUME NEW c \in Counters, NEW s \in Splits, NEW implicit \in BOOLEAN, NEW idx \in Nat,
         IsTt(s) => idx \in {0, 1}
  PROVE  Advance(Descend(c, s, idx, implicit), s, idx + 1) = Descend(c, s, idx + 1, implicit)
  BY DEF Advance, Descend, Counters, IsTt, Splits, Mtt

(* After the last part nextPart leaves the counters of that part behind. *)
LEMMA DescendLast ==
  ASSUME NEW c \in Counters, NEW s \in Splits, NEW implicit \in BOOLEAN, NEW idx \in Nat,
         IsTt(s) => idx = 2
  PROVE  Descend(c, s, idx + 1, implicit) = Descend(c, s, idx, implicit)
  BY DEF Descend, Counters, IsTt, Splits, Mtt

(* A part has counters whenever the split area has. *)
LEMMA DescendType ==
  ASSUME NEW c \in Counters, NEW s \in Splits, NEW implicit \in BOOLEAN, NEW idx \in Nat
  PROVE  /\ Descend(c, s, idx, implicit) \in Counters
         /\ Descend(c, s, idx, implicit).mt = IF s = "QUAD" THEN 0 ELSE c.mt + 1
         /\ Descend(c, s, idx, implicit).impl = IF implicit THEN c.impl + 1 ELSE c.impl
  BY DEF Descend, Counters, IsTt, Splits, Mtt

(* exitCurrSplit undoes the descent, whichever part it is called on. *)
LEMMA PopInverts ==
  ASSUME NEW c \in Counters, NEW s \in Splits, NEW implicit \in BOOLEAN, NEW idx \in Nat,
         s = "QUAD" => c["bt"] = 0 /\ c["mt"] = 0
  PROVE  Pop(Descend(c, s, idx, s # "QUAD" /\ implicit), s, idx, implicit) = c
  BY DEF Pop, Descend, Counters, IsTt, Splits, Mtt

(* Every split produces two to four areas. *)
LEMMA SubAreasType ==
  ASSUME NEW a \in Area, NEW s \in Splits
  PROVE  SubAreas(a, s) \in Seq(Area) /\ Len(SubAreas(a, s)) = NumParts(s)
<1> DEFINE hw == a.w \div 2   qw == a.w \div 4   hh == a.h \div 2   qh == a.h \div 4
<1>1. a.x \in Nat /\ a.y \in Nat /\ a.w \in Nat /\ a.h \in Nat
      /\ hw \in Nat /\ qw \in Nat /\ hh \in Nat /\ qh \in Nat
  BY DEF Area
<1> HIDE DEF hw, qw, hh, qh
<1>2. CASE s = "QUAD"
  <2> DEFINE Sub(dx, dy) == [x |-> a.x + dx, y |-> a.y + dy, w |-> hw, h |-> hh]
  <2>1. SubAreas(a, s) = <<Sub(0, 0), Sub(hw, 0), Sub(0, hh), Sub(hw, hh)>>
    BY <1>2 DEF SubAreas, hw, hh
  <2>2. \A dx, dy \in Nat : Sub(dx, dy) \in Area
    BY <1>1 DEF Area
  <2> HIDE DEF Sub
  <2>3. /\ Sub(0, 0) \in Area /\ Sub(hw, 0) \in Area
        /\ Sub(0, hh) \in Area /\ Sub(hw, hh) \in Area
    BY <1>1, <2>2
  <2>4. \A p1, p2, p3, p4 \in Area :
          <<p1, p2, p3, p4>> \in Seq(Area) /\ Len(<<p1, p2, p3, p4>>) = 4
    OBVIOUS
  <2>5. SubAreas(a, s) \in Seq(Area) /\ Len(SubAreas(a, s)) = 4
    BY <2>1, <2>3, <2>4, Zenon
  <2> QED BY <1>2, <2>5 DEF NumParts, IsTt
<1>3. CASE s = "HORZ"
  BY <1>1, <1>3 DEF SubAreas, Area, NumParts, IsTt, hh
<1>4. CASE s = "VERT"
  BY <1>1, <1>4 DEF SubAreas, Area, NumParts, IsTt, hw
<1>5. CASE s = "TRIH"
  BY <1>1, <1>5 DEF SubAreas, LastThird, Area, NumParts, IsTt, hh, qh
<1>6. CASE s = "TRIV"
  BY <1>1, <1>6 DEF SubAreas, LastThird, Area, NumParts, IsTt, hw, qw
<1> QED BY <1>2, <1>3, <1>4, <1>5, <1>6 DEF Splits, Mtt

(* getImplicitSplit returns a split or none. *)
LEMMA ImplicitType ==
  ASSUME NEW a, NEW c, NEW ch
  PROVE  /\ ImplicitSplitOf(a, c, ch) \in {"QUAD", "HORZ", "VERT", "DONT"}
         /\ ImplicitSplitOf(a, c, ch) \in {"HORZ", "VERT"}
              => c.mt < MaxBtDepth[ch] + c.impl
  BY DEF ImplicitSplitOf, MttLeft

(* canSplit allows a multi-type split only within the depth budget, or as the implicit one. *)
LEMMA LegalMtt ==
  ASSUME NEW lv, NEW c, NEW ch, NEW s \in Mtt, s \in LegalSplits(lv, c, ch)
  PROVE  \/ s = ImplicitOf(lv, c, ch)
         \/ ImplicitOf(lv, c, ch) = "DONT" /\ c.mt < MaxBtDepth[ch] + c.impl
  BY DEF LegalSplits, Mtt, MttLeft

CacheFreshAt(lv, c) ==
  lv.checked => /\ lv.implicitSplit = ImplicitSplitOf(PartOf(lv), c, chType)
                /\ lv.isImplicit = (lv.implicitSplit # "DONT")

(* A query fills the cache of a level and changes nothing else of it. *)
LEMMA CheckedFacts ==
  ASSUME NEW lv \in Level, NEW c, CacheFreshAt(lv, c)
  PROVE  LET k == Checked(lv, c, chType) IN
         /\ k \in Level /\ k.checked
         /\ k.implicitSplit = ImplicitSplitOf(PartOf(lv), c, chType)
         /\ k.isImplicit = (k.implicitSplit # "DONT")
         /\ k.split = lv.split /\ k.parts = lv.parts /\ k.idx = lv.idx /\ k.qg = lv.qg
         /\ ImplicitOf(lv, c, chType) = ImplicitSplitOf(PartOf(lv), c, chType)
<1> DEFINE imp == ImplicitSplitOf(PartOf(lv), c, chType)
<1>1. imp \in Splits \cup {"DONT"}
  BY ImplicitType DEF Splits, Mtt
<1> HIDE DEF imp
<1> QED BY <1>1 DEF Checked, CacheFreshAt, Level, Update, ImplicitOf, imp

(* initCtu establishes the invariant. *)
LEMMA StartInv ==
  ASSUME NEW CONSTANT ctu \in CtuAreas, NEW CONSTANT ch \in Channels
  PROVE  Start(ctu, ch) => IInv
<1> SUFFICES ASSUME Start(ctu, ch) PROVE IInv
  OBVIOUS
<1>1. ctu \in Area
  BY SizesAssumption DEF CtuAreas, CtuArea, Area
<1> DEFINE lv == NewLevel("CTU", <<ctu>>, [q \in Qg |-> TRUE])
<1>2. PosOf(ctu) \in Pos
  BY <1>1 DEF PosOf, Pos, Area
<1>3. /\ lv \in Level /\ PartOf(lv) = ctu /\ HasArea(lv)
      /\ lv.split = "CTU" /\ lv.parts = <<ctu>> /\ lv.idx = 0 /\ ~lv.checked
      /\ \A q \in Qg : lv.qg[q]
  BY <1>1 DEF NewLevel, Level, Splits, PartOf, HasArea
<1> HIDE DEF lv
<1>4. Zero \in Counters /\ Zero.mt = 0 /\ Zero.impl = 0
  BY DEF Zero, Counters
<1>5. /\ Len(stack) = 1 /\ stack[1] = lv /\ Top = lv /\ stack \in Seq(Level)
      /\ curr = Zero /\ chType = ch
      /\ qgPos = [q \in Qg |-> PosOf(ctu)]
  BY <1>3 DEF CtuStack, Start, Top, lv
<1>6. saved \in Seq(Counters) /\ Len(saved) = 0
  BY DEF Start
<1>7. TypeOK
  BY <1>2, <1>4, <1>5, <1>6 DEF TypeOK
<1>8. Suspended /\ Balanced
  BY <1>5 DEF Suspended, Balanced
<1>9. PartsShape
  <2>1. NumParts("CTU") = 1
    BY DEF NumParts
  <2>2. Len(lv.parts) = 1
    BY <1>3
  <2>3. /\ Len(stack[1].parts) = NumParts(stack[1].split)
        /\ stack[1].idx <= Len(stack[1].parts)
    <3>1. stack[1].split = "CTU" /\ stack[1].parts = lv.parts /\ stack[1].idx = 0
      BY <1>3, <1>5
    <3>2. Len(stack[1].parts) = 1 /\ NumParts(stack[1].split) = 1
      BY <2>1, <2>2, <3>1, Zenon
    <3> QED BY <3>1, <3>2
  <2> QED BY <1>3, <1>5, <2>3 DEF PartsShape
<1>10. CacheFresh
  BY <1>3, <1>5 DEF CacheFresh, FreshAt
<1>11. DepthBudget
  BY <1>4, <1>5, LimitsAssumption DEF DepthBudget, CountersAt
<1>12. QgNested
  BY <1>3, <1>5 DEF QgNested
<1>13. QgAnchored
  <2>1. \A q \in Qg : AnchoredAt(q, 1)
    BY <1>3, <1>5 DEF AnchoredAt
  <2> QED BY <1>5, <2>1 DEF QgAnchored
<1> QED BY <1>7, <1>8, <1>9, <1>10, <1>11, <1>12, <1>13 DEF IInv

(* So do the initial states, *)
LEMMA InitInv == Init => IInv
  BY StartInv DEF Init

(* and the step to the next CTU. *)
LEMMA InitCtuInv ==
  ASSUME NEW CONSTANT ctu \in CtuAreas, NEW CONSTANT ch \in Channels
  PROVE  InitCtu(ctu, ch) => IInv'
<1>1. Start(ctu, ch) => IInv
  BY StartInv
<1>2. Start(ctu, ch)' => IInv'
  BY <1>1, PTL
<1> QED BY <1>2 DEF InitCtu, Start

(* A query preserves the invariant. *)
LEMMA QueryInv == IInv /\ Query => IInv'
<1> SUFFICES ASSUME IInv, Query PROVE IInv'
  OBVIOUS
<1> USE DEF IInv
<1> DEFINE n == Len(stack)
<1>1. n \in Nat \ {0} /\ stack \in Seq(Level) /\ Top \in Level
  BY DEF TypeOK, Top
<1>2. CacheFreshAt(Top, curr)
  BY <1>1 DEF CacheFresh, FreshAt, CacheFreshAt, Top, CountersAt
<1> DEFINE lv == Checked(Top, curr, chType)
<1>3. /\ lv \in Level /\ lv.checked
      /\ lv.implicitSplit = ImplicitSplitOf(PartOf(Top), curr, chType)
      /\ lv.isImplicit = (lv.implicitSplit # "DONT")
      /\ lv.split = Top.split /\ lv.parts = Top.parts /\ lv.idx = Top.idx /\ lv.qg = Top.qg
  BY <1>1, <1>2, CheckedFacts
<1>4. /\ Len(stack') = n /\ stack'[n] = lv /\ stack' \in Seq(Level)
      /\ \A i \in 1..(n - 1) : stack'[i] = stack[i]
  BY <1>1, <1>3 DEF Query
<1> HIDE DEF lv
<1>5. /\ \A i \in 1..n : /\ stack'[i].split = stack[i].split
                         /\ stack'[i].parts = stack[i].parts
                         /\ stack'[i].idx = stack[i].idx
                         /\ stack'[i].qg = stack[i].qg
                         /\ PartOf(stack'[i]) = PartOf(stack[i])
                         /\ HasArea(stack'[i]) = HasArea(stack[i])
  BY <1>1, <1>3, <1>4 DEF PartOf, HasArea, Top
<1>13. \A i \in 1..n : CountersAt(i)' = CountersAt(i)
  BY <1>4 DEF Query, CountersAt
<1>6. TypeOK'
  BY <1>1, <1>4 DEF TypeOK, Query
<1>7. (Suspended /\ PartsShape)'
  BY <1>1, <1>4, <1>5 DEF Suspended, PartsShape
<1>8. Balanced'
  <2> SUFFICES ASSUME NEW i \in 2..n PROVE BalancedAt(i)'
    BY <1>4 DEF Balanced
  <2>1. i \in 1..n /\ i - 1 \in 1..(n - 1) /\ i - 1 \in 1..n
    BY <1>1
  <2>2. BalancedAt(i)
    BY DEF Balanced
  <2> QED BY <1>4, <1>5, <1>13, <2>1, <2>2 DEF BalancedAt
<1>9. CacheFresh'
  <2> SUFFICES ASSUME NEW i \in 1..n PROVE FreshAt(i)'
    BY <1>4 DEF CacheFresh
  <2>1. PartOf(stack'[i]) = PartOf(stack[i]) /\ CountersAt(i)' = CountersAt(i) /\ chType' = chType
    BY <1>5, <1>13 DEF Query
  <2>2. CASE i = n
    <3>1. Top = stack[n] /\ CountersAt(n) = curr
      BY DEF Top, CountersAt
    <3> QED BY <1>3, <1>4, <2>1, <2>2, <3>1 DEF FreshAt
  <2>3. CASE i # n
    <3>1. FreshAt(i) /\ stack'[i] = stack[i]
      BY <1>1, <1>4, <2>3 DEF CacheFresh
    <3> QED BY <2>1, <3>1 DEF FreshAt
  <2> QED BY <2>2, <2>3
<1>10. DepthBudget'
  BY <1>4, <1>13 DEF DepthBudget, Query
<1>11. QgNested'
  BY <1>1, <1>4, <1>5 DEF QgNested
<1>12. QgAnchored'
  <2> SUFFICES ASSUME NEW q \in Qg, (HasArea(Top) \/ ~Top.qg[q])' PROVE \E i \in 1..n : AnchoredAt(q, i)'
    BY <1>4 DEF QgAnchored
  <2>1. Top' = stack'[n] /\ Top = stack[n]
    BY <1>4 DEF Top
  <2>2. PICK i \in 1..n : AnchoredAt(q, i)
    BY <1>1, <1>5, <2>1 DEF QgAnchored
  <2>3. \A j \in (i + 1)..n : j \in 1..n
    BY <1>1
  <2>4. /\ stack'[i].qg = stack[i].qg /\ PartOf(stack'[i]) = PartOf(stack[i])
        /\ \A j \in (i + 1)..n : stack'[j].qg = stack[j].qg
        /\ qgPos' = qgPos
    BY <1>5, <2>3 DEF Query
  <2>5. AnchoredAt(q, i)'
    BY <1>4, <2>2, <2>4 DEF AnchoredAt
  <2> QED BY <2>5
<1> QED BY <1>6, <1>7, <1>8, <1>9, <1>10, <1>11, <1>12

(* The current area is well formed. *)
LEMMA CurrAreaType ==
  ASSUME NEW lv \in Level, HasArea(lv)
  PROVE  PartOf(lv) \in Area
<1>1. lv.parts \in Seq(Area) /\ lv.idx \in Nat
  BY DEF Level
<1>2. lv.idx + 1 \in 1..Len(lv.parts)
  BY <1>1 DEF HasArea
<1>3. \A sq \in Seq(Area) : \A k \in 1..Len(sq) : sq[k] \in Area
  OBVIOUS
<1> QED BY <1>1, <1>2, <1>3, Zenon DEF PartOf

(* The quantisation-group positions stay positions. *)
LEMMA MoveQgType ==
  ASSUME NEW pos \in [Qg -> Pos], NEW qg, NEW a \in Area
  PROVE  MoveQg(pos, qg, a) \in [Qg -> Pos]
<1>1. PosOf(a) \in Pos
  BY DEF PosOf, Pos, Area
<1> QED BY <1>1 DEF MoveQg

(* splitCurrArea preserves the invariant. *)
LEMMA SplitInv ==
  ASSUME NEW s \in Splits
  PROVE  IInv /\ SplitCurrArea(s) => IInv'
<1> SUFFICES ASSUME IInv, SplitCurrArea(s) PROVE IInv'
  OBVIOUS
<1> USE DEF IInv
<1>0. PICK n \in Nat \ {0} : n = Len(stack)
  BY DEF TypeOK
<1> DEFINE lv == Checked(Top, curr, chType)
           parts == SubAreas(CurrArea, s)
           c == Push(curr, s, s = lv.implicitSplit)
           qg == [q \in Qg |-> lv.qg[q] /\ c.subdiv <= QgSubdiv[q]]
           new == NewLevel(s, parts, qg)
<1>1. /\ n = Len(stack) /\ n \in Nat \ {0} /\ stack \in Seq(Level) /\ Top = stack[n] /\ Top \in Level
      /\ curr \in Counters /\ chType \in Channels
      /\ saved \in Seq(Counters) /\ Len(saved) = n - 1
      /\ CountersAt(n) = curr
  BY <1>0 DEF TypeOK, Top, CountersAt
<1>2. CacheFreshAt(Top, curr)
  BY <1>1 DEF CacheFresh, FreshAt, CacheFreshAt
<1>3. /\ lv \in Level /\ lv.checked
      /\ lv.implicitSplit = ImplicitSplitOf(PartOf(Top), curr, chType)
      /\ lv.isImplicit = (lv.implicitSplit # "DONT")
      /\ lv.split = Top.split /\ lv.parts = Top.parts /\ lv.idx = Top.idx /\ lv.qg = Top.qg
      /\ ImplicitOf(Top, curr, chType) = lv.implicitSplit
  BY <1>1, <1>2, CheckedFacts
<1>4. /\ HasArea(Top) /\ s \in LegalSplits(Top, curr, chType)
      /\ SplitChecks(CurrArea, curr, s)
      /\ stack' = Append([stack EXCEPT ![n] = lv], new)
      /\ curr' = c /\ qgPos' = MoveQg(qgPos, qg, parts[1])
      /\ saved' = Append(saved, curr) /\ chType' = chType
  BY <1>0 DEF SplitCurrArea, OnArea
<1>5. CurrArea \in Area
  BY <1>1, <1>4, CurrAreaType DEF CurrArea
<1>6. parts \in Seq(Area) /\ Len(parts) = NumParts(s) /\ NumParts(s) \in {2, 3, 4} /\ parts[1] \in Area
  <2>1. parts \in Seq(Area) /\ Len(parts) = NumParts(s)
    BY <1>5, SubAreasType
  <2>2. NumParts(s) \in {2, 3, 4}
    BY DEF NumParts, Splits, Mtt
  <2>3. 1 \in 1..Len(parts)
    BY <2>1, <2>2
  <2>4. \A sq \in Seq(Area) : \A k \in 1..Len(sq) : sq[k] \in Area
    OBVIOUS
  <2> QED BY <2>1, <2>2, <2>3, <2>4, Zenon
<1> HIDE DEF lv, parts
<1>7. /\ c = Descend(curr, s, 0, s # "QUAD" /\ lv.isImplicit)
      /\ c \in Counters
      /\ c.mt <= MaxBtDepth[chType] + c.impl
  <2> DEFINE b == s = lv.implicitSplit
  <2>1. /\ c = Descend(curr, s, 0, s # "QUAD" /\ b)
        /\ c \in Counters
    BY <1>1, PushIsDescend
  <2>2. MaxBtDepth[chType] \in Nat
    BY <1>1, LimitsAssumption
  <2>3. CASE s = "QUAD"
    <3>1. c = Descend(curr, s, 0, s # "QUAD" /\ lv.isImplicit)
      BY <2>1, <2>3
    <3>2. c.mt = 0 /\ c.impl \in Nat
      BY <1>1, <2>3 DEF Push, Counters
    <3> QED BY <2>1, <2>2, <3>1, <3>2
  <2>4. CASE s # "QUAD"
    <3>1. s \in Mtt
      BY <2>4 DEF Splits
    <3>2. \/ s = lv.implicitSplit
          \/ lv.implicitSplit = "DONT" /\ curr.mt < MaxBtDepth[chType] + curr.impl
      BY <1>3, <1>4, <3>1, LegalMtt
    <3>3. b = lv.isImplicit
      BY <1>3, <3>1, <3>2 DEF Mtt
    <3>4. curr.mt < MaxBtDepth[chType] + curr.impl
      <4>1. CASE s = lv.implicitSplit
        <5>1. s \in {"HORZ", "VERT"}
          BY <1>3, <3>1, <4>1, ImplicitType DEF Mtt
        <5> QED BY <1>3, <4>1, <5>1, ImplicitType
      <4> QED BY <3>2, <4>1
    <3>5. c.mt = curr.mt + 1 /\ c.impl >= curr.impl /\ c.mt \in Nat /\ c.impl \in Nat
          /\ curr.mt \in Nat /\ curr.impl \in Nat
      BY <1>1, <2>4 DEF Push, Counters
    <3>6. c.mt <= MaxBtDepth[chType] + c.impl
      BY <2>2, <3>4, <3>5
    <3> QED BY <2>1, <3>3, <3>6
  <2> QED BY <2>3, <2>4
<1> HIDE DEF c
<1>8. qg \in [Qg -> BOOLEAN]
  BY <1>3 DEF Level
<1>9. \A q \in Qg : qg[q] => Top.qg[q]
  BY <1>3
<1> HIDE DEF qg
<1>10. /\ new \in Level /\ PartOf(new) = parts[1] /\ HasArea(new)
       /\ new.split = s /\ new.parts = parts /\ new.idx = 0 /\ ~new.checked /\ new.qg = qg
  BY <1>6, <1>8 DEF NewLevel, Level, PartOf, HasArea
<1> HIDE DEF new
<1>11. /\ Len(stack') = n + 1 /\ stack'[n + 1] = new /\ stack'[n] = lv /\ Top' = new
       /\ stack' \in Seq(Level)
       /\ \A i \in 1..(n - 1) : stack'[i] = stack[i]
  BY <1>1, <1>3, <1>4, <1>10 DEF Top
<1>12. \A i \in 1..n : /\ stack'[i].split = stack[i].split
                       /\ stack'[i].parts = stack[i].parts
                       /\ stack'[i].idx = stack[i].idx
                       /\ stack'[i].qg = stack[i].qg
                       /\ PartOf(stack'[i]) = PartOf(stack[i])
                       /\ HasArea(stack'[i]) = HasArea(stack[i])
  BY <1>1, <1>3, <1>11 DEF PartOf, HasArea
<1>13. /\ Len(saved') = n /\ saved' \in Seq(Counters) /\ saved'[n] = curr
       /\ \A i \in 1..(n - 1) : saved'[i] = saved[i]
  BY <1>1, <1>4
<1>14. /\ CountersAt(n + 1)' = c
       /\ \A i \in 1..n : CountersAt(i)' = CountersAt(i)
  BY <1>1, <1>4, <1>11, <1>13 DEF CountersAt
<1>15. TypeOK'
  <2>1. qgPos' \in [Qg -> Pos]
    BY <1>4, <1>6, MoveQgType DEF TypeOK
  <2> QED BY <1>1, <1>4, <1>7, <1>11, <1>13, <2>1 DEF TypeOK
<1>16. Suspended'
  <2> SUFFICES ASSUME NEW i \in 1..n PROVE stack'[i].checked /\ HasArea(stack'[i])
    BY <1>11 DEF Suspended
  <2>1. CASE i = n
    BY <1>1, <1>3, <1>4, <1>11, <1>12, <2>1
  <2>2. CASE i # n
    BY <1>1, <1>11, <2>2 DEF Suspended
  <2> QED BY <2>1, <2>2
<1>17. PartsShape'
  <2> SUFFICES ASSUME NEW i \in 1..(n + 1)
               PROVE  /\ Len(stack'[i].parts) = NumParts(stack'[i].split)
                      /\ stack'[i].idx <= Len(stack'[i].parts)
                      /\ i = 1 => stack'[i].split = "CTU" /\ HasArea(stack'[i])
    BY <1>11 DEF PartsShape
  <2>1. CASE i = n + 1
    <3>1. Len(stack'[i].parts) = NumParts(stack'[i].split)
      BY <1>6, <1>10, <1>11, <2>1, Zenon
    <3>2. stack'[i].idx = 0 /\ Len(stack'[i].parts) \in {2, 3, 4}
      BY <1>6, <1>10, <1>11, <2>1, Zenon
    <3> QED BY <1>1, <2>1, <3>1, <3>2
  <2>2. CASE i # n + 1
    <3>1. i \in 1..n
      BY <1>1, <2>2
    <3>2. /\ Len(stack[i].parts) = NumParts(stack[i].split)
          /\ stack[i].idx <= Len(stack[i].parts)
          /\ i = 1 => stack[i].split = "CTU" /\ HasArea(stack[i])
      BY <1>0, <3>1 DEF PartsShape
    <3> QED BY <1>12, <3>1, <3>2, Zenon
  <2> QED BY <2>1, <2>2
<1>18. Balanced'
  <2> SUFFICES ASSUME NEW i \in 2..(n + 1) PROVE BalancedAt(i)'
    BY <1>11 DEF Balanced
  <2>1. CASE i = n + 1
    <3>1. s = "QUAD" => curr.bt = 0 /\ curr.mt = 0
      BY <1>4 DEF SplitChecks
    <3>2. i - 1 = n /\ CountersAt(n)' = curr
      BY <1>1, <1>14, <2>1
    <3> QED BY <1>7, <1>10, <1>11, <1>14, <2>1, <3>1, <3>2 DEF BalancedAt
  <2>2. CASE i # n + 1
    <3>1. i \in 2..n /\ i \in 1..n /\ i - 1 \in 1..n /\ i - 1 \in 1..(n - 1)
      BY <1>1, <2>2
    <3>2. BalancedAt(i)
      BY <1>0, <3>1 DEF Balanced
    <3> QED BY <1>11, <1>12, <1>14, <3>1, <3>2 DEF BalancedAt
  <2> QED BY <2>1, <2>2
<1>19. CacheFresh'
  <2> SUFFICES ASSUME NEW i \in 1..(n + 1) PROVE FreshAt(i)'
    BY <1>11 DEF CacheFresh
  <2>1. CASE i = n + 1
    BY <1>10, <1>11, <2>1 DEF FreshAt
  <2>2. CASE i = n
    <3>1. PartOf(stack'[n]) = PartOf(Top) /\ CountersAt(n)' = curr
      BY <1>1, <1>12, <1>14
    <3> QED BY <1>3, <1>4, <1>11, <2>2, <3>1 DEF FreshAt
  <2>3. CASE i # n /\ i # n + 1
    <3>1. i \in 1..n /\ i \in 1..(n - 1)
      BY <1>1, <2>3
    <3>2. FreshAt(i)
      BY <1>0, <3>1 DEF CacheFresh
    <3> QED BY <1>4, <1>11, <1>14, <3>1, <3>2 DEF FreshAt
  <2> QED BY <2>1, <2>2, <2>3
<1>20. DepthBudget'
  <2> SUFFICES ASSUME NEW i \in 1..(n + 1)
               PROVE  (CountersAt(i).mt <= MaxBtDepth[chType] + CountersAt(i).impl)'
    BY <1>11 DEF DepthBudget
  <2>1. CASE i = n + 1
    BY <1>4, <1>7, <1>14, <2>1
  <2>2. CASE i # n + 1
    <3>1. i \in 1..n
      BY <1>1, <2>2
    <3> QED BY <1>0, <1>4, <1>14, <3>1 DEF DepthBudget
  <2> QED BY <2>1, <2>2
<1>21. QgNested'
  <2> SUFFICES ASSUME NEW q \in Qg
               PROVE  /\ stack'[1].qg[q]
                      /\ \A i \in 1..n : stack'[i + 1].qg[q] => stack'[i].qg[q]
    BY <1>11 DEF QgNested
  <2>1. stack'[1].qg[q]
    BY <1>1, <1>12 DEF QgNested
  <2>2. ASSUME NEW i \in 1..n PROVE stack'[i + 1].qg[q] => stack'[i].qg[q]
    <3>1. CASE i = n
      BY <1>1, <1>9, <1>10, <1>11, <1>12, <3>1
    <3>2. CASE i # n
      <4>1. i \in 1..(n - 1) /\ i + 1 \in 1..n
        BY <1>1, <3>2
      <4> QED BY <1>0, <1>12, <4>1 DEF QgNested
    <3> QED BY <3>1, <3>2
  <2> QED BY <2>1, <2>2
<1>22. QgAnchored'
  <2> SUFFICES ASSUME NEW q \in Qg PROVE \E i \in 1..(n + 1) : AnchoredAt(q, i)'
    BY <1>11 DEF QgAnchored
  <2>1. CASE qg[q]
    <3>1. qgPos'[q] = PosOf(parts[1])
      BY <1>4, <2>1 DEF MoveQg
    <3>2. AnchoredAt(q, n + 1)'
      BY <1>1, <1>10, <1>11, <2>1, <3>1 DEF AnchoredAt
    <3> QED BY <1>1, <3>2
  <2>2. CASE ~qg[q]
    <3>1. PICK i \in 1..n : AnchoredAt(q, i)
      BY <1>0, <1>4 DEF QgAnchored
    <3>2. qgPos'[q] = qgPos[q]
      BY <1>4, <2>2 DEF MoveQg
    <3>3. \A j \in (i + 1)..(n + 1) : ~stack'[j].qg[q]
      <4> SUFFICES ASSUME NEW j \in (i + 1)..(n + 1) PROVE ~stack'[j].qg[q]
        OBVIOUS
      <4>1. CASE j = n + 1
        BY <1>10, <1>11, <2>2, <4>1
      <4>2. CASE j # n + 1
        <5>1. j \in 1..n /\ j \in (i + 1)..n
          BY <1>1, <4>2
        <5> QED BY <1>0, <1>12, <3>1, <5>1 DEF AnchoredAt
      <4> QED BY <4>1, <4>2
    <3>4. AnchoredAt(q, i)'
      BY <1>11, <1>12, <3>1, <3>2, <3>3 DEF AnchoredAt
    <3> QED BY <1>1, <3>4
  <2> QED BY <2>1, <2>2
<1> QED BY <1>15, <1>16, <1>17, <1>18, <1>19, <1>20, <1>21, <1>22

(* nextPart preserves the invariant. *)
LEMMA NextPartInv == IInv /\ NextPart => IInv'
<1> SUFFICES ASSUME IInv, NextPart PROVE IInv'
  OBVIOUS
<1> USE DEF IInv
<1>0. PICK n \in Nat \ {0} : n = Len(stack)
  BY DEF TypeOK
<1> DEFINE lv == NextOf(Top)
<1>1. /\ n = Len(stack) /\ n > 1 /\ n \in Nat /\ stack \in Seq(Level)
      /\ Top = stack[n] /\ Top \in Level /\ HasArea(Top)
      /\ curr \in Counters /\ chType \in Channels
      /\ saved \in Seq(Counters) /\ Len(saved) = n - 1
      /\ CountersAt(n) = curr /\ n - 1 \in 1..(n - 1) /\ n \in 2..n
  BY <1>0 DEF TypeOK, Top, CountersAt, NextPart
<1>2. /\ lv \in Level /\ ~lv.checked
      /\ lv.split = Top.split /\ lv.parts = Top.parts /\ lv.idx = Top.idx + 1 /\ lv.qg = Top.qg
  BY <1>1 DEF NextOf, Update, Level
<1>3. /\ stack' = [stack EXCEPT ![n] = lv]
      /\ IF HasArea(lv) THEN /\ curr' = Advance(curr, lv.split, lv.idx)
                             /\ qgPos' = MoveQg(qgPos, lv.qg, PartOf(lv))
                        ELSE curr' = curr /\ qgPos' = qgPos
      /\ chType' = chType /\ saved' = saved
  BY <1>0 DEF NextPart
<1> HIDE DEF lv
<1>4. /\ Len(stack') = n /\ stack'[n] = lv /\ stack' \in Seq(Level) /\ Top' = lv
      /\ \A i \in 1..(n - 1) : stack'[i] = stack[i]
  BY <1>1, <1>2, <1>3 DEF Top
<1>5. \A i \in 1..n : /\ stack'[i].split = stack[i].split
                      /\ stack'[i].parts = stack[i].parts
                      /\ stack'[i].qg = stack[i].qg
  BY <1>1, <1>2, <1>4
<1>6. \A i \in 1..(n - 1) : CountersAt(i)' = CountersAt(i)
  BY <1>1, <1>3, <1>4 DEF CountersAt
<1>7. CountersAt(n)' = curr'
  BY <1>1, <1>4 DEF CountersAt
<1>8. BalancedAt(n)
  BY <1>1 DEF Balanced
<1> DEFINE up == CountersAt(n - 1)
           implicit == Top.split # "QUAD" /\ stack[n - 1].isImplicit
<1>9. /\ up \in Counters /\ implicit \in BOOLEAN /\ Top.split \in Splits
      /\ curr = Descend(up, Top.split, Top.idx, implicit)
  <2>1. \A sq \in Seq(Counters) : \A k \in 1..Len(sq) : sq[k] \in Counters
    OBVIOUS
  <2>2. up = saved[n - 1] /\ saved[n - 1] \in Counters
    BY <1>1, <2>1 DEF CountersAt
  <2>3. implicit \in BOOLEAN
    BY <1>1 DEF Level
  <2> QED BY <1>1, <1>8, <2>2, <2>3 DEF BalancedAt
<1> HIDE DEF up, implicit
<1>10. Len(Top.parts) = NumParts(Top.split) /\ Top.idx < Len(Top.parts) /\ Top.idx \in Nat
  BY <1>1 DEF PartsShape, HasArea, Level
<1>11. curr' = Descend(up, lv.split, lv.idx, implicit)
  <2>1. CASE HasArea(lv)
    <3>1. IsTt(Top.split) => Top.idx \in {0, 1}
      <4> SUFFICES ASSUME IsTt(Top.split) PROVE Top.idx \in {0, 1}
        OBVIOUS
      <4>1. NumParts(Top.split) = 3
        BY DEF NumParts, IsTt
      <4>2. Top.idx + 1 < Len(Top.parts)
        BY <1>2, <2>1 DEF HasArea
      <4> QED BY <1>10, <4>1, <4>2
    <3>2. Advance(Descend(up, Top.split, Top.idx, implicit), Top.split, Top.idx + 1)
            = Descend(up, Top.split, Top.idx + 1, implicit)
      BY <1>9, <1>10, <3>1, AdvanceIsDescend
    <3> QED BY <1>2, <1>3, <1>9, <2>1, <3>2, Zenon
  <2>2. CASE ~HasArea(lv)
    <3>1. Top.idx + 1 = Len(Top.parts)
      BY <1>2, <1>10, <2>2 DEF HasArea
    <3>2. IsTt(Top.split) => Top.idx = 2
      <4> SUFFICES ASSUME IsTt(Top.split) PROVE Top.idx = 2
        OBVIOUS
      <4>1. NumParts(Top.split) = 3
        BY DEF NumParts, IsTt
      <4> QED BY <1>10, <3>1, <4>1
    <3>3. Descend(up, Top.split, Top.idx + 1, implicit) = Descend(up, Top.split, Top.idx, implicit)
      BY <1>9, <1>10, <3>2, DescendLast
    <3> QED BY <1>2, <1>3, <1>9, <2>2, <3>3, Zenon
  <2> QED BY <2>1, <2>2
<1>12. curr' \in Counters /\ curr'.mt = curr.mt /\ curr'.impl = curr.impl
  <2>1. lv.split = Top.split /\ Top.idx \in Nat /\ lv.idx \in Nat
    BY <1>2, <1>10
  <2> DEFINE d(k) == Descend(up, Top.split, k, implicit)
  <2>2. curr' = d(lv.idx) /\ curr = d(Top.idx)
    BY <1>9, <1>11, <2>1, Zenon
  <2>3. \A k \in Nat : /\ d(k) \in Counters
                       /\ d(k).mt = IF Top.split = "QUAD" THEN 0 ELSE up.mt + 1
                       /\ d(k).impl = IF implicit THEN up.impl + 1 ELSE up.impl
    BY <1>9, DescendType
  <2> HIDE DEF d
  <2>4. d(lv.idx).mt = d(Top.idx).mt /\ d(lv.idx).impl = d(Top.idx).impl
    BY <2>1, <2>3
  <2> QED BY <2>1, <2>2, <2>3, <2>4, Zenon
<1>13. TypeOK'
  <2>1. qgPos' \in [Qg -> Pos]
    <3>1. CASE HasArea(lv)
      BY <1>2, <1>3, <3>1, CurrAreaType, MoveQgType DEF TypeOK
    <3>2. CASE ~HasArea(lv)
      BY <1>3, <3>2 DEF TypeOK
    <3> QED BY <3>1, <3>2
  <2> QED BY <1>1, <1>3, <1>4, <1>12, <2>1 DEF TypeOK
<1>14. Suspended'
  BY <1>1, <1>4 DEF Suspended
<1>15. PartsShape'
  <2> SUFFICES ASSUME NEW i \in 1..n
               PROVE  /\ Len(stack'[i].parts) = NumParts(stack'[i].split)
                      /\ stack'[i].idx <= Len(stack'[i].parts)
                      /\ i = 1 => stack'[i].split = "CTU" /\ HasArea(stack'[i])
    BY <1>4 DEF PartsShape
  <2>1. CASE i = n
    <3>1. Len(lv.parts) = NumParts(lv.split)
      BY <1>2, <1>10, Zenon
    <3>2. lv.idx <= Len(lv.parts)
      BY <1>2, <1>10
    <3> QED BY <1>1, <1>4, <2>1, <3>1, <3>2
  <2>2. CASE i # n
    <3>1. i \in 1..(n - 1) /\ stack'[i] = stack[i]
      BY <1>4, <2>2
    <3> QED BY <1>0, <3>1 DEF PartsShape
  <2> QED BY <2>1, <2>2
<1>16. Balanced'
  <2> SUFFICES ASSUME NEW i \in 2..n PROVE BalancedAt(i)'
    BY <1>4 DEF Balanced
  <2>1. i - 1 \in 1..(n - 1) /\ stack'[i - 1] = stack[i - 1]
    BY <1>1, <1>4
  <2>2. CountersAt(i - 1)' = CountersAt(i - 1)
    BY <1>6, <2>1
  <2>3. BalancedAt(i)
    BY <1>0 DEF Balanced
  <2>4. CASE i = n
    <3>1. /\ Top.split \in Splits
          /\ Top.split = "QUAD" => up.bt = 0 /\ up.mt = 0
      BY <1>1, <1>8 DEF BalancedAt, up
    <3> QED BY <1>1, <1>2, <1>4, <1>7, <1>11, <2>1, <2>2, <2>4, <3>1 DEF BalancedAt, up, implicit
  <2>5. CASE i # n
    <3>1. i \in 1..(n - 1)
      BY <2>5
    <3> QED BY <1>4, <1>6, <2>1, <2>2, <2>3, <3>1 DEF BalancedAt
  <2> QED BY <2>4, <2>5
<1>17. CacheFresh'
  <2> SUFFICES ASSUME NEW i \in 1..n PROVE FreshAt(i)'
    BY <1>4 DEF CacheFresh
  <2>1. CASE i = n
    BY <1>2, <1>4, <2>1 DEF FreshAt
  <2>2. CASE i # n
    <3>1. i \in 1..(n - 1)
      BY <2>2
    <3>2. FreshAt(i)
      BY <1>0 DEF CacheFresh
    <3> QED BY <1>3, <1>4, <1>6, <3>1, <3>2 DEF FreshAt
  <2> QED BY <2>1, <2>2
<1>18. DepthBudget'
  <2> SUFFICES ASSUME NEW i \in 1..n
               PROVE  (CountersAt(i).mt <= MaxBtDepth[chType] + CountersAt(i).impl)'
    BY <1>4 DEF DepthBudget
  <2>1. CountersAt(i).mt <= MaxBtDepth[chType] + CountersAt(i).impl
    BY <1>0 DEF DepthBudget
  <2>2. CASE i = n
    BY <1>1, <1>3, <1>7, <1>12, <2>1, <2>2
  <2>3. CASE i # n
    <3>1. i \in 1..(n - 1)
      BY <2>3
    <3> QED BY <1>3, <1>6, <2>1, <3>1
  <2> QED BY <2>2, <2>3
<1>19. QgNested'
  <2> SUFFICES ASSUME NEW q \in Qg
               PROVE  /\ stack'[1].qg[q]
                      /\ \A i \in 1..(n - 1) : stack'[i + 1].qg[q] => stack'[i].qg[q]
    BY <1>4 DEF QgNested
  <2>1. stack'[1].qg[q]
    BY <1>1, <1>5 DEF QgNested
  <2>2. ASSUME NEW i \in 1..(n - 1) PROVE stack'[i + 1].qg[q] => stack'[i].qg[q]
    <3>1. i \in 1..n /\ i + 1 \in 1..n
      BY <1>1
    <3> QED BY <1>0, <1>5, <3>1 DEF QgNested
  <2> QED BY <2>1, <2>2
<1>20. QgAnchored'
  <2> SUFFICES ASSUME NEW q \in Qg, (HasArea(Top) \/ ~Top.qg[q])'
               PROVE  \E i \in 1..n : AnchoredAt(q, i)'
    BY <1>4 DEF QgAnchored
  <2>1. CASE HasArea(lv) /\ lv.qg[q]
    <3>1. qgPos'[q] = PosOf(PartOf(lv))
      BY <1>3, <2>1 DEF MoveQg
    <3>2. AnchoredAt(q, n)'
      BY <1>1, <1>4, <2>1, <3>1 DEF AnchoredAt
    <3> QED BY <1>1, <3>2
  <2>2. CASE ~(HasArea(lv) /\ lv.qg[q])
    <3>1. ~lv.qg[q] /\ ~Top.qg[q]
      BY <1>2, <1>4, <2>2
    <3>2. PICK i \in 1..n : AnchoredAt(q, i)
      BY <1>0, <1>1 DEF QgAnchored
    <3>3. i # n
      BY <1>1, <3>1, <3>2 DEF AnchoredAt
    <3>4. i \in 1..(n - 1) /\ stack'[i] = stack[i] /\ \A j \in (i + 1)..n : j \in 1..n
      BY <1>4, <3>3
    <3>5. qgPos'[q] = qgPos[q]
      BY <1>3, <3>1 DEF MoveQg
    <3>6. \A j \in (i + 1)..n : ~stack'[j].qg[q]
      BY <1>0, <1>5, <3>2, <3>4 DEF AnchoredAt
    <3>7. AnchoredAt(q, i)'
      BY <1>4, <3>2, <3>4, <3>5, <3>6 DEF AnchoredAt
    <3> QED BY <3>7
  <2> QED BY <2>1, <2>2
<1> QED BY <1>13, <1>14, <1>15, <1>16, <1>17, <1>18, <1>19, <1>20

(* Leaving a split restores the counters saved when it was entered. *)
LEMMA ExitPops ==
  ASSUME IInv, ExitCurrSplit
  PROVE  /\ Len(stack) > 1 /\ Len(saved) = Len(stack) - 1
         /\ curr' = saved[Len(saved)]
<1> USE DEF IInv
<1>0. PICK n \in Nat \ {0} : n = Len(stack)
  BY DEF TypeOK
<1>1. /\ n = Len(stack) /\ n > 1 /\ n \in Nat /\ stack \in Seq(Level)
      /\ Top = stack[n] /\ Top \in Level
      /\ saved \in Seq(Counters) /\ Len(saved) = n - 1
      /\ CountersAt(n) = curr /\ CountersAt(n - 1) = saved[n - 1] /\ n \in 2..n
  BY <1>0 DEF TypeOK, Top, CountersAt, ExitCurrSplit
<1>2. BalancedAt(n)
  BY <1>0, <1>1 DEF Balanced
<1> DEFINE up == saved[n - 1]
           implicit == stack[n - 1].isImplicit
<1>3. /\ up \in Counters /\ implicit \in BOOLEAN /\ Top.idx \in Nat /\ Top.split \in Splits
  <2>1. up \in Counters /\ implicit \in BOOLEAN
    <3>1. stack[n - 1] \in Level /\ n - 1 \in 1..Len(saved)
      BY <1>1
    <3>2. \A sq \in Seq(Counters) : \A k \in 1..Len(sq) : sq[k] \in Counters
      OBVIOUS
    <3>3. up \in Counters
      BY <1>1, <3>1, <3>2, Zenon
    <3> QED BY <3>1, <3>3 DEF Level
  <2>2. Top.idx \in Nat /\ Top.split \in Splits
    BY <1>1, <1>2 DEF Level, BalancedAt
  <2> QED BY <2>1, <2>2
<1>4. /\ Top.split = "QUAD" => up.bt = 0 /\ up.mt = 0
      /\ curr = Descend(up, Top.split, Top.idx, Top.split # "QUAD" /\ implicit)
  BY <1>1, <1>2 DEF BalancedAt
<1>5. curr' = Pop(curr, Top.split, Top.idx, implicit)
  BY <1>0 DEF ExitCurrSplit
<1> HIDE DEF up, implicit
<1>6. Pop(Descend(up, Top.split, Top.idx, Top.split # "QUAD" /\ implicit),
          Top.split, Top.idx, implicit) = up
  BY <1>3, <1>4, PopInverts
<1>7. curr' = up
  BY <1>4, <1>5, <1>6, Zenon
<1> QED BY <1>1, <1>7 DEF up

(* The beginning of a sequence keeps its elements. *)
LEMMA PrefixKeeps ==
  ASSUME NEW S, NEW s \in Seq(S), NEW m, m \in 0..Len(s)
  PROVE  /\ Len(SubSeq(s, 1, m)) = m /\ SubSeq(s, 1, m) \in Seq(S)
         /\ \A i \in 1..m : SubSeq(s, 1, m)[i] = s[i]
  OBVIOUS

(* exitCurrSplit preserves the invariant. *)
LEMMA ExitInv == IInv /\ ExitCurrSplit => IInv'
<1> SUFFICES ASSUME IInv, ExitCurrSplit PROVE IInv'
  OBVIOUS
<1> USE DEF IInv
<1>0. PICK n \in Nat \ {0} : n = Len(stack)
  BY DEF TypeOK
<1> DEFINE parent == stack[n - 1]
<1>1. /\ n = Len(stack) /\ n > 1 /\ n \in Nat /\ stack \in Seq(Level)
      /\ Top = stack[n] /\ chType \in Channels
      /\ saved \in Seq(Counters) /\ Len(saved) = n - 1 /\ n - 1 \in 1..(n - 1)
      /\ n - 1 \in 1..n /\ n \in 1..n
      /\ curr' = saved[n - 1] /\ saved[n - 1] \in Counters
  BY <1>0, ExitPops DEF TypeOK, Top
<1>2. /\ stack' = SubSeq(stack, 1, n - 1) /\ saved' = SubSeq(saved, 1, n - 2)
      /\ qgPos' = MoveQg(qgPos, parent.qg, PartOf(parent)) /\ chType' = chType
  BY <1>0, <1>1 DEF ExitCurrSplit
<1>3. /\ Len(stack') = n - 1 /\ stack' \in Seq(Level) /\ Top' = parent
      /\ \A i \in 1..(n - 1) : stack'[i] = stack[i]
  BY <1>1, <1>2 DEF Top
<1>4. /\ Len(saved') = n - 2 /\ saved' \in Seq(Counters)
      /\ \A i \in 1..(n - 2) : saved'[i] = saved[i]
  <2>1. PICK m : m = n - 2
    OBVIOUS
  <2>2. m \in 0..Len(saved)
    BY <1>1, <2>1
  <2>3. saved' = SubSeq(saved, 1, m)
    BY <1>2, <2>1
  <2>4. Len(saved') = m /\ saved' \in Seq(Counters) /\ \A i \in 1..m : saved'[i] = saved[i]
    BY <1>1, <2>2, <2>3, PrefixKeeps
  <2> QED BY <2>1, <2>4
<1>5. \A i \in 1..(n - 1) : CountersAt(i)' = CountersAt(i)
  <2> SUFFICES ASSUME NEW i \in 1..(n - 1) PROVE CountersAt(i)' = saved[i]
    BY <1>1 DEF CountersAt
  <2>1. CASE i = n - 1
    BY <1>1, <1>3, <2>1 DEF CountersAt
  <2>2. CASE i # n - 1
    <3>1. i \in 1..(n - 2) /\ i # Len(stack')
      BY <1>1, <1>3, <2>2
    <3> QED BY <1>4, <3>1 DEF CountersAt
  <2> QED BY <2>1, <2>2
<1>6. TypeOK'
  <2>1. parent \in Level /\ HasArea(parent)
    BY <1>1 DEF Suspended
  <2>2. qgPos' \in [Qg -> Pos]
    BY <1>2, <2>1, CurrAreaType, MoveQgType DEF TypeOK
  <2> QED BY <1>1, <1>2, <1>3, <1>4, <2>2 DEF TypeOK
<1>7. \A i \in 1..(n - 2) : i \in 1..(n - 1) /\ i + 1 \in 1..(n - 1)
  BY <1>1
<1>8. \A i \in 1..(n - 1) : i \in 1..n
  BY <1>1
<1>9. Suspended'
  BY <1>1, <1>3, <1>7 DEF Suspended
<1>10. PartsShape'
  BY <1>1, <1>3, <1>8 DEF PartsShape
<1>11. Balanced'
  <2> SUFFICES ASSUME NEW i \in 2..(n - 1) PROVE BalancedAt(i)'
    BY <1>3 DEF Balanced
  <2>1. i \in 1..(n - 1) /\ i - 1 \in 1..(n - 1) /\ i \in 2..n
    BY <1>1
  <2>2. BalancedAt(i)
    BY <1>0, <2>1 DEF Balanced
  <2> QED BY <1>3, <1>5, <2>1, <2>2 DEF BalancedAt
<1>12. CacheFresh'
  <2> SUFFICES ASSUME NEW i \in 1..(n - 1) PROVE FreshAt(i)'
    BY <1>3 DEF CacheFresh
  <2>1. FreshAt(i)
    BY <1>0, <1>8 DEF CacheFresh
  <2> QED BY <1>2, <1>3, <1>5, <2>1 DEF FreshAt
<1>13. DepthBudget'
  <2> SUFFICES ASSUME NEW i \in 1..(n - 1)
               PROVE  (CountersAt(i).mt <= MaxBtDepth[chType] + CountersAt(i).impl)'
    BY <1>3 DEF DepthBudget
  <2> QED BY <1>0, <1>2, <1>5, <1>8 DEF DepthBudget
<1>14. QgNested'
  <2> SUFFICES ASSUME NEW q \in Qg
               PROVE  /\ stack'[1].qg[q]
                      /\ \A i \in 1..(n - 2) : stack'[i + 1].qg[q] => stack'[i].qg[q]
    BY <1>1, <1>3 DEF QgNested
  <2>1. stack'[1].qg[q]
    BY <1>1, <1>3 DEF QgNested
  <2>2. ASSUME NEW i \in 1..(n - 2) PROVE stack'[i + 1].qg[q] => stack'[i].qg[q]
    BY <1>0, <1>3, <1>7 DEF QgNested
  <2> QED BY <2>1, <2>2
<1>15. QgAnchored'
  <2> SUFFICES ASSUME NEW q \in Qg PROVE \E i \in 1..(n - 1) : AnchoredAt(q, i)'
    BY <1>3 DEF QgAnchored
  <2>1. CASE parent.qg[q]
    <3> DEFINE m == n - 1
    <3>1. qgPos'[q] = PosOf(PartOf(parent))
      BY <1>2, <2>1 DEF MoveQg
    <3>2. AnchoredAt(q, m)'
      BY <1>1, <1>3, <2>1, <3>1 DEF AnchoredAt
    <3> QED BY <1>1, <3>2
  <2>2. CASE ~parent.qg[q]
    <3>1. ~Top.qg[q]
      BY <1>0, <1>1, <2>2 DEF QgNested
    <3>2. PICK i \in 1..n : AnchoredAt(q, i)
      BY <1>0, <1>1, <3>1 DEF QgAnchored
    <3>3. i # n /\ i # n - 1
      BY <1>1, <2>2, <3>1, <3>2 DEF AnchoredAt
    <3>4. i \in 1..(n - 1) /\ \A j \in (i + 1)..(n - 1) : j \in 1..(n - 1) /\ j \in (i + 1)..n
      BY <1>1, <3>3
    <3>5. qgPos'[q] = qgPos[q]
      BY <1>2, <2>2 DEF MoveQg
    <3>6. \A j \in (i + 1)..(n - 1) : ~stack'[j].qg[q]
      BY <1>0, <1>3, <3>2, <3>4 DEF AnchoredAt
    <3>7. AnchoredAt(q, i)'
      BY <1>3, <3>2, <3>4, <3>5, <3>6 DEF AnchoredAt
    <3> QED BY <3>4, <3>7
  <2> QED BY <2>1, <2>2
<1> QED BY <1>6, <1>9, <1>10, <1>11, <1>12, <1>13, <1>14, <1>15

(* The invariant depends on the variables only. *)
LEMMA StutterInv == IInv /\ UNCHANGED vars => IInv'
<1> SUFFICES ASSUME IInv, UNCHANGED vars PROVE IInv'
  OBVIOUS
<1> USE DEF IInv, vars
<1>1. (TypeOK /\ Suspended /\ PartsShape /\ QgNested)'
  BY DEF TypeOK, Suspended, PartsShape, QgNested
<1>2. \A i : CountersAt(i)' = CountersAt(i)
  BY DEF CountersAt
<1>3. Balanced'
  BY <1>2 DEF Balanced, BalancedAt
<1>4. CacheFresh'
  BY <1>2 DEF CacheFresh, FreshAt
<1>5. DepthBudget'
  BY <1>2 DEF DepthBudget
<1>6. QgAnchored'
  BY DEF QgAnchored, AnchoredAt, Top
<1> QED BY <1>1, <1>3, <1>4, <1>5, <1>6

(* The invariant is inductive. *)
LEMMA NextInv == IInv /\ [Next]_vars => IInv'
<1> SUFFICES ASSUME IInv, [Next]_vars PROVE IInv'
  OBVIOUS
<1>1. ASSUME NEW ctu \in CtuAreas, NEW ch \in Channels, InitCtu(ctu, ch) PROVE IInv'
  BY <1>1, InitCtuInv
<1>2. CASE Query
  BY <1>2, QueryInv
<1>3. ASSUME NEW s \in Splits, SplitCurrArea(s) PROVE IInv'
  BY <1>3, SplitInv
<1>4. CASE NextPart
  BY <1>4, NextPartInv
<1>5. CASE ExitCurrSplit
  BY <1>5, ExitInv
<1>6. CASE UNCHANGED vars
  BY <1>6, StutterInv
<1> QED BY <1>1, <1>2, <1>3, <1>4, <1>5, <1>6 DEF Next

-----------------------------------------------------------------------------
(* The inductive invariant holds of every reachable partitioner state, for *)
(* any picture size, CTU size and set of split limits.                     *)
THEOREM Invariance == Spec => []IInv
  BY InitInv, NextInv, PTL DEF Spec

(* The state keeps its type: no counter of splitCurrArea, nextPart or      *)
(* exitCurrSplit, all unsigned in the code, ever goes below zero.          *)
THEOREM TypeCorrect == Spec => []TypeOK
  BY Invariance, PTL DEF IInv

(* The depth counters are a function of the path to the current part, so   *)
(* that they describe it however many splits were tried and left before.   *)
THEOREM CountersBalanced == Spec => []Balanced
  BY Invariance, PTL DEF IInv

(* A cached implicit split is never that of an earlier part or depth.      *)
THEOREM ImplicitCacheFresh == Spec => []CacheFresh
  BY Invariance, PTL DEF IInv

(* The multi-type-tree depth stays within MaxBtDepth plus the implicit     *)
(* splits of the path, on every level of the stack.                        *)
THEOREM BudgetKept == Spec => []DepthBudget
  BY Invariance, PTL DEF IInv

(* currQgPos and currQgChromaPos name the innermost open quantisation      *)
(* group.                                                                  *)
THEOREM QgPositions == Spec => []QgAnchored
  BY Invariance, PTL DEF IInv

(* canSplit allows no split only where no implicit split applies. *)
LEMMA LeafImplicit ==
  ASSUME NEW lv, NEW c, NEW ch, "DONT" \in LegalSplits(lv, c, ch)
  PROVE  ImplicitOf(lv, c, ch) = "DONT"
  BY DEF LegalSplits

(* Where no implicit split applies the area is inside the picture. *)
LEMMA NoImplicitInside ==
  ASSUME NEW a \in Area, NEW c, NEW ch, ImplicitSplitOf(a, c, ch) = "DONT"
  PROVE  a.x + a.w <= PicW /\ a.y + a.h <= PicH
<1>1. InPic(a.x, a.y + a.h - 1) /\ InPic(a.x + a.w - 1, a.y)
  BY DEF ImplicitSplitOf, BlIn, TrIn
<1> QED BY <1>1, SizesAssumption DEF InPic, Area

(* canSplit lets an area be coded unsplit only when it lies inside the     *)
(* picture.                                                                *)
THEOREM LeavesInside == Spec => []LeafInPic
<1>1. IInv => LeafInPic
  <2> SUFFICES ASSUME IInv, OnArea, "DONT" \in LegalSplits(Top, curr, chType)
               PROVE  CurrArea.x + CurrArea.w <= PicW /\ CurrArea.y + CurrArea.h <= PicH
    BY DEF LeafInPic
  <2>1. /\ Top = stack[Len(stack)] /\ Top \in Level /\ HasArea(Top)
        /\ Len(stack) \in 1..Len(stack) /\ CountersAt(Len(stack)) = curr
    BY DEF IInv, TypeOK, Top, OnArea, CountersAt
  <2>2. CacheFreshAt(Top, curr)
    BY <2>1 DEF IInv, CacheFresh, FreshAt, CacheFreshAt
  <2>3. ImplicitSplitOf(CurrArea, curr, chType) = "DONT"
    BY <2>1, <2>2, CheckedFacts, LeafImplicit DEF CurrArea
  <2>4. CurrArea \in Area
    BY <2>1, CurrAreaType DEF CurrArea
  <2> QED BY <2>3, <2>4, NoImplicitInside
<1> QED BY <1>1, Invariance, PTL

(* exitCurrSplit brings back the counters the split was entered with,      *)
(* after its last part or before.                                          *)
THEOREM ExitsRestore == Spec => ExitRestores
<1> DEFINE Restored == Len(stack') < Len(stack) /\ Len(stack) > 1 => curr' = saved[Len(saved)]
<1>1. IInv /\ [Next]_vars => [Restored]_vars
  <2> SUFFICES ASSUME IInv, Next, Len(stack') < Len(stack), Len(stack) > 1
               PROVE  curr' = saved[Len(saved)]
    OBVIOUS
  <2>0. stack \in Seq(Level)
    BY DEF IInv, TypeOK
  <2>1. ASSUME NEW ctu \in CtuAreas, NEW ch \in Channels, InitCtu(ctu, ch) PROVE FALSE
    BY <2>1 DEF InitCtu
  <2>2. CASE Query
    BY <2>0, <2>2 DEF Query
  <2>3. ASSUME NEW s \in Splits, SplitCurrArea(s) PROVE FALSE
    <3>1. Len(stack') = Len(stack) + 1
      BY <2>0, <2>3 DEF SplitCurrArea
    <3> QED BY <2>0, <3>1
  <2>4. CASE NextPart
    BY <2>0, <2>4 DEF NextPart
  <2>5. CASE ExitCurrSplit
    BY <2>5, ExitPops
  <2> QED BY <2>1, <2>2, <2>3, <2>4, <2>5 DEF Next
<1> QED BY <1>1, Invariance, PTL DEF Spec, ExitRestores

-----------------------------------------------------------------------------
(* The areas: powers of two and their multiples *)

(* A number that d divides is d times something, and the other way round. *)
LEMMA Quotient ==
  ASSUME NEW d \in Nat \ {0}, NEW n \in Nat
  PROVE  /\ n % d = 0 => n = d * (n \div d) /\ n \div d \in Nat
         /\ \A q \in Nat : (d * q) % d = 0
BY SMT

(* What divides two numbers divides their sum, *)
LEMMA SumDivided ==
  ASSUME NEW d \in Nat \ {0}, NEW m \in Nat, NEW n \in Nat, m % d = 0, n % d = 0
  PROVE  (m + n) % d = 0
<1>1. PICK q \in Nat : m = d * q
  BY Quotient
<1>2. PICK r \in Nat : n = d * r
  BY Quotient
<1>3. m + n = d * (q + r) /\ q + r \in Nat
  BY <1>1, <1>2
<1> QED BY <1>3, Quotient

(* and half of it divides what it divides. *)
LEMMA HalfDivides ==
  ASSUME NEW d \in Nat \ {0}, NEW n \in Nat, n % (d + d) = 0
  PROVE  n % d = 0
<1>1. d + d \in Nat \ {0}
  OBVIOUS
<1>2. PICK q \in Nat : n = (d + d) * q
  BY <1>1, Quotient
<1>3. n = d * (q + q) /\ q + q \in Nat
  BY <1>2
<1> QED BY <1>3, Quotient

(* A power of two is 1 or twice a power of two. *)
LEMMA PowerHalves ==
  ASSUME NEW n \in Powers
  PROVE  /\ n \in Nat \ {0} /\ n <= CtuSize
         /\ n > 1 => n \div 2 \in Powers /\ n = (n \div 2) + (n \div 2)
<1>1. n \in Nat \ {0} /\ n <= CtuSize /\ CtuSize \in Nat /\ \A d \in 1..n : n % d = 0 => d = 1 \/ d % 2 = 0
  BY SizesAssumption DEF Powers
<1> SUFFICES ASSUME n > 1 PROVE n \div 2 \in Powers /\ n = (n \div 2) + (n \div 2)
  BY <1>1
<1>2. n % n = 0 /\ n \in 1..n
  BY <1>1
<1> DEFINE h == n \div 2
<1>3. n = h + h /\ h \in Nat \ {0} /\ h \in 1..CtuSize
  BY <1>1, <1>2
<1> HIDE DEF h
<1>4. ASSUME NEW d \in 1..h, h % d = 0 PROVE d = 1 \/ d % 2 = 0
  <2>1. d \in Nat \ {0} /\ d \in 1..n
    BY <1>3
  <2>2. n % d = 0
    BY <1>3, <1>4, <2>1, SumDivided
  <2> QED BY <1>1, <2>1, <2>2
<1>5. h \in Powers
  BY <1>3, <1>4 DEF Powers
<1> QED BY <1>3, <1>5 DEF h

(* There is none between 4 and 8 or between 8 and 16. *)
LEMMA PowerSizes ==
  ASSUME NEW n \in Powers
  PROVE  /\ n <= 8 => n \in {1, 2, 4, 8}
         /\ n > 4 => n >= 8 /\ n \div 2 >= 4
         /\ n > 8 => n >= 16 /\ n \div 2 >= 8 /\ n \div 4 >= 4
<1>1. n \in Nat \ {0} /\ \A d \in 1..n : n % d = 0 => d = 1 \/ d % 2 = 0
  BY SizesAssumption DEF Powers
<1>2. /\ n # 3 /\ n # 5 /\ n # 7 /\ n # 9 /\ n # 11 /\ n # 13 /\ n # 15
  BY <1>1
<1>3. n # 6 /\ n # 12
  <2>1. 6 % 3 = 0 /\ 12 % 3 = 0 /\ 3 # 1 /\ 3 % 2 # 0 /\ 3 \in 1..6 /\ 3 \in 1..12
    OBVIOUS
  <2> QED BY <1>1, <2>1
<1>4. n # 10
  <2>1. 10 % 5 = 0 /\ 5 # 1 /\ 5 % 2 # 0 /\ 5 \in 1..10
    OBVIOUS
  <2> QED BY <1>1, <2>1
<1>5. n # 14
  <2>1. 14 % 7 = 0 /\ 7 # 1 /\ 7 % 2 # 0 /\ 7 \in 1..14
    OBVIOUS
  <2> QED BY <1>1, <2>1
<1> QED BY <1>1, <1>2, <1>3, <1>4, <1>5

(* Quarters: three of them and one make the whole. *)
LEMMA PowerQuarters ==
  ASSUME NEW n \in Powers, n >= 4
  PROVE  /\ n \div 4 \in Powers /\ n \div 2 = (n \div 4) + (n \div 4)
         /\ LastThird(n) = (n \div 2) + (n \div 4) /\ LastThird(n) + (n \div 4) = n
         /\ n % 4 = 0
<1> DEFINE h == n \div 2
<1>1. n \in Nat /\ h \in Powers /\ n = h + h /\ h > 1
  BY PowerHalves
<1>2. h \div 2 \in Powers /\ h = (h \div 2) + (h \div 2) /\ h \in Nat
  BY <1>1, PowerHalves
<1>3. n \div 4 = h \div 2
  BY <1>1
<1> QED BY <1>1, <1>2, <1>3 DEF LastThird

(* What sticks out of a picture and lies in the grid of its own side is *)
(* longer than 8.                                                       *)
LEMMA SticksOut ==
  ASSUME NEW w \in Powers, NEW x \in Nat, NEW p \in Nat, x % w = 0, p % 8 = 0, x < p, x + w > p
  PROVE  w >= 16
<1>1. w \in Nat \ {0}
  BY PowerHalves
<1>2. w # 1 /\ w # 2 /\ w # 4 /\ w # 8
  OBVIOUS
<1> QED BY <1>1, <1>2, PowerSizes

-----------------------------------------------------------------------------
(* The splits canSplit allows *)

(* Area a starts in the picture and sticks out of it *)
Sticks(a) == StartsInPic(a) /\ ~(BlIn(a) /\ TrIn(a))

(* What an area with samples lies in, where it does not stick out. *)
LEMMA InsidePicture ==
  ASSUME NEW a \in Area, a.w > 0, a.h > 0, StartsInPic(a)
  PROVE  /\ TrIn(a) <=> a.x + a.w <= PicW
         /\ BlIn(a) <=> a.y + a.h <= PicH
BY SizesAssumption DEF Area, StartsInPic, InPic, TrIn, BlIn

(* The splits an area is to be forced into, by level and size: what sticks *)
(* out of the picture below a multi-type split is always split in two.     *)
LEMMA ImplicitFacts ==
  ASSUME NEW a \in Area, NEW ls, NEW c \in Counters, NEW ch \in Channels, AreaFits(a, ls, ch), StartsInPic(a),
         ls \in Mtt => c.bt > 0 /\ (Sticks(a) => MttLeft(c, ch))
  PROVE  LET imp == ImplicitSplitOf(a, c, ch)
         IN /\ imp \in {"QUAD", "HORZ", "VERT", "DONT"}
            /\ imp = "HORZ" => ~BlIn(a) /\ a.h >= 16 /\ a.w <= MaxTb
            /\ imp = "VERT" => ~TrIn(a) /\ a.w >= 16 /\ a.h <= MaxTb
            /\ imp \in {"HORZ", "VERT"} => a.w <= MaxBt[ch] /\ a.h <= MaxBt[ch] /\ MttLeft(c, ch)
            /\ imp = "QUAD" => ls \notin Mtt /\ a.w >= 8
            /\ imp = "DONT" <=> BlIn(a) /\ TrIn(a) /\ ~(DualTree /\ (a.w > DualTreeMax \/ a.h > DualTreeMax))
            /\ imp # "QUAD" /\ DualTree => a.w <= DualTreeMax /\ a.h <= DualTreeMax
<1> DEFINE imp == ImplicitSplitOf(a, c, ch)
           big == DualTree /\ (a.w > DualTreeMax \/ a.h > DualTreeMax)
           bt == a.w <= MaxBt[ch] /\ a.h <= MaxBt[ch] /\ MttLeft(c, ch)
           qt == a.w > MinQt[ch] /\ a.h > MinQt[ch] /\ c.bt = 0
<1>1. /\ a.x \in Nat /\ a.y \in Nat /\ a.w \in Nat /\ a.h \in Nat /\ a.w \in Powers /\ a.h \in Powers
      /\ a.w >= 4 /\ a.h >= 4 /\ DualTreeMax \in Nat /\ DualTreeMax >= 4
      /\ MaxBt[ch] \in Nat /\ MaxTb \in Nat /\ c.bt \in Nat
  BY PowersAssumption, LimitsAssumption DEF Area, AreaFits, Counters
<1>2. /\ ~TrIn(a) => a.w >= 16
      /\ ~BlIn(a) => a.h >= 16
  <2>1. Sticks(a) => Aligned(a)
    BY DEF AreaFits, Sticks
  <2>2. a.x < PicW /\ a.y < PicH
    BY DEF StartsInPic, InPic
  <2>3. PicW \in Nat /\ PicH \in Nat /\ PicW % 8 = 0 /\ PicH % 8 = 0
    BY SizesAssumption, PowersAssumption
  <2>4. ASSUME ~TrIn(a) PROVE a.w >= 16
    <3>1. a.x % a.w = 0
      BY <2>1, <2>4 DEF Sticks, Aligned
    <3>2. TrIn(a) <=> a.x + a.w <= PicW
      BY <1>1, InsidePicture
    <3>3. a.x + a.w > PicW
      BY <1>1, <2>3, <2>4, <3>2
    <3> QED BY <1>1, <2>2, <2>3, <3>1, <3>3, SticksOut
  <2>5. ASSUME ~BlIn(a) PROVE a.h >= 16
    <3>1. a.y % a.h = 0
      BY <2>1, <2>5 DEF Sticks, Aligned
    <3>2. BlIn(a) <=> a.y + a.h <= PicH
      BY <1>1, InsidePicture
    <3>3. a.y + a.h > PicH
      BY <1>1, <2>3, <2>5, <3>2
    <3> QED BY <1>1, <2>2, <2>3, <3>1, <3>3, SticksOut
  <2> QED BY <2>4, <2>5
<1>3. imp = IF big THEN "QUAD"
            ELSE IF ~BlIn(a) /\ ~TrIn(a) /\ qt THEN "QUAD"
            ELSE IF ~BlIn(a) /\ bt /\ a.w <= MaxTb THEN "HORZ"
            ELSE IF ~TrIn(a) /\ bt /\ a.h <= MaxTb THEN "VERT"
            ELSE IF ~BlIn(a) \/ ~TrIn(a) THEN "QUAD"
            ELSE "DONT"
  BY DEF ImplicitSplitOf
<1>4. ls \in Mtt => ~big /\ ~qt /\ (Sticks(a) => bt /\ a.w <= MaxTb /\ a.h <= MaxTb)
  BY <1>1 DEF AreaFits, Sticks
<1>5. ls \notin Mtt => a.w = a.h
  BY DEF AreaFits
<1>6. Sticks(a) <=> ~BlIn(a) \/ ~TrIn(a)
  BY DEF Sticks
<1> HIDE DEF imp
<1>7. imp = "QUAD" => ls \notin Mtt /\ a.w >= 8
  <2>1. imp = "QUAD" => ls \notin Mtt
    BY <1>3, <1>4, <1>6
  <2>2. big => a.w > 4 \/ a.h > 4
    BY <1>1
  <2>3. imp = "QUAD" => big \/ Sticks(a)
    BY <1>3, <1>6
  <2>4. big /\ a.w = a.h => a.w >= 8
    BY <1>1, <2>2, PowerSizes
  <2>5. Sticks(a) /\ a.w = a.h => a.w >= 8
    BY <1>1, <1>2, <1>6
  <2> HIDE DEF big
  <2> QED BY <1>5, <2>1, <2>3, <2>4, <2>5
<1>8. big \/ (a.w <= DualTreeMax /\ a.h <= DualTreeMax) \/ ~DualTree
  BY <1>1
<1>9. imp # "QUAD" => ~big
  BY <1>3
<1>10. big <=> (DualTree /\ (a.w > DualTreeMax \/ a.h > DualTreeMax))
  OBVIOUS
<1>11. bt => a.w <= MaxBt[ch] /\ a.h <= MaxBt[ch] /\ MttLeft(c, ch)
  OBVIOUS
<1> HIDE DEF big, qt, bt
<1>12. /\ imp \in {"QUAD", "HORZ", "VERT", "DONT"}
       /\ imp = "HORZ" => ~BlIn(a) /\ a.w <= MaxTb /\ bt
       /\ imp = "VERT" => ~TrIn(a) /\ a.h <= MaxTb /\ bt
       /\ imp = "DONT" <=> BlIn(a) /\ TrIn(a) /\ ~big
  BY <1>3
<1> QED BY <1>2, <1>7, <1>8, <1>9, <1>10, <1>11, <1>12 DEF imp

(* What canSplit allows on an area: parts are not too small, and the multi-  *)
(* type tree ends the quad tree.                                            *)
LEMMA LegalFacts ==
  ASSUME NEW lv, NEW c \in Counters, NEW ch \in Channels, NEW a \in Area, a = PartOf(lv),
         AreaFits(a, lv.split, ch), StartsInPic(a), ImplicitOf(lv, c, ch) = ImplicitSplitOf(a, c, ch),
         lv.split \in Splits \cup {"CTU"},
         lv.split \in Mtt => c.bt > 0 /\ (Sticks(a) => MttLeft(c, ch)),
         NEW s \in Splits, s \in LegalSplits(lv, c, ch)
  PROVE  /\ s = "QUAD" => lv.split \notin Mtt /\ a.w >= 8
         /\ s = "HORZ" => a.h >= 8
         /\ s = "VERT" => a.w >= 8
         /\ s = "TRIH" => a.h >= 16
         /\ s = "TRIV" => a.w >= 16
         /\ s \in Mtt /\ DualTree => a.w <= DualTreeMax /\ a.h <= DualTreeMax
         /\ s \in Mtt /\ Sticks(a) => s = ImplicitSplitOf(a, c, ch)
<1> DEFINE imp == ImplicitSplitOf(a, c, ch)
<1>1. /\ imp \in {"QUAD", "HORZ", "VERT", "DONT"}
      /\ imp = "HORZ" => ~BlIn(a) /\ a.h >= 16
      /\ imp = "VERT" => ~TrIn(a) /\ a.w >= 16
      /\ imp = "QUAD" => lv.split \notin Mtt /\ a.w >= 8
      /\ imp = "DONT" => BlIn(a) /\ TrIn(a)
      /\ imp # "QUAD" /\ DualTree => a.w <= DualTreeMax /\ a.h <= DualTreeMax
  BY ImplicitFacts
<1>2. /\ a.w \in Powers /\ a.h \in Powers /\ a.w \in Nat /\ a.h \in Nat
      /\ MinBt[ch] \in Nat /\ MinTt[ch] \in Nat /\ MinQt[ch] \in Nat
      /\ MinBt[ch] >= 4 /\ MinTt[ch] >= 4 /\ MinQt[ch] >= 4
  BY PowersAssumption, LimitsAssumption DEF AreaFits, Area
<1> DEFINE canQt == lv.split \in {"CTU", "QUAD"} /\ a.w > MinQt[ch]
<1>3. s = "QUAD" => imp = "QUAD" \/ canQt \/ (imp = "VERT" /\ ch = "CHROMA" /\ a.w \div 2 = 4)
  BY DEF LegalSplits, Mtt
<1>4. s \in Mtt => s = imp \/ imp = "DONT"
  BY LegalMtt
<1>5. imp = "DONT" /\ s = "HORZ" => a.h > MinBt[ch]
  BY DEF LegalSplits
<1>6. imp = "DONT" /\ s = "VERT" => a.w > MinBt[ch]
  BY DEF LegalSplits
<1>7. imp = "DONT" /\ s = "TRIH" => a.h > 2 * MinTt[ch]
  BY DEF LegalSplits, ThirdsFit
<1>8. imp = "DONT" /\ s = "TRIV" => a.w > 2 * MinTt[ch]
  BY DEF LegalSplits, ThirdsFit
<1> HIDE DEF imp
<1>9. s = "QUAD" => lv.split \notin Mtt /\ a.w >= 8
  <2>1. canQt => lv.split \notin Mtt /\ a.w > 4
    BY <1>2 DEF Mtt
  <2>2. canQt => lv.split \notin Mtt /\ a.w >= 8
    BY <1>2, <2>1, PowerSizes
  <2>3. ~(imp = "VERT" /\ a.w \div 2 = 4)
    BY <1>1, <1>2
  <2> QED BY <1>1, <1>3, <2>2, <2>3
<1>10. /\ imp = "DONT" /\ s = "HORZ" => a.h > 4
       /\ imp = "DONT" /\ s = "VERT" => a.w > 4
       /\ imp = "DONT" /\ s = "TRIH" => a.h > 8
       /\ imp = "DONT" /\ s = "TRIV" => a.w > 8
  BY <1>2, <1>5, <1>6, <1>7, <1>8
<1>11. /\ imp = "DONT" /\ s = "HORZ" => a.h >= 8
       /\ imp = "DONT" /\ s = "VERT" => a.w >= 8
       /\ imp = "DONT" /\ s = "TRIH" => a.h >= 16
       /\ imp = "DONT" /\ s = "TRIV" => a.w >= 16
  BY <1>2, <1>10, PowerSizes
<1>12. s \in {"QUAD", "HORZ", "VERT", "TRIH", "TRIV"} /\ (s \in Mtt <=> s # "QUAD")
  BY DEF Splits, Mtt
<1>13. s \in Mtt => imp # "QUAD"
  BY <1>4, <1>12
<1>14. s \in Mtt /\ Sticks(a) => s = imp
  BY <1>1, <1>4 DEF Sticks
<1>15. /\ s = "HORZ" => a.h >= 8
       /\ s = "VERT" => a.w >= 8
       /\ s = "TRIH" => a.h >= 16
       /\ s = "TRIV" => a.w >= 16
  <2>1. s \in Mtt => imp = "DONT" \/ (s = imp /\ s \in {"HORZ", "VERT"})
    BY <1>1, <1>4, <1>12
  <2> QED BY <1>1, <1>2, <1>11, <1>12, <2>1
<1> QED BY <1>1, <1>9, <1>13, <1>14, <1>15 DEF imp


(* What canSplit promises of split s of an area of a level of split ls *)
FitFor(a, ls, s, ch) ==
  /\ s = "QUAD" => ls \notin Mtt /\ a.w >= 8
  /\ s = "HORZ" => a.h >= 8
  /\ s = "VERT" => a.w >= 8
  /\ s = "TRIH" => a.h >= 16
  /\ s = "TRIV" => a.w >= 16
  /\ s \in Mtt /\ DualTree => a.w <= DualTreeMax /\ a.h <= DualTreeMax
  /\ s \in Mtt /\ Sticks(a) => /\ s = "HORZ" \/ s = "VERT"
                               /\ a.w <= MaxBt[ch] /\ a.h <= MaxBt[ch]
                               /\ s = "HORZ" => a.w <= MaxTb
                               /\ s = "VERT" => a.h <= MaxTb

(* canSplit keeps the promise. *)
LEMMA LegalIsFit ==
  ASSUME NEW lv, NEW c \in Counters, NEW ch \in Channels, NEW a \in Area, a = PartOf(lv),
         AreaFits(a, lv.split, ch), StartsInPic(a), ImplicitOf(lv, c, ch) = ImplicitSplitOf(a, c, ch),
         lv.split \in Splits \cup {"CTU"},
         lv.split \in Mtt => c.bt > 0 /\ (Sticks(a) => MttLeft(c, ch)),
         NEW s \in Splits, s \in LegalSplits(lv, c, ch)
  PROVE  FitFor(a, lv.split, s, ch)
<1> DEFINE imp == ImplicitSplitOf(a, c, ch)
<1>1. /\ imp = "HORZ" => a.w <= MaxTb
      /\ imp = "VERT" => a.h <= MaxTb
      /\ imp \in {"HORZ", "VERT"} => a.w <= MaxBt[ch] /\ a.h <= MaxBt[ch]
      /\ imp \in {"QUAD", "HORZ", "VERT", "DONT"}
  BY ImplicitFacts
<1>2. /\ s = "QUAD" => lv.split \notin Mtt /\ a.w >= 8
      /\ s = "HORZ" => a.h >= 8
      /\ s = "VERT" => a.w >= 8
      /\ s = "TRIH" => a.h >= 16
      /\ s = "TRIV" => a.w >= 16
      /\ s \in Mtt /\ DualTree => a.w <= DualTreeMax /\ a.h <= DualTreeMax
      /\ s \in Mtt /\ Sticks(a) => s = imp
  BY LegalFacts
<1> HIDE DEF imp
<1>3. s \in Mtt => s \in {"HORZ", "VERT", "TRIH", "TRIV"}
  BY DEF Mtt
<1>4. s \in Mtt /\ Sticks(a) => s = imp /\ (s = "HORZ" \/ s = "VERT")
  BY <1>1, <1>2, <1>3
<1> QED BY <1>1, <1>2, <1>4 DEF FitFor

-----------------------------------------------------------------------------
(* The parts of a split *)

Inside(p, a) == /\ a.x <= p.x /\ p.x + p.w <= a.x + a.w
                /\ a.y <= p.y /\ p.y + p.h <= a.y + a.h

(* A part fits that lies inside an area of which it need not keep more.     *)
LEMMA PartFits ==
  ASSUME NEW a \in Area, NEW p \in Area, NEW s, NEW ch, StartsInPic(a), a.w > 0, a.h > 0, Inside(p, a),
         p.w \in Powers, p.h \in Powers, p.w >= 4, p.h >= 4, p.x % 4 = 0, p.y % 4 = 0,
         s \notin Mtt => p.w = p.h /\ Aligned(p),
         s \in Mtt /\ DualTree => p.w <= DualTreeMax /\ p.h <= DualTreeMax,
         Sticks(a) => /\ Aligned(p)
                      /\ s \in Mtt => /\ p.w <= MaxBt[ch] /\ p.h <= MaxBt[ch]
                                      /\ p.w <= MaxTb /\ p.h <= MaxTb
  PROVE  AreaFits(p, s, ch)
<1>1. /\ a.x \in Nat /\ a.y \in Nat /\ a.w \in Nat /\ a.h \in Nat
      /\ p.x \in Nat /\ p.y \in Nat /\ p.w \in Nat /\ p.h \in Nat
      /\ PicW \in Nat /\ PicH \in Nat /\ MinTb = 4
  BY SizesAssumption, PowersAssumption DEF Area
<1>2. /\ TrIn(a) <=> a.x + a.w <= PicW
      /\ BlIn(a) <=> a.y + a.h <= PicH
  BY InsidePicture
<1>3. StartsInPic(p) => /\ TrIn(p) <=> p.x + p.w <= PicW
                        /\ BlIn(p) <=> p.y + p.h <= PicH
  BY <1>1, InsidePicture
<1>4. StartsInPic(p) /\ ~(BlIn(p) /\ TrIn(p)) => Sticks(a)
  BY <1>1, <1>2, <1>3 DEF Inside, Sticks
<1> QED BY <1>1, <1>4 DEF AreaFits

(* Halves keep to the grid of 4 samples and to that of their own length, *)
LEMMA HalfGrid ==
  ASSUME NEW n \in Powers, n >= 8, NEW x \in Nat, x % 4 = 0
  PROVE  LET h == n \div 2
         IN /\ h \in Powers /\ h \in Nat /\ h >= 4 /\ n = h + h /\ 2 * h <= CtuSize
            /\ (x + h) % 4 = 0
            /\ x % n = 0 => x % h = 0 /\ (x + h) % h = 0
<1> DEFINE h == n \div 2
<1>1. n \in Nat /\ n <= CtuSize /\ h \in Powers /\ n = h + h /\ CtuSize \in Nat
  BY PowerHalves, SizesAssumption
<1>2. h \in Nat \ {0} /\ h >= 4 /\ 2 * h <= CtuSize
  BY <1>1, PowerHalves
<1> HIDE DEF h
<1>3. h % 4 = 0
  BY <1>1, <1>2, PowerQuarters
<1>4. (x + h) % 4 = 0
  BY <1>2, <1>3, SumDivided
<1>5. ASSUME x % n = 0 PROVE x % h = 0 /\ (x + h) % h = 0
  <2>1. x % h = 0
    BY <1>1, <1>2, <1>5, HalfDivides
  <2>2. h % h = 0
    BY <1>2
  <2> QED BY <1>2, <2>1, <2>2, SumDivided
<1> QED BY <1>1, <1>2, <1>4, <1>5 DEF h

(* and so do quarters, on the grid of 4 samples. *)
LEMMA QuarterGrid ==
  ASSUME NEW n \in Powers, n >= 16, NEW x \in Nat, x % 4 = 0
  PROVE  LET h == n \div 2
             q == n \div 4
         IN /\ h \in Powers /\ h \in Nat /\ h >= 8 /\ q \in Powers /\ q \in Nat /\ q >= 4
            /\ h = q + q /\ LastThird(n) = h + q /\ n = h + q + q
            /\ (x + q) % 4 = 0 /\ (x + LastThird(n)) % 4 = 0
<1> DEFINE h == n \div 2
           q == n \div 4
<1>1. n \in Nat /\ h \in Powers /\ n = h + h /\ h \in Nat /\ h >= 8
  BY PowerHalves
<1>2. q \in Powers /\ h = q + q /\ LastThird(n) = h + q /\ LastThird(n) + q = n
  <2>1. n >= 4
    BY <1>1
  <2> HIDE DEF h, q
  <2> QED BY <2>1, PowerQuarters DEF h, q
<1>3. q \in Nat \ {0} /\ q >= 4
  BY <1>1, <1>2, PowerHalves
<1> HIDE DEF h, q
<1>4. h % 4 = 0 /\ q % 4 = 0
  BY <1>1, <1>2, <1>3, PowerQuarters
<1>5. (x + q) % 4 = 0 /\ (h + q) % 4 = 0
  BY <1>1, <1>3, <1>4, SumDivided
<1>6. h + q \in Nat
  BY <1>1, <1>3
<1>7. (x + (h + q)) % 4 = 0
  BY <1>5, <1>6, SumDivided
<1>8. (x + LastThird(n)) % 4 = 0
  BY <1>2, <1>7
<1> QED BY <1>1, <1>2, <1>3, <1>5, <1>8 DEF h, q

(* Where the parts of a split lie and what they measure *)
Grid(a, s) ==
  LET hw == a.w \div 2   hh == a.h \div 2   qw == a.w \div 4   qh == a.h \div 4
  IN /\ s \in {"QUAD", "VERT"} => a.w = hw + hw /\ hw \in Nat \ {0}
     /\ s \in {"QUAD", "HORZ"} => a.h = hh + hh /\ hh \in Nat \ {0}
     /\ s = "TRIH" => a.h = hh + hh /\ hh = qh + qh /\ qh \in Nat \ {0} /\ LastThird(a.h) = hh + qh
     /\ s = "TRIV" => a.w = hw + hw /\ hw = qw + qw /\ qw \in Nat \ {0} /\ LastThird(a.w) = hw + qw

(* An area fit for a split divides into its parts without a rest. *)
LEMMA FitGrid ==
  ASSUME NEW a \in Area, NEW ls, NEW s \in Splits, NEW ch, AreaFits(a, ls, ch), FitFor(a, ls, s, ch)
  PROVE  Grid(a, s)
<1>1. a.w \in Powers /\ a.h \in Powers /\ a.w \in Nat /\ a.h \in Nat
  BY DEF AreaFits, Area
<1>2. ls \notin Mtt => a.w = a.h
  BY DEF AreaFits
<1>3. ASSUME NEW n \in Powers, n >= 8 PROVE n = (n \div 2) + (n \div 2) /\ n \div 2 \in Nat \ {0}
  BY <1>3, PowerHalves
<1>4. ASSUME NEW n \in Powers, n >= 16
      PROVE  /\ n = (n \div 2) + (n \div 2) /\ n \div 2 = (n \div 4) + (n \div 4)
             /\ n \div 4 \in Nat \ {0} /\ LastThird(n) = (n \div 2) + (n \div 4)
  <2>1. n \in Nat
    BY PowerHalves
  <2>2. n >= 8 /\ n >= 4
    BY <1>4, <2>1
  <2> QED BY <1>3, <1>4, <2>1, <2>2, PowerQuarters, PowerHalves
<1>5. s \in {"QUAD", "VERT"} => a.w >= 8
  BY DEF FitFor
<1>6. s \in {"QUAD", "HORZ"} => a.h >= 8
  BY <1>2 DEF FitFor
<1>7. /\ s = "TRIH" => a.h >= 16
      /\ s = "TRIV" => a.w >= 16
  BY DEF FitFor
<1>8. s \in {"QUAD", "VERT"} => a.w = (a.w \div 2) + (a.w \div 2) /\ a.w \div 2 \in Nat \ {0}
  BY <1>1, <1>3, <1>5
<1>9. s \in {"QUAD", "HORZ"} => a.h = (a.h \div 2) + (a.h \div 2) /\ a.h \div 2 \in Nat \ {0}
  BY <1>1, <1>3, <1>6
<1>10. s = "TRIH" => /\ a.h = (a.h \div 2) + (a.h \div 2) /\ a.h \div 2 = (a.h \div 4) + (a.h \div 4)
                     /\ a.h \div 4 \in Nat \ {0} /\ LastThird(a.h) = (a.h \div 2) + (a.h \div 4)
  BY <1>1, <1>4, <1>7
<1>11. s = "TRIV" => /\ a.w = (a.w \div 2) + (a.w \div 2) /\ a.w \div 2 = (a.w \div 4) + (a.w \div 4)
                     /\ a.w \div 4 \in Nat \ {0} /\ LastThird(a.w) = (a.w \div 2) + (a.w \div 4)
  BY <1>1, <1>4, <1>7
<1> QED BY <1>8, <1>9, <1>10, <1>11 DEF Grid


Sub(a, dx, dy, w, h) == [x |-> a.x + dx, y |-> a.y + dy, w |-> w, h |-> h]
HasSample(p, x, y) == p.x <= x /\ x < p.x + p.w /\ p.y <= y /\ y < p.y + p.h

(* The parts p lie in area a without overlap and leave no sample of it out *)
Tiles(p, a) ==
  /\ \A j \in 1..Len(p) : Inside(p[j], a)
  /\ \A j, k \in 1..Len(p) : j # k => ~Overlap(p[j], p[k])
  /\ \A x \in Nat, y \in Nat : HasSample(a, x, y) => \E j \in 1..Len(p) : HasSample(p[j], x, y)

(* The split into four, *)
LEMMA QuadTiles ==
  ASSUME NEW a \in Area, NEW w \in Nat \ {0}, NEW h \in Nat \ {0}, a.w = w + w, a.h = h + h
  PROVE  Tiles(<<Sub(a, 0, 0, w, h), Sub(a, w, 0, w, h), Sub(a, 0, h, w, h), Sub(a, w, h, w, h)>>, a)
<1> DEFINE p1 == Sub(a, 0, 0, w, h)   p2 == Sub(a, w, 0, w, h)
           p3 == Sub(a, 0, h, w, h)   p4 == Sub(a, w, h, w, h)
           p == <<p1, p2, p3, p4>>
<1>1. a.x \in Nat /\ a.y \in Nat
  BY DEF Area
<1>2. Inside(p1, a) /\ Inside(p2, a) /\ Inside(p3, a) /\ Inside(p4, a)
  BY <1>1 DEF Inside, Sub
<1>3. /\ ~Overlap(p1, p2) /\ ~Overlap(p1, p3) /\ ~Overlap(p1, p4)
      /\ ~Overlap(p2, p3) /\ ~Overlap(p2, p4) /\ ~Overlap(p3, p4)
      /\ ~Overlap(p2, p1) /\ ~Overlap(p3, p1) /\ ~Overlap(p4, p1)
      /\ ~Overlap(p3, p2) /\ ~Overlap(p4, p2) /\ ~Overlap(p4, p3)
  BY <1>1 DEF Overlap, Sub
<1>4. ASSUME NEW x \in Nat, NEW y \in Nat, HasSample(a, x, y)
      PROVE  HasSample(p1, x, y) \/ HasSample(p2, x, y) \/ HasSample(p3, x, y) \/ HasSample(p4, x, y)
  BY <1>1, <1>4 DEF HasSample, Sub
<1> HIDE DEF p1, p2, p3, p4
<1>5. p[1] = p1 /\ p[2] = p2 /\ p[3] = p3 /\ p[4] = p4 /\ 1..Len(p) = {1, 2, 3, 4}
  OBVIOUS
<1> HIDE DEF p
<1>6. \A j \in 1..Len(p) : Inside(p[j], a)
  BY <1>2, <1>5
<1>7. \A j, k \in 1..Len(p) : j # k => ~Overlap(p[j], p[k])
  BY <1>3, <1>5
<1>8. \A x \in Nat, y \in Nat : HasSample(a, x, y) => \E j \in 1..Len(p) : HasSample(p[j], x, y)
  BY <1>4, <1>5
<1>9. Tiles(p, a)
  BY <1>6, <1>7, <1>8 DEF Tiles
<1> QED BY <1>9 DEF p, p1, p2, p3, p4

(* into two, *)
LEMMA HalvesTile ==
  ASSUME NEW a \in Area, NEW dx \in Nat, NEW dy \in Nat, NEW w \in Nat \ {0}, NEW h \in Nat \ {0},
         \/ dx = 0 /\ dy = h /\ a.h = h + h /\ a.w = w
         \/ dy = 0 /\ dx = w /\ a.w = w + w /\ a.h = h
  PROVE  Tiles(<<Sub(a, 0, 0, w, h), Sub(a, dx, dy, w, h)>>, a)
<1> DEFINE p1 == Sub(a, 0, 0, w, h)   p2 == Sub(a, dx, dy, w, h)
           p == <<p1, p2>>
<1>1. a.x \in Nat /\ a.y \in Nat
  BY DEF Area
<1>2. Inside(p1, a) /\ Inside(p2, a)
  BY <1>1 DEF Inside, Sub
<1>3. ~Overlap(p1, p2) /\ ~Overlap(p2, p1)
  BY <1>1 DEF Overlap, Sub
<1>4. ASSUME NEW x \in Nat, NEW y \in Nat, HasSample(a, x, y)
      PROVE  HasSample(p1, x, y) \/ HasSample(p2, x, y)
  BY <1>1, <1>4 DEF HasSample, Sub
<1> HIDE DEF p1, p2
<1>5. p[1] = p1 /\ p[2] = p2 /\ 1..Len(p) = {1, 2}
  OBVIOUS
<1> HIDE DEF p
<1>6. \A j \in 1..Len(p) : Inside(p[j], a)
  BY <1>2, <1>5
<1>7. \A j, k \in 1..Len(p) : j # k => ~Overlap(p[j], p[k])
  BY <1>3, <1>5
<1>8. \A x \in Nat, y \in Nat : HasSample(a, x, y) => \E j \in 1..Len(p) : HasSample(p[j], x, y)
  BY <1>4, <1>5
<1>9. Tiles(p, a)
  BY <1>6, <1>7, <1>8 DEF Tiles
<1> QED BY <1>9 DEF p, p1, p2

(* and into three: a quarter, a half and a quarter.                         *)
LEMMA ThirdsTile ==
  ASSUME NEW a \in Area, NEW q \in Nat \ {0}
  PROVE  /\ a.h = q + q + q + q /\ a.w # 0 =>
              Tiles(<<Sub(a, 0, 0, a.w, q), Sub(a, 0, q, a.w, q + q), Sub(a, 0, q + q + q, a.w, q)>>, a)
         /\ a.w = q + q + q + q /\ a.h # 0 =>
              Tiles(<<Sub(a, 0, 0, q, a.h), Sub(a, q, 0, q + q, a.h), Sub(a, q + q + q, 0, q, a.h)>>, a)
<1>1. a.x \in Nat /\ a.y \in Nat /\ a.w \in Nat /\ a.h \in Nat
  BY DEF Area
<1>2. ASSUME NEW p1, NEW p2, NEW p3, Inside(p1, a), Inside(p2, a), Inside(p3, a),
             ~Overlap(p1, p2), ~Overlap(p1, p3), ~Overlap(p2, p3),
             ~Overlap(p2, p1), ~Overlap(p3, p1), ~Overlap(p3, p2),
             \A x \in Nat, y \in Nat :
               HasSample(a, x, y) => HasSample(p1, x, y) \/ HasSample(p2, x, y) \/ HasSample(p3, x, y)
      PROVE  Tiles(<<p1, p2, p3>>, a)
  <2> DEFINE p == <<p1, p2, p3>>
  <2>1. p[1] = p1 /\ p[2] = p2 /\ p[3] = p3 /\ 1..Len(p) = {1, 2, 3}
    OBVIOUS
  <2> HIDE DEF p
  <2>2. \A j \in 1..Len(p) : Inside(p[j], a)
    BY <1>2, <2>1
  <2>3. \A j, k \in 1..Len(p) : j # k => ~Overlap(p[j], p[k])
    BY <1>2, <2>1
  <2>4. \A x \in Nat, y \in Nat : HasSample(a, x, y) => \E j \in 1..Len(p) : HasSample(p[j], x, y)
    BY <1>2, <2>1
  <2>5. Tiles(p, a)
    BY <2>2, <2>3, <2>4 DEF Tiles
  <2> QED BY <2>5 DEF p
<1>3. ASSUME a.h = q + q + q + q, a.w # 0
      PROVE  Tiles(<<Sub(a, 0, 0, a.w, q), Sub(a, 0, q, a.w, q + q), Sub(a, 0, q + q + q, a.w, q)>>, a)
  <2> DEFINE p1 == Sub(a, 0, 0, a.w, q)   p2 == Sub(a, 0, q, a.w, q + q)   p3 == Sub(a, 0, q + q + q, a.w, q)
  <2>1. Inside(p1, a) /\ Inside(p2, a) /\ Inside(p3, a)
    BY <1>1, <1>3 DEF Inside, Sub
  <2>2. /\ ~Overlap(p1, p2) /\ ~Overlap(p1, p3) /\ ~Overlap(p2, p3)
        /\ ~Overlap(p2, p1) /\ ~Overlap(p3, p1) /\ ~Overlap(p3, p2)
    BY <1>1 DEF Overlap, Sub
  <2>3. \A x \in Nat, y \in Nat :
          HasSample(a, x, y) => HasSample(p1, x, y) \/ HasSample(p2, x, y) \/ HasSample(p3, x, y)
    BY <1>1, <1>3 DEF HasSample, Sub
  <2> HIDE DEF p1, p2, p3
  <2>4. Tiles(<<p1, p2, p3>>, a)
    BY <1>2, <2>1, <2>2, <2>3
  <2> QED BY <2>4 DEF p1, p2, p3
<1>4. ASSUME a.w = q + q + q + q, a.h # 0
      PROVE  Tiles(<<Sub(a, 0, 0, q, a.h), Sub(a, q, 0, q + q, a.h), Sub(a, q + q + q, 0, q, a.h)>>, a)
  <2> DEFINE p1 == Sub(a, 0, 0, q, a.h)   p2 == Sub(a, q, 0, q + q, a.h)   p3 == Sub(a, q + q + q, 0, q, a.h)
  <2>1. Inside(p1, a) /\ Inside(p2, a) /\ Inside(p3, a)
    BY <1>1, <1>4 DEF Inside, Sub
  <2>2. /\ ~Overlap(p1, p2) /\ ~Overlap(p1, p3) /\ ~Overlap(p2, p3)
        /\ ~Overlap(p2, p1) /\ ~Overlap(p3, p1) /\ ~Overlap(p3, p2)
    BY <1>1 DEF Overlap, Sub
  <2>3. \A x \in Nat, y \in Nat :
          HasSample(a, x, y) => HasSample(p1, x, y) \/ HasSample(p2, x, y) \/ HasSample(p3, x, y)
    BY <1>1, <1>4 DEF HasSample, Sub
  <2> HIDE DEF p1, p2, p3
  <2>4. Tiles(<<p1, p2, p3>>, a)
    BY <1>2, <2>1, <2>2, <2>3
  <2> QED BY <2>4 DEF p1, p2, p3
<1> QED BY <1>3, <1>4

(* The parts of a split tile the area they split.                           *)
LEMMA SubAreasTile ==
  ASSUME NEW a \in Area, NEW s \in Splits, Grid(a, s), a.w # 0, a.h # 0
  PROVE  Tiles(SubAreas(a, s), a)
<1> DEFINE hw == a.w \div 2   qw == a.w \div 4   hh == a.h \div 2   qh == a.h \div 4
<1>1. a.w \in Nat \ {0} /\ a.h \in Nat \ {0}
  BY DEF Area
<1>2. SubAreas(a, s) =
        CASE s = "QUAD" -> <<Sub(a, 0, 0, hw, hh), Sub(a, hw, 0, hw, hh),
                             Sub(a, 0, hh, hw, hh), Sub(a, hw, hh, hw, hh)>>
          [] s = "HORZ" -> <<Sub(a, 0, 0, a.w, hh), Sub(a, 0, hh, a.w, hh)>>
          [] s = "VERT" -> <<Sub(a, 0, 0, hw, a.h), Sub(a, hw, 0, hw, a.h)>>
          [] s = "TRIH" -> <<Sub(a, 0, 0, a.w, qh), Sub(a, 0, qh, a.w, hh), Sub(a, 0, LastThird(a.h), a.w, qh)>>
          [] s = "TRIV" -> <<Sub(a, 0, 0, qw, a.h), Sub(a, qw, 0, hw, a.h), Sub(a, LastThird(a.w), 0, qw, a.h)>>
  BY DEF SubAreas, Sub
<1>3. /\ s \in {"QUAD", "VERT"} => a.w = hw + hw /\ hw \in Nat \ {0}
      /\ s \in {"QUAD", "HORZ"} => a.h = hh + hh /\ hh \in Nat \ {0}
      /\ s = "TRIH" => a.h = hh + hh /\ hh = qh + qh /\ qh \in Nat \ {0} /\ LastThird(a.h) = hh + qh
      /\ s = "TRIV" => a.w = hw + hw /\ hw = qw + qw /\ qw \in Nat \ {0} /\ LastThird(a.w) = hw + qw
  BY DEF Grid
<1> HIDE DEF hw, qw, hh, qh
<1>4. CASE s = "QUAD"
  BY <1>2, <1>3, <1>4, QuadTiles
<1>5. CASE s = "HORZ"
  <2>1. Tiles(<<Sub(a, 0, 0, a.w, hh), Sub(a, 0, hh, a.w, hh)>>, a)
    BY <1>1, <1>3, <1>5, HalvesTile
  <2> QED BY <1>2, <1>5, <2>1
<1>6. CASE s = "VERT"
  <2>1. Tiles(<<Sub(a, 0, 0, hw, a.h), Sub(a, hw, 0, hw, a.h)>>, a)
    BY <1>1, <1>3, <1>6, HalvesTile
  <2> QED BY <1>2, <1>6, <2>1
<1>7. CASE s = "TRIH"
  <2>1. a.h = qh + qh + qh + qh /\ hh = qh + qh /\ LastThird(a.h) = qh + qh + qh /\ qh \in Nat \ {0}
    BY <1>3, <1>7
  <2>2. Tiles(<<Sub(a, 0, 0, a.w, qh), Sub(a, 0, qh, a.w, qh + qh), Sub(a, 0, qh + qh + qh, a.w, qh)>>, a)
    BY <1>1, <2>1, ThirdsTile
  <2> QED BY <1>2, <1>7, <2>1, <2>2
<1>8. CASE s = "TRIV"
  <2>1. a.w = qw + qw + qw + qw /\ hw = qw + qw /\ LastThird(a.w) = qw + qw + qw /\ qw \in Nat \ {0}
    BY <1>3, <1>8
  <2>2. Tiles(<<Sub(a, 0, 0, qw, a.h), Sub(a, qw, 0, qw + qw, a.h), Sub(a, qw + qw + qw, 0, qw, a.h)>>, a)
    BY <1>1, <2>1, ThirdsTile
  <2> QED BY <1>2, <1>8, <2>1, <2>2
<1> QED BY <1>4, <1>5, <1>6, <1>7, <1>8 DEF Splits, Mtt

(* What a part of split s of area a keeps to besides lying inside it        *)
PartKeeps(p, a, s, ch) ==
  /\ p.w \in Powers /\ p.h \in Powers /\ p.w >= 4 /\ p.h >= 4 /\ p.x % 4 = 0 /\ p.y % 4 = 0
  /\ s \notin Mtt => p.w = p.h /\ Aligned(p)
  /\ s \in Mtt /\ DualTree => p.w <= DualTreeMax /\ p.h <= DualTreeMax
  /\ Sticks(a) => /\ Aligned(p)
                  /\ s \in Mtt => /\ p.w <= MaxBt[ch] /\ p.h <= MaxBt[ch]
                                  /\ p.w <= MaxTb /\ p.h <= MaxTb

(* Each of the splits makes such parts: the quad split, *)
LEMMA QuadKeeps ==
  ASSUME NEW a \in Area, NEW ls, NEW ch \in Channels, AreaFits(a, ls, ch), ls \notin Mtt, a.w >= 8
  PROVE  LET h == a.w \div 2
         IN  \A dx \in {0, h}, dy \in {0, h} : PartKeeps(Sub(a, dx, dy, h, h), a, "QUAD", ch)
<1> DEFINE h == a.w \div 2
<1>1. /\ a.x \in Nat /\ a.y \in Nat /\ a.w \in Powers /\ a.x % 4 = 0 /\ a.y % 4 = 0
      /\ a.h = a.w /\ a.x % a.w = 0 /\ a.y % a.w = 0
  BY PowersAssumption DEF Area, AreaFits, Aligned
<1>2. /\ h \in Powers /\ h \in Nat /\ h >= 4
      /\ (a.x + h) % 4 = 0 /\ a.x % h = 0 /\ (a.x + h) % h = 0
  BY <1>1, HalfGrid
<1>3. (a.y + h) % 4 = 0 /\ a.y % h = 0 /\ (a.y + h) % h = 0
  BY <1>1, HalfGrid
<1> HIDE DEF h
<1>4. SUFFICES ASSUME NEW dx \in {0, h}, NEW dy \in {0, h} PROVE PartKeeps(Sub(a, dx, dy, h, h), a, "QUAD", ch)
  BY DEF h
<1> DEFINE p == Sub(a, dx, dy, h, h)
<1>5. p.w = h /\ p.h = h /\ p.x = a.x + dx /\ p.y = a.y + dy
  BY DEF Sub
<1> HIDE DEF p
<1>6. /\ p.x % 4 = 0 /\ p.y % 4 = 0 /\ p.x % h = 0 /\ p.y % h = 0
  <2>0. \A n \in Nat, d \in {0, h} : n + d = n \/ n + d = n + h
    OBVIOUS
  <2>1. p.x = a.x \/ p.x = a.x + h
    BY <1>1, <1>5, <2>0
  <2>2. p.y = a.y \/ p.y = a.y + h
    BY <1>1, <1>5, <2>0
  <2>3. a.y % h = 0 /\ a.y % 4 = 0 /\ a.x % h = 0 /\ a.x % 4 = 0
    BY <1>1, <1>2, <1>3
  <2>4. p.x % 4 = 0 /\ p.x % h = 0
    BY <1>2, <2>1, <2>3
  <2>5. p.y % 4 = 0 /\ p.y % h = 0
    BY <1>3, <2>2, <2>3
  <2> QED BY <2>4, <2>5
<1>7. Aligned(p)
  BY <1>5, <1>6 DEF Aligned
<1>8. PartKeeps(p, a, "QUAD", ch)
  BY <1>2, <1>5, <1>6, <1>7 DEF PartKeeps, Mtt
<1> QED BY <1>8 DEF p

(* the binary splits *)
LEMMA HalvesKeep ==
  ASSUME NEW a \in Area, NEW ls, NEW s \in {"HORZ", "VERT"}, NEW ch \in Channels,
         AreaFits(a, ls, ch), FitFor(a, ls, s, ch)
  PROVE  LET w == IF s = "VERT" THEN a.w \div 2 ELSE a.w
             h == IF s = "HORZ" THEN a.h \div 2 ELSE a.h
         IN /\ PartKeeps(Sub(a, 0, 0, w, h), a, s, ch)
            /\ s = "HORZ" => PartKeeps(Sub(a, 0, h, w, h), a, s, ch)
            /\ s = "VERT" => PartKeeps(Sub(a, w, 0, w, h), a, s, ch)
<1> DEFINE w == IF s = "VERT" THEN a.w \div 2 ELSE a.w
           h == IF s = "HORZ" THEN a.h \div 2 ELSE a.h
<1>1. /\ a.x \in Nat /\ a.y \in Nat /\ a.w \in Powers /\ a.h \in Powers /\ a.x % 4 = 0 /\ a.y % 4 = 0
      /\ a.w \in Nat /\ a.h \in Nat /\ a.w >= 4 /\ a.h >= 4
      /\ MaxTb \in Nat /\ CtuSize <= 2 * MaxTb /\ CtuSize \in Nat
      /\ DualTreeMax \in Nat /\ MaxBt[ch] \in Nat
      /\ Sticks(a) => a.x % a.w = 0 /\ a.y % a.h = 0
  BY PowersAssumption, LimitsAssumption, SizesAssumption DEF Area, AreaFits, Aligned, Sticks
<1>2. /\ s \in Mtt /\ (s = "HORZ" => a.h >= 8) /\ (s = "VERT" => a.w >= 8)
      /\ DualTree => a.w <= DualTreeMax /\ a.h <= DualTreeMax
      /\ Sticks(a) => /\ a.w <= MaxBt[ch] /\ a.h <= MaxBt[ch]
                      /\ s = "HORZ" => a.w <= MaxTb
                      /\ s = "VERT" => a.h <= MaxTb
  BY DEF FitFor, Mtt
<1>3. s = "VERT" => /\ w \in Powers /\ w \in Nat /\ w >= 4 /\ a.w = w + w /\ 2 * w <= CtuSize
                    /\ (a.x + w) % 4 = 0 /\ (a.x % a.w = 0 => a.x % w = 0 /\ (a.x + w) % w = 0)
  <2> SUFFICES ASSUME s = "VERT"
               PROVE  LET k == a.w \div 2
                      IN /\ k \in Powers /\ k \in Nat /\ k >= 4 /\ a.w = k + k /\ 2 * k <= CtuSize
                         /\ (a.x + k) % 4 = 0 /\ (a.x % a.w = 0 => a.x % k = 0 /\ (a.x + k) % k = 0)
    OBVIOUS
  <2>1. a.w >= 8
    BY <1>2
  <2> QED BY <1>1, <2>1, HalfGrid
<1>4. s = "HORZ" => /\ h \in Powers /\ h \in Nat /\ h >= 4 /\ a.h = h + h /\ 2 * h <= CtuSize
                    /\ (a.y + h) % 4 = 0 /\ (a.y % a.h = 0 => a.y % h = 0 /\ (a.y + h) % h = 0)
  <2> SUFFICES ASSUME s = "HORZ"
               PROVE  LET k == a.h \div 2
                      IN /\ k \in Powers /\ k \in Nat /\ k >= 4 /\ a.h = k + k /\ 2 * k <= CtuSize
                         /\ (a.y + k) % 4 = 0 /\ (a.y % a.h = 0 => a.y % k = 0 /\ (a.y + k) % k = 0)
    OBVIOUS
  <2>1. a.h >= 8
    BY <1>2
  <2> QED BY <1>1, <2>1, HalfGrid
<1>5. (s = "VERT" => h = a.h) /\ (s = "HORZ" => w = a.w) /\ (s = "HORZ" \/ s = "VERT") /\ ~(s = "HORZ" /\ s = "VERT")
  OBVIOUS
<1> HIDE DEF w, h
<1>6. w \in Powers /\ h \in Powers /\ w \in Nat /\ h \in Nat /\ w >= 4 /\ h >= 4 /\ w <= a.w /\ h <= a.h
  BY <1>1, <1>3, <1>4, <1>5
<1>7. Sticks(a) => w <= MaxBt[ch] /\ h <= MaxBt[ch] /\ w <= MaxTb /\ h <= MaxTb
  BY <1>1, <1>2, <1>3, <1>4, <1>5, <1>6
<1>8. DualTree => w <= DualTreeMax /\ h <= DualTreeMax
  BY <1>1, <1>2, <1>6
<1>9. ASSUME NEW dx \in Nat, NEW dy \in Nat, (a.x + dx) % 4 = 0, (a.y + dy) % 4 = 0,
             Sticks(a) => (a.x + dx) % w = 0 /\ (a.y + dy) % h = 0
      PROVE  PartKeeps(Sub(a, dx, dy, w, h), a, s, ch)
  <2> DEFINE p == Sub(a, dx, dy, w, h)
  <2>1. p.w = w /\ p.h = h /\ p.x = a.x + dx /\ p.y = a.y + dy
    BY DEF Sub
  <2> HIDE DEF p
  <2>2. Sticks(a) => Aligned(p)
    BY <1>9, <2>1 DEF Aligned
  <2>3. PartKeeps(p, a, s, ch)
    BY <1>2, <1>6, <1>7, <1>8, <1>9, <2>1, <2>2 DEF PartKeeps
  <2> QED BY <2>3 DEF p
<1>10. (a.x + 0) % 4 = 0 /\ (a.y + 0) % 4 = 0 /\ a.x + 0 = a.x /\ a.y + 0 = a.y
  <2>1. a.x + 0 = a.x /\ a.y + 0 = a.y
    BY DEF Area
  <2> QED BY <1>1, <2>1, Zenon
<1>11. Sticks(a) => a.x % w = 0 /\ a.y % h = 0
  BY <1>1, <1>3, <1>4, <1>5
<1>12. PartKeeps(Sub(a, 0, 0, w, h), a, s, ch)
  BY <1>9, <1>10, <1>11
<1>13. s = "HORZ" => PartKeeps(Sub(a, 0, h, w, h), a, s, ch)
  <2> SUFFICES ASSUME s = "HORZ" PROVE PartKeeps(Sub(a, 0, h, w, h), a, s, ch)
    OBVIOUS
  <2>1. (a.y + h) % 4 = 0 /\ (Sticks(a) => (a.y + h) % h = 0)
    BY <1>1, <1>4
  <2> QED BY <1>6, <1>9, <1>10, <1>11, <2>1
<1>14. s = "VERT" => PartKeeps(Sub(a, w, 0, w, h), a, s, ch)
  <2> SUFFICES ASSUME s = "VERT" PROVE PartKeeps(Sub(a, w, 0, w, h), a, s, ch)
    OBVIOUS
  <2>1. (a.x + w) % 4 = 0 /\ (Sticks(a) => (a.x + w) % w = 0)
    BY <1>1, <1>3
  <2> QED BY <1>6, <1>9, <1>10, <1>11, <2>1
<1> QED BY <1>12, <1>13, <1>14 DEF w, h

(* and the ternary ones, which nothing that sticks out is split by.         *)
LEMMA ThirdsKeep ==
  ASSUME NEW a \in Area, NEW ls, NEW s \in {"TRIH", "TRIV"}, NEW ch \in Channels,
         AreaFits(a, ls, ch), FitFor(a, ls, s, ch)
  PROVE  LET hw == a.w \div 2   qw == a.w \div 4   hh == a.h \div 2   qh == a.h \div 4
         IN /\ s = "TRIH" => /\ PartKeeps(Sub(a, 0, 0, a.w, qh), a, s, ch)
                             /\ PartKeeps(Sub(a, 0, qh, a.w, hh), a, s, ch)
                             /\ PartKeeps(Sub(a, 0, LastThird(a.h), a.w, qh), a, s, ch)
            /\ s = "TRIV" => /\ PartKeeps(Sub(a, 0, 0, qw, a.h), a, s, ch)
                             /\ PartKeeps(Sub(a, qw, 0, hw, a.h), a, s, ch)
                             /\ PartKeeps(Sub(a, LastThird(a.w), 0, qw, a.h), a, s, ch)
<1>1. /\ a.x \in Nat /\ a.y \in Nat /\ a.w \in Powers /\ a.h \in Powers /\ a.x % 4 = 0 /\ a.y % 4 = 0
      /\ a.w \in Nat /\ a.h \in Nat /\ a.w >= 4 /\ a.h >= 4 /\ DualTreeMax \in Nat
  BY PowersAssumption, LimitsAssumption, SizesAssumption DEF Area, AreaFits
<1>2. s \in Mtt /\ ~Sticks(a) /\ (s = "TRIH" => a.h >= 16) /\ (s = "TRIV" => a.w >= 16)
      /\ (DualTree => a.w <= DualTreeMax /\ a.h <= DualTreeMax)
  BY DEF FitFor, Mtt
<1>3. ASSUME NEW dx \in Nat, NEW dy \in Nat, NEW w \in Powers, NEW h \in Powers, w >= 4, h >= 4,
             w <= a.w, h <= a.h, (a.x + dx) % 4 = 0, (a.y + dy) % 4 = 0
      PROVE  PartKeeps(Sub(a, dx, dy, w, h), a, s, ch)
  <2> DEFINE p == Sub(a, dx, dy, w, h)
  <2>1. p.w = w /\ p.h = h /\ p.x = a.x + dx /\ p.y = a.y + dy
    BY DEF Sub
  <2> HIDE DEF p
  <2>2. w \in Nat /\ h \in Nat
    BY PowerHalves
  <2>3. DualTree => w <= DualTreeMax /\ h <= DualTreeMax
    BY <1>1, <1>2, <1>3, <2>2
  <2>4. PartKeeps(p, a, s, ch)
    BY <1>2, <1>3, <2>1, <2>3 DEF PartKeeps
  <2> QED BY <2>4 DEF p
<1>4. (a.x + 0) % 4 = 0 /\ (a.y + 0) % 4 = 0
  <2>1. a.x + 0 = a.x /\ a.y + 0 = a.y
    BY DEF Area
  <2> QED BY <1>1, <2>1, Zenon
<1> DEFINE hw == a.w \div 2   qw == a.w \div 4   hh == a.h \div 2   qh == a.h \div 4
<1>5. ASSUME s = "TRIH"
      PROVE  /\ PartKeeps(Sub(a, 0, 0, a.w, qh), a, s, ch)
             /\ PartKeeps(Sub(a, 0, qh, a.w, hh), a, s, ch)
             /\ PartKeeps(Sub(a, 0, LastThird(a.h), a.w, qh), a, s, ch)
  <2>1. a.h >= 16
    BY <1>2, <1>5
  <2>2. /\ hh \in Powers /\ hh \in Nat /\ hh >= 8 /\ qh \in Powers /\ qh \in Nat /\ qh >= 4
        /\ LastThird(a.h) = hh + qh /\ a.h = hh + qh + qh
        /\ (a.y + qh) % 4 = 0 /\ (a.y + LastThird(a.h)) % 4 = 0
    BY <1>1, <2>1, QuarterGrid
  <2> DEFINE l == LastThird(a.h)
  <2> HIDE DEF hh, qh, l
  <2>3. l \in Nat /\ qh <= a.h /\ hh <= a.h /\ hh >= 4 /\ (a.y + l) % 4 = 0 /\ a.w <= a.w
    BY <1>1, <2>2 DEF l
  <2>4. PartKeeps(Sub(a, 0, 0, a.w, qh), a, s, ch)
    BY <1>1, <1>3, <1>4, <2>2, <2>3
  <2>5. PartKeeps(Sub(a, 0, qh, a.w, hh), a, s, ch)
    BY <1>1, <1>3, <1>4, <2>2, <2>3
  <2>6. PartKeeps(Sub(a, 0, l, a.w, qh), a, s, ch)
    BY <1>1, <1>3, <1>4, <2>2, <2>3
  <2> QED BY <2>4, <2>5, <2>6 DEF l
<1>6. ASSUME s = "TRIV"
      PROVE  /\ PartKeeps(Sub(a, 0, 0, qw, a.h), a, s, ch)
             /\ PartKeeps(Sub(a, qw, 0, hw, a.h), a, s, ch)
             /\ PartKeeps(Sub(a, LastThird(a.w), 0, qw, a.h), a, s, ch)
  <2>1. a.w >= 16
    BY <1>2, <1>6
  <2>2. /\ hw \in Powers /\ hw \in Nat /\ hw >= 8 /\ qw \in Powers /\ qw \in Nat /\ qw >= 4
        /\ LastThird(a.w) = hw + qw /\ a.w = hw + qw + qw
        /\ (a.x + qw) % 4 = 0 /\ (a.x + LastThird(a.w)) % 4 = 0
    BY <1>1, <2>1, QuarterGrid
  <2> DEFINE l == LastThird(a.w)
  <2> HIDE DEF hw, qw, l
  <2>3. l \in Nat /\ qw <= a.w /\ hw <= a.w /\ hw >= 4 /\ (a.x + l) % 4 = 0 /\ a.h <= a.h
    BY <1>1, <2>2 DEF l
  <2>4. PartKeeps(Sub(a, 0, 0, qw, a.h), a, s, ch)
    BY <1>1, <1>3, <1>4, <2>2, <2>3
  <2>5. PartKeeps(Sub(a, qw, 0, hw, a.h), a, s, ch)
    BY <1>1, <1>3, <1>4, <2>2, <2>3
  <2>6. PartKeeps(Sub(a, l, 0, qw, a.h), a, s, ch)
    BY <1>1, <1>3, <1>4, <2>2, <2>3
  <2> QED BY <2>4, <2>5, <2>6 DEF l
<1> QED BY <1>5, <1>6

(* Every part of an area that is fit for a split is fit for its level.      *)
LEMMA SubFits ==
  ASSUME NEW a \in Area, NEW ls, NEW s \in Splits, NEW ch \in Channels,
         StartsInPic(a), AreaFits(a, ls, ch), FitFor(a, ls, s, ch)
  PROVE  /\ Tiles(SubAreas(a, s), a)
         /\ \A j \in 1..Len(SubAreas(a, s)) : AreaFits(SubAreas(a, s)[j], s, ch)
<1> DEFINE sub == SubAreas(a, s)
<1>1. /\ a.w \in Nat /\ a.h \in Nat /\ a.w >= 4 /\ a.h >= 4
      /\ s \in {"QUAD", "HORZ", "VERT", "TRIH", "TRIV"}
  BY PowersAssumption DEF Area, AreaFits, Splits, Mtt
<1>2. Tiles(sub, a)
  BY <1>1, FitGrid, SubAreasTile
<1>3. sub \in Seq(Area)
  BY SubAreasType
<1>4. \A j \in 1..Len(sub) : PartKeeps(sub[j], a, s, ch)
  <2> DEFINE hw == a.w \div 2   qw == a.w \div 4   hh == a.h \div 2   qh == a.h \div 4
  <2>1. sub =
          CASE s = "QUAD" -> <<Sub(a, 0, 0, hw, hh), Sub(a, hw, 0, hw, hh),
                               Sub(a, 0, hh, hw, hh), Sub(a, hw, hh, hw, hh)>>
            [] s = "HORZ" -> <<Sub(a, 0, 0, a.w, hh), Sub(a, 0, hh, a.w, hh)>>
            [] s = "VERT" -> <<Sub(a, 0, 0, hw, a.h), Sub(a, hw, 0, hw, a.h)>>
            [] s = "TRIH" -> <<Sub(a, 0, 0, a.w, qh), Sub(a, 0, qh, a.w, hh), Sub(a, 0, LastThird(a.h), a.w, qh)>>
            [] s = "TRIV" -> <<Sub(a, 0, 0, qw, a.h), Sub(a, qw, 0, hw, a.h), Sub(a, LastThird(a.w), 0, qw, a.h)>>
    BY DEF SubAreas, Sub
  <2> HIDE DEF sub
  <2>2. \A p1, p2 : PartKeeps(p1, a, s, ch) /\ PartKeeps(p2, a, s, ch)
                      => \A j \in 1..Len(<<p1, p2>>) : PartKeeps(<<p1, p2>>[j], a, s, ch)
    OBVIOUS
  <2>3. \A p1, p2, p3 :
          PartKeeps(p1, a, s, ch) /\ PartKeeps(p2, a, s, ch) /\ PartKeeps(p3, a, s, ch)
            => \A j \in 1..Len(<<p1, p2, p3>>) : PartKeeps(<<p1, p2, p3>>[j], a, s, ch)
    OBVIOUS
  <2>4. \A p1, p2, p3, p4 :
          PartKeeps(p1, a, s, ch) /\ PartKeeps(p2, a, s, ch) /\ PartKeeps(p3, a, s, ch) /\ PartKeeps(p4, a, s, ch)
            => \A j \in 1..Len(<<p1, p2, p3, p4>>) : PartKeeps(<<p1, p2, p3, p4>>[j], a, s, ch)
    OBVIOUS
  <2> HIDE DEF hw, qw, hh, qh
  <2>5. CASE s = "QUAD"
    <3>1. ls \notin Mtt /\ a.w >= 8 /\ a.w = a.h
      BY <2>5 DEF FitFor, AreaFits
    <3>2. hh = hw
      BY <3>1 DEF hh, hw
    <3>3. \A dx \in {0, hw}, dy \in {0, hw} : PartKeeps(Sub(a, dx, dy, hw, hw), a, "QUAD", ch)
      BY <3>1, QuadKeeps DEF hw
    <3>4. sub = <<Sub(a, 0, 0, hw, hw), Sub(a, hw, 0, hw, hw), Sub(a, 0, hw, hw, hw), Sub(a, hw, hw, hw, hw)>>
      BY <2>1, <2>5, <3>2
    <3> QED BY <2>4, <2>5, <3>3, <3>4
  <2>6. CASE s = "HORZ"
    <3>1. PartKeeps(Sub(a, 0, 0, a.w, hh), a, s, ch) /\ PartKeeps(Sub(a, 0, hh, a.w, hh), a, s, ch)
      BY <2>6, HalvesKeep DEF hh
    <3>2. sub = <<Sub(a, 0, 0, a.w, hh), Sub(a, 0, hh, a.w, hh)>>
      BY <2>1, <2>6
    <3> QED BY <2>2, <3>1, <3>2
  <2>7. CASE s = "VERT"
    <3>1. PartKeeps(Sub(a, 0, 0, hw, a.h), a, s, ch) /\ PartKeeps(Sub(a, hw, 0, hw, a.h), a, s, ch)
      BY <2>7, HalvesKeep DEF hw
    <3>2. sub = <<Sub(a, 0, 0, hw, a.h), Sub(a, hw, 0, hw, a.h)>>
      BY <2>1, <2>7
    <3> QED BY <2>2, <3>1, <3>2
  <2>8. CASE s = "TRIH"
    <3>1. /\ PartKeeps(Sub(a, 0, 0, a.w, qh), a, s, ch)
          /\ PartKeeps(Sub(a, 0, qh, a.w, hh), a, s, ch)
          /\ PartKeeps(Sub(a, 0, LastThird(a.h), a.w, qh), a, s, ch)
      BY <2>8, ThirdsKeep DEF hh, qh
    <3>2. sub = <<Sub(a, 0, 0, a.w, qh), Sub(a, 0, qh, a.w, hh), Sub(a, 0, LastThird(a.h), a.w, qh)>>
      BY <2>1, <2>8
    <3> QED BY <2>3, <3>1, <3>2
  <2>9. CASE s = "TRIV"
    <3>1. /\ PartKeeps(Sub(a, 0, 0, qw, a.h), a, s, ch)
          /\ PartKeeps(Sub(a, qw, 0, hw, a.h), a, s, ch)
          /\ PartKeeps(Sub(a, LastThird(a.w), 0, qw, a.h), a, s, ch)
      BY <2>9, ThirdsKeep DEF hw, qw
    <3>2. sub = <<Sub(a, 0, 0, qw, a.h), Sub(a, qw, 0, hw, a.h), Sub(a, LastThird(a.w), 0, qw, a.h)>>
      BY <2>1, <2>9
    <3> QED BY <2>3, <3>1, <3>2
  <2> QED BY <1>1, <2>5, <2>6, <2>7, <2>8, <2>9
<1> HIDE DEF sub
<1>5. ASSUME NEW j \in 1..Len(sub) PROVE AreaFits(sub[j], s, ch)
  <2> DEFINE p == sub[j]
  <2>1. p \in Area /\ Inside(p, a) /\ PartKeeps(p, a, s, ch)
    BY <1>2, <1>3, <1>4 DEF Tiles
  <2> HIDE DEF p
  <2>2. AreaFits(p, s, ch)
    BY <1>1, <2>1, PartFits DEF PartKeeps
  <2> QED BY <2>2 DEF p
<1> QED BY <1>2, <1>5 DEF sub

-----------------------------------------------------------------------------
(* The levels of the stack *)

AreasAt(i) == \A j \in 1..4 :
  j <= Len(stack[i].parts) => AreaFits(stack[i].parts[j], stack[i].split, chType)
LegalAt(i) == /\ StartsInPic(PartOf(stack[i - 1]))
              /\ stack[i].split \in LegalSplits(stack[i - 1], CountersAt(i - 1), chType)
              /\ stack[i].parts = SubAreas(PartOf(stack[i - 1]), stack[i].split)
TileAt(i) == Tiles(stack[i].parts, PartOf(stack[i - 1]))

(* AreaInv level by level, with what the parts of a level tile *)
LevelInv == /\ CountersAt(1) = Zero
            /\ \A i \in 1..Len(stack) : AreasAt(i)
            /\ \A i \in 2..Len(stack) : LegalAt(i) /\ TileAt(i)

(* It says what AreaInv says. *)
LEMMA LevelsAreAreas == LevelInv => AreaInv
  BY DEF LevelInv, AreaInv, AreasFit, LevelsLegal, AreasAt, LegalAt

(* Counters and areas of a level that has a part, and what lies below it.   *)
LEMMA LevelFacts ==
  ASSUME IInv, LevelInv, NEW i \in 1..Len(stack), HasArea(stack[i])
  PROVE  /\ stack[i] \in Level /\ CountersAt(i) \in Counters /\ chType \in Channels
         /\ PartOf(stack[i]) \in Area /\ AreaFits(PartOf(stack[i]), stack[i].split, chType)
         /\ stack[i].split \in Splits \cup {"CTU"}
         /\ ImplicitOf(stack[i], CountersAt(i), chType)
              = ImplicitSplitOf(PartOf(stack[i]), CountersAt(i), chType)
<1> USE DEF IInv
<1>0. PICK n \in Nat \ {0} : n = Len(stack)
  BY DEF TypeOK
<1>1. /\ n = Len(stack) /\ stack \in Seq(Level) /\ curr \in Counters /\ chType \in Channels
      /\ saved \in Seq(Counters) /\ Len(saved) = n - 1 /\ i \in 1..n
  BY <1>0 DEF TypeOK
<1>2. stack[i] \in Level
  BY <1>1
<1>3. CountersAt(i) \in Counters
  <2>1. CASE i = n
    BY <1>1, <2>1 DEF CountersAt
  <2>2. CASE i # n
    <3>1. i \in 1..Len(saved)
      BY <1>1, <2>2
    <3>2. \A sq \in Seq(Counters) : \A k \in 1..Len(sq) : sq[k] \in Counters
      OBVIOUS
    <3>3. saved[i] \in Counters
      BY <1>1, <3>1, <3>2, Zenon
    <3> QED BY <1>1, <2>2, <3>3 DEF CountersAt
  <2> QED BY <2>1, <2>2
<1>4. PartOf(stack[i]) \in Area
  BY <1>2, CurrAreaType
<1>5. AreaFits(PartOf(stack[i]), stack[i].split, chType)
  <2>1. Len(stack[i].parts) = NumParts(stack[i].split) /\ AreasAt(i)
    BY <1>0, <1>1 DEF PartsShape, LevelInv
  <2>2. NumParts(stack[i].split) \in {1, 2, 3, 4}
    BY DEF NumParts
  <2>3. stack[i].idx \in Nat
    BY <1>2 DEF Level
  <2>4. stack[i].idx + 1 \in 1..4 /\ stack[i].idx + 1 <= Len(stack[i].parts)
    BY <2>1, <2>2, <2>3 DEF HasArea
  <2> QED BY <2>1, <2>4 DEF AreasAt, PartOf
<1>6. FreshAt(i)
  BY <1>0, <1>1 DEF CacheFresh
<1>7. ImplicitOf(stack[i], CountersAt(i), chType) = ImplicitSplitOf(PartOf(stack[i]), CountersAt(i), chType)
  BY <1>6 DEF FreshAt, ImplicitOf
<1> QED BY <1>1, <1>2, <1>3, <1>4, <1>5, <1>7 DEF Level

(* An area with samples that sticks out of the picture lies in none that does not. *)
LEMMA AroundSticks ==
  ASSUME NEW a \in Area, NEW p \in Area, a.w > 0, a.h > 0, p.w > 0, p.h > 0,
         StartsInPic(a), Inside(p, a), Sticks(p)
  PROVE  Sticks(a)
<1>1. (TrIn(a) <=> a.x + a.w <= PicW) /\ (BlIn(a) <=> a.y + a.h <= PicH)
  BY InsidePicture
<1>2. (TrIn(p) <=> p.x + p.w <= PicW) /\ (BlIn(p) <=> p.y + p.h <= PicH)
  BY InsidePicture DEF Sticks
<1>3. a.x + a.w > PicW \/ a.y + a.h > PicH
  BY <1>2, SizesAssumption DEF Sticks, Inside, Area
<1> QED BY <1>1, <1>3, SizesAssumption DEF Sticks, Area

(* In the multi-type tree what sticks out of the picture came of an implicit *)
(* split, which leaves the depth for the next one.                          *)
LEMMA DeeperLeft ==
  ASSUME IInv, LevelInv, NEW i \in 1..Len(stack), HasArea(stack[i]), stack[i].split \in Mtt
  PROVE  /\ CountersAt(i).bt > 0
         /\ Sticks(PartOf(stack[i])) => MttLeft(CountersAt(i), chType)
<1> USE DEF IInv
<1>0. PICK n \in Nat \ {0} : n = Len(stack)
  BY DEF TypeOK
<1>1. i \in 2..n /\ i - 1 \in 1..(n - 1) /\ i - 1 \in 1..Len(stack)
  <2>1. i # 1
    BY DEF PartsShape, Mtt
  <2> QED BY <1>0, <2>1
<1> DEFINE k == i - 1
           s == stack[i].split
           up == CountersAt(k)
           a == PartOf(stack[k])
           p == PartOf(stack[i])
           imp == ImplicitSplitOf(a, up, chType)
<1>2. stack[k].checked /\ HasArea(stack[k]) /\ k \in 1..Len(stack)
  BY <1>0, <1>1 DEF Suspended
<1>3. /\ up \in Counters /\ chType \in Channels /\ a \in Area /\ stack[k] \in Level
      /\ AreaFits(a, stack[k].split, chType)
      /\ ImplicitOf(stack[k], up, chType) = imp
  BY <1>2, LevelFacts
<1>4. p \in Area /\ AreaFits(p, stack[i].split, chType) /\ stack[i] \in Level
  BY LevelFacts
<1>5. FreshAt(k) /\ BalancedAt(i) /\ LegalAt(i) /\ TileAt(i)
  BY <1>0, <1>1, <1>2 DEF CacheFresh, Balanced, LevelInv
<1>6. /\ stack[k].implicitSplit = imp /\ stack[k].isImplicit = (imp # "DONT")
      /\ CountersAt(i) = Descend(up, s, stack[i].idx, s # "QUAD" /\ stack[k].isImplicit)
      /\ StartsInPic(a) /\ s \in LegalSplits(stack[k], up, chType)
      /\ Tiles(stack[i].parts, a)
  BY <1>2, <1>5 DEF FreshAt, BalancedAt, LegalAt, TileAt
<1>7. Inside(p, a)
  <2>1. stack[i].idx \in Nat
    BY <1>4 DEF Level
  <2>2. stack[i].idx + 1 \in 1..Len(stack[i].parts)
    BY <1>4, <2>1 DEF HasArea, Level
  <2> QED BY <1>6, <2>2 DEF Tiles, PartOf
<1> HIDE DEF k, a, p, up, imp
<1>8. Sticks(p) => Sticks(a)
  <2>1. a.w > 0 /\ a.h > 0
    BY <1>3, PowersAssumption DEF AreaFits, Area
  <2>2. p.w > 0 /\ p.h > 0
    BY <1>4, PowersAssumption DEF AreaFits, Area
  <2> QED BY <1>3, <1>4, <1>6, <1>7, <2>1, <2>2, AroundSticks
<1>9. s \in Mtt /\ s # "QUAD" /\ s \in Splits
  BY DEF Mtt, Splits
<1>10. imp = "DONT" => ~Sticks(a)
  BY DEF imp, ImplicitSplitOf, Sticks
<1>11. s = imp \/ imp = "DONT"
  BY <1>3, <1>6, <1>9, LegalMtt
<1>12. Sticks(a) => imp # "DONT" /\ up.mt < MaxBtDepth[chType] + up.impl
  <2>1. imp \in {"QUAD", "HORZ", "VERT", "DONT"}
        /\ (imp \in {"HORZ", "VERT"} => up.mt < MaxBtDepth[chType] + up.impl)
    BY ImplicitType DEF imp
  <2> QED BY <1>9, <1>10, <1>11, <2>1 DEF Mtt
<1>13. stack[i].idx \in Nat
  BY <1>4 DEF Level
<1>14. \A imp2 \in BOOLEAN :
          LET d == Descend(up, s, stack[i].idx, imp2)
          IN d.bt > 0 /\ d.mt = up.mt + 1 /\ (imp2 => d.impl = up.impl + 1)
  BY <1>3, <1>9, <1>13 DEF Descend, Counters
<1>15. CountersAt(i) = Descend(up, s, stack[i].idx, imp # "DONT")
  BY <1>6, <1>9
<1>16. /\ CountersAt(i).bt > 0 /\ CountersAt(i).mt = up.mt + 1
       /\ imp # "DONT" => CountersAt(i).impl = up.impl + 1
  BY <1>14, <1>15
<1>17. up.mt \in Nat /\ up.impl \in Nat /\ MaxBtDepth[chType] \in Nat
  BY <1>3, LimitsAssumption DEF Counters
<1>18. Sticks(p) => MttLeft(CountersAt(i), chType)
  <2> SUFFICES ASSUME Sticks(p) PROVE CountersAt(i).mt < MaxBtDepth[chType] + CountersAt(i).impl
    BY DEF MttLeft
  <2> DEFINE m == CountersAt(i).mt
             l == CountersAt(i).impl
  <2>1. m = up.mt + 1 /\ l = up.impl + 1 /\ up.mt < MaxBtDepth[chType] + up.impl
    BY <1>8, <1>12, <1>16
  <2> HIDE DEF m, l
  <2>2. m < MaxBtDepth[chType] + l
    BY <1>17, <2>1
  <2> QED BY <2>2 DEF m, l
<1> QED BY <1>16, <1>18 DEF p

(* So canSplit only allows splits that fit, on every level.                 *)
LEMMA LevelsFitSplits ==
  ASSUME IInv, LevelInv, NEW i \in 1..Len(stack), HasArea(stack[i]), StartsInPic(PartOf(stack[i])),
         NEW s \in Splits, s \in LegalSplits(stack[i], CountersAt(i), chType)
  PROVE  LET a == PartOf(stack[i])
         IN /\ FitFor(a, stack[i].split, s, chType)
            /\ Tiles(SubAreas(a, s), a)
            /\ \A j \in 1..Len(SubAreas(a, s)) : AreaFits(SubAreas(a, s)[j], s, chType)
<1> DEFINE lv == stack[i]
           a == PartOf(lv)
           c == CountersAt(i)
           ch == chType
<1>1. /\ lv \in Level /\ c \in Counters /\ ch \in Channels /\ a \in Area
      /\ AreaFits(a, lv.split, ch) /\ lv.split \in Splits \cup {"CTU"}
      /\ ImplicitOf(lv, c, ch) = ImplicitSplitOf(a, c, ch)
  BY LevelFacts
<1>2. lv.split \in Mtt => c.bt > 0 /\ (Sticks(a) => MttLeft(c, ch))
  BY DeeperLeft
<1>3. a = PartOf(lv) /\ StartsInPic(a) /\ s \in LegalSplits(lv, c, ch)
  OBVIOUS
<1> HIDE DEF a, c, lv, ch
<1>4. FitFor(a, lv.split, s, ch)
  BY <1>1, <1>2, <1>3, LegalIsFit
<1>5. /\ Tiles(SubAreas(a, s), a)
      /\ \A j \in 1..Len(SubAreas(a, s)) : AreaFits(SubAreas(a, s)[j], s, ch)
  BY <1>1, <1>3, <1>4, SubFits
<1> QED BY <1>4, <1>5 DEF a, lv, ch

-----------------------------------------------------------------------------
(* The invariant of the areas *)

(* canSplit sees of a level its split, its part and its implicit split only. *)
LEMMA LegalSame ==
  ASSUME NEW lv, NEW k, NEW c, NEW ch, k.split = lv.split, k.parts = lv.parts, k.idx = lv.idx,
         ImplicitOf(k, c, ch) = ImplicitOf(lv, c, ch)
  PROVE  LegalSplits(k, c, ch) = LegalSplits(lv, c, ch) /\ PartOf(k) = PartOf(lv)
<1>1. PartOf(k) = PartOf(lv)
  BY DEF PartOf
<1> QED BY <1>1 DEF LegalSplits

(* A CTU lies in its own grid, *)
LEMMA CtuFits ==
  ASSUME NEW ctu \in CtuAreas, NEW ch \in Channels
  PROVE  ctu \in Area /\ AreaFits(ctu, "CTU", ch)
<1>1. PICK col \in Nat, row \in Nat : ctu = CtuArea(col, row)
  BY SizesAssumption DEF CtuAreas
<1> DEFINE n == CtuSize
           x == col * n
           y == row * n
<1>2. n \in Powers /\ n >= 4 /\ n \in Nat \ {0} /\ MinTb = 4
  BY PowersAssumption, SizesAssumption
<1>3. ctu.x = x /\ ctu.y = y /\ ctu.w = n /\ ctu.h = n /\ ctu \in Area
  BY <1>1, <1>2 DEF CtuArea, Area
<1>4. n % 4 = 0
  BY <1>2, PowerQuarters
<1>5. ASSUME NEW q \in Nat PROVE (q * n) % n = 0 /\ (q * n) % 4 = 0
  <2>1. q * n = n * q
    BY <1>2
  <2>2. (n * q) % n = 0
    BY <1>2, Quotient
  <2>3. PICK r \in Nat : n = 4 * r
    BY <1>2, <1>4, Quotient
  <2>4. n * q = 4 * (r * q) /\ r * q \in Nat
    BY <2>3
  <2>5. (n * q) % 4 = 0
    BY <2>4, Quotient
  <2> QED BY <2>1, <2>2, <2>5
<1>6. x % n = 0 /\ x % 4 = 0 /\ y % n = 0 /\ y % 4 = 0
  BY <1>5
<1> HIDE DEF n, x, y
<1>7. Aligned(ctu) /\ "CTU" \notin Mtt
  BY <1>3, <1>6 DEF Aligned, Mtt
<1> QED BY <1>2, <1>3, <1>6, <1>7 DEF AreaFits

(* so that initCtu starts with areas that fit. *)
LEMMA StartAreas ==
  ASSUME NEW CONSTANT ctu \in CtuAreas, NEW CONSTANT ch \in Channels
  PROVE  Start(ctu, ch) => LevelInv
<1> SUFFICES ASSUME Start(ctu, ch) PROVE LevelInv
  OBVIOUS
<1>1. ctu \in Area /\ AreaFits(ctu, "CTU", ch)
  BY CtuFits
<1>2. /\ Len(stack) = 1 /\ stack[1].parts = <<ctu>> /\ stack[1].split = "CTU"
      /\ curr = Zero /\ chType = ch
  BY DEF Start, CtuStack, NewLevel
<1>3. AreasAt(1)
  <2> SUFFICES ASSUME NEW j \in 1..4, j <= Len(stack[1].parts)
               PROVE  AreaFits(stack[1].parts[j], stack[1].split, chType)
    BY DEF AreasAt
  <2>1. j = 1 /\ stack[1].parts[1] = ctu
    BY <1>2
  <2> QED BY <1>1, <1>2, <2>1
<1>4. CountersAt(1) = Zero
  BY <1>2 DEF CountersAt
<1>5. 1..Len(stack) = {1} /\ 2..Len(stack) = {}
  BY <1>2
<1> QED BY <1>3, <1>4, <1>5 DEF LevelInv

(* It does so for every further CTU, *)
LEMMA InitCtuAreas ==
  ASSUME NEW CONSTANT ctu \in CtuAreas, NEW CONSTANT ch \in Channels
  PROVE  InitCtu(ctu, ch) => LevelInv'
<1>1. Start(ctu, ch) => LevelInv
  BY StartAreas
<1>2. Start(ctu, ch)' => LevelInv'
  BY <1>1, PTL
<1> QED BY <1>2 DEF InitCtu, Start

(* and whatever leaves the splits and parts of the levels as they are and    *)
(* the levels under the innermost one altogether keeps the areas.           *)
LEMMA KeptAreas ==
  ASSUME IInv, LevelInv, NEW m \in Nat \ {0}, m <= Len(stack), Len(stack') = m, chType' = chType,
         \A i \in 1..m : stack'[i].split = stack[i].split /\ stack'[i].parts = stack[i].parts,
         \A i \in 1..(m - 1) : stack'[i] = stack[i] /\ CountersAt(i)' = CountersAt(i),
         CountersAt(1)' = CountersAt(1)
  PROVE  LevelInv'
<1>1. \A i \in 1..m : i \in 1..Len(stack)
  BY DEF IInv, TypeOK
<1>2. ASSUME NEW i \in 1..m PROVE AreasAt(i)'
  <2>1. AreasAt(i)
    BY <1>1 DEF LevelInv
  <2> QED BY <2>1 DEF AreasAt
<1>3. ASSUME NEW i \in 2..m PROVE (LegalAt(i) /\ TileAt(i))'
  <2>1. i \in 2..Len(stack) /\ i \in 1..m /\ i - 1 \in 1..(m - 1)
    BY <1>1
  <2>2. LegalAt(i) /\ TileAt(i)
    BY <2>1 DEF LevelInv
  <2> QED BY <2>1, <2>2 DEF LegalAt, TileAt
<1> QED BY <1>2, <1>3 DEF LevelInv

(* Queries do, *)
LEMMA QueryAreas == IInv /\ LevelInv /\ Query => LevelInv'
<1> SUFFICES ASSUME IInv, LevelInv, Query PROVE LevelInv'
  OBVIOUS
<1>0. PICK n \in Nat \ {0} : n = Len(stack)
  BY DEF IInv, TypeOK
<1> DEFINE lv == Checked(Top, curr, chType)
<1>1. /\ n = Len(stack) /\ stack \in Seq(Level) /\ Top = stack[n]
      /\ stack' = [stack EXCEPT ![n] = lv] /\ curr' = curr /\ chType' = chType /\ saved' = saved
  BY <1>0 DEF IInv, TypeOK, Top, Query
<1>2. lv.split = Top.split /\ lv.parts = Top.parts
  BY DEF Checked, Update
<1> HIDE DEF lv
<1>3. Len(stack') = n /\ stack'[n] = lv /\ \A i \in 1..(n - 1) : stack'[i] = stack[i]
  BY <1>1
<1>4. \A i \in 1..n : CountersAt(i)' = CountersAt(i)
  BY <1>1, <1>3 DEF CountersAt
<1>5. \A i \in 1..n : stack'[i].split = stack[i].split /\ stack'[i].parts = stack[i].parts
  BY <1>1, <1>2, <1>3
<1> QED BY <1>0, <1>1, <1>3, <1>4, <1>5, KeptAreas

(* nextPart, *)
LEMMA NextPartAreas == IInv /\ LevelInv /\ NextPart => LevelInv'
<1> SUFFICES ASSUME IInv, LevelInv, NextPart PROVE LevelInv'
  OBVIOUS
<1>0. PICK n \in Nat \ {0} : n = Len(stack)
  BY DEF IInv, TypeOK
<1> DEFINE lv == NextOf(Top)
<1>1. /\ n = Len(stack) /\ n > 1 /\ stack \in Seq(Level) /\ Top = stack[n]
      /\ stack' = [stack EXCEPT ![n] = lv] /\ chType' = chType /\ saved' = saved
  BY <1>0 DEF IInv, TypeOK, Top, NextPart
<1>2. lv.split = Top.split /\ lv.parts = Top.parts
  BY DEF NextOf, Update
<1> HIDE DEF lv
<1>3. Len(stack') = n /\ stack'[n] = lv /\ \A i \in 1..(n - 1) : stack'[i] = stack[i]
  BY <1>1
<1>4. \A i \in 1..(n - 1) : CountersAt(i)' = CountersAt(i)
  BY <1>1, <1>3 DEF CountersAt
<1>5. \A i \in 1..n : stack'[i].split = stack[i].split /\ stack'[i].parts = stack[i].parts
  BY <1>1, <1>2, <1>3
<1>6. 1 \in 1..(n - 1)
  BY <1>1
<1> QED BY <1>0, <1>1, <1>3, <1>4, <1>5, <1>6, KeptAreas

(* and exitCurrSplit.                                                       *)
LEMMA ExitAreas == IInv /\ LevelInv /\ ExitCurrSplit => LevelInv'
<1> SUFFICES ASSUME IInv, LevelInv, ExitCurrSplit PROVE LevelInv'
  OBVIOUS
<1>0. PICK n \in Nat \ {0} : n = Len(stack)
  BY DEF IInv, TypeOK
<1>1. /\ n = Len(stack) /\ n > 1 /\ stack \in Seq(Level)
      /\ saved \in Seq(Counters) /\ Len(saved) = n - 1
      /\ stack' = SubSeq(stack, 1, n - 1) /\ saved' = SubSeq(saved, 1, n - 2) /\ chType' = chType
      /\ curr' = saved[n - 1]
  BY <1>0, ExitPops DEF IInv, TypeOK, ExitCurrSplit
<1>2. Len(stack') = n - 1 /\ \A i \in 1..(n - 1) : stack'[i] = stack[i]
  BY <1>1
<1>3. Len(saved') = n - 2 /\ \A i \in 1..(n - 2) : saved'[i] = saved[i]
  BY <1>1
<1>4. \A i \in 1..(n - 1) : CountersAt(i)' = CountersAt(i)
  <2> SUFFICES ASSUME NEW i \in 1..(n - 1) PROVE CountersAt(i)' = saved[i]
    BY <1>1 DEF CountersAt
  <2>1. CASE i = n - 1
    BY <1>1, <1>2, <2>1 DEF CountersAt
  <2>2. CASE i # n - 1
    <3>1. i \in 1..(n - 2) /\ i # Len(stack')
      BY <1>1, <1>2, <2>2
    <3> QED BY <1>3, <3>1 DEF CountersAt
  <2> QED BY <2>1, <2>2
<1> DEFINE m == n - 1
<1>5. m \in Nat \ {0} /\ m <= Len(stack) /\ Len(stack') = m /\ 1 \in 1..(n - 1)
      /\ \A i \in 1..(m - 1) : i \in 1..(n - 1)
  BY <1>1, <1>2
<1>6. \A i \in 1..m : stack'[i].split = stack[i].split /\ stack'[i].parts = stack[i].parts
  BY <1>2
<1>7. \A i \in 1..(m - 1) : stack'[i] = stack[i] /\ CountersAt(i)' = CountersAt(i)
  BY <1>2, <1>4, <1>5
<1>8. CountersAt(1)' = CountersAt(1)
  BY <1>4, <1>5
<1> HIDE DEF m
<1> QED BY <1>1, <1>5, <1>6, <1>7, <1>8, KeptAreas

(* A split that canSplit allows adds a level of areas that fit.             *)
LEMMA SplitAreas ==
  ASSUME NEW s \in Splits
  PROVE  IInv /\ LevelInv /\ SplitCurrArea(s) => LevelInv'
<1> SUFFICES ASSUME IInv, LevelInv, SplitCurrArea(s) PROVE LevelInv'
  OBVIOUS
<1>0. PICK n \in Nat \ {0} : n = Len(stack)
  BY DEF IInv, TypeOK
<1> DEFINE lv == Checked(Top, curr, chType)
           parts == SubAreas(CurrArea, s)
           c == Push(curr, s, s = lv.implicitSplit)
           qg == [q \in Qg |-> lv.qg[q] /\ c.subdiv <= QgSubdiv[q]]
           new == NewLevel(s, parts, qg)
<1>1. /\ n = Len(stack) /\ stack \in Seq(Level) /\ Top = stack[n] /\ Top \in Level /\ n \in 1..Len(stack)
      /\ saved \in Seq(Counters) /\ Len(saved) = n - 1 /\ curr \in Counters
      /\ CountersAt(n) = curr
  BY <1>0 DEF IInv, TypeOK, Top, CountersAt
<1>2. /\ HasArea(Top) /\ StartsInPic(PartOf(Top)) /\ s \in LegalSplits(Top, curr, chType)
      /\ stack' = Append([stack EXCEPT ![n] = lv], new)
      /\ curr' = c /\ saved' = Append(saved, curr) /\ chType' = chType
      /\ CurrArea = PartOf(Top)
  BY <1>0 DEF SplitCurrArea, OnArea, CurrArea
<1>3. CacheFreshAt(Top, curr)
  BY <1>1 DEF IInv, CacheFresh, FreshAt, CacheFreshAt
<1>4. /\ lv.split = Top.split /\ lv.parts = Top.parts /\ lv.idx = Top.idx
      /\ ImplicitOf(lv, curr, chType) = ImplicitOf(Top, curr, chType)
  <2>1. /\ lv.checked /\ lv.implicitSplit = ImplicitSplitOf(PartOf(Top), curr, chType)
        /\ lv.split = Top.split /\ lv.parts = Top.parts /\ lv.idx = Top.idx
        /\ ImplicitOf(Top, curr, chType) = ImplicitSplitOf(PartOf(Top), curr, chType)
    BY <1>1, <1>3, CheckedFacts
  <2> HIDE DEF lv
  <2> QED BY <2>1 DEF ImplicitOf
<1> HIDE DEF lv
<1>5. LegalSplits(lv, curr, chType) = LegalSplits(Top, curr, chType) /\ PartOf(lv) = PartOf(Top)
  BY <1>4, LegalSame
<1>6. new.split = s /\ new.parts = parts
  BY DEF NewLevel
<1> HIDE DEF new, c, qg
<1>7. /\ Len(stack') = n + 1 /\ stack'[n + 1] = new /\ stack'[n] = lv
      /\ \A i \in 1..(n - 1) : stack'[i] = stack[i]
  BY <1>1, <1>2
<1>8. \A i \in 1..n : stack'[i].split = stack[i].split /\ stack'[i].parts = stack[i].parts
  BY <1>1, <1>4, <1>7
<1>9. \A i \in 1..n : CountersAt(i)' = CountersAt(i)
  <2>1. saved'[n] = curr /\ \A i \in 1..(n - 1) : saved'[i] = saved[i]
    BY <1>1, <1>2
  <2> QED BY <1>1, <1>7, <2>1 DEF CountersAt
<1>10. /\ Tiles(parts, PartOf(Top))
       /\ \A j \in 1..Len(parts) : AreaFits(parts[j], s, chType)
  <2> DEFINE a == PartOf(Top)
  <2>1. /\ Tiles(SubAreas(a, s), a)
        /\ \A j \in 1..Len(SubAreas(a, s)) : AreaFits(SubAreas(a, s)[j], s, chType)
    BY <1>1, <1>2, LevelsFitSplits
  <2> QED BY <1>2, <2>1
<1>11. Len(parts) \in Nat
  <2>1. PartOf(Top) \in Area
    BY <1>1, <1>2, CurrAreaType
  <2> QED BY <1>2, <2>1, SubAreasType
<1>12. ASSUME NEW i \in 1..(n + 1) PROVE AreasAt(i)'
  <2>1. CASE i = n + 1
    <3> SUFFICES ASSUME NEW j \in 1..4, j <= Len(parts) PROVE AreaFits(parts[j], s, chType)
      BY <1>2, <1>6, <1>7, <2>1 DEF AreasAt
    <3>1. j \in 1..Len(parts)
      BY <1>11
    <3> QED BY <1>10, <3>1
  <2>2. CASE i # n + 1
    <3>1. i \in 1..n /\ i \in 1..Len(stack)
      BY <1>1, <2>2
    <3>2. AreasAt(i)
      BY <3>1 DEF LevelInv
    <3> QED BY <1>2, <1>8, <3>1, <3>2 DEF AreasAt
  <2> QED BY <2>1, <2>2
<1>13. ASSUME NEW i \in 2..(n + 1) PROVE (LegalAt(i) /\ TileAt(i))'
  <2>1. CASE i = n + 1
    <3>1. stack'[i] = new /\ stack'[i - 1] = lv /\ CountersAt(i - 1)' = curr
      BY <1>1, <1>7, <1>9, <2>1
    <3>2. LegalAt(i)'
      BY <1>2, <1>5, <1>6, <3>1 DEF LegalAt
    <3>3. TileAt(i)'
      BY <1>5, <1>6, <1>10, <3>1 DEF TileAt
    <3> QED BY <3>2, <3>3
  <2>2. CASE i # n + 1
    <3>1. i \in 2..Len(stack) /\ i \in 1..n /\ i - 1 \in 1..(n - 1) /\ i - 1 \in 1..n
      BY <1>1, <2>2
    <3>2. LegalAt(i) /\ TileAt(i)
      BY <3>1 DEF LevelInv
    <3> QED BY <1>2, <1>7, <1>8, <1>9, <3>1, <3>2 DEF LegalAt, TileAt
  <2> QED BY <2>1, <2>2
<1>14. CountersAt(1)' = Zero
  <2>1. 1 \in 1..n
    BY <1>1
  <2> QED BY <1>9, <2>1 DEF LevelInv
<1> QED BY <1>7, <1>12, <1>13, <1>14 DEF LevelInv

(* The areas depend on the variables only. *)
LEMMA StutterAreas == LevelInv /\ UNCHANGED vars => LevelInv'
<1> SUFFICES ASSUME LevelInv, UNCHANGED vars PROVE LevelInv'
  OBVIOUS
<1> USE DEF vars
<1>1. \A i : CountersAt(i)' = CountersAt(i)
  BY DEF CountersAt
<1>2. \A i : AreasAt(i)' <=> AreasAt(i)
  BY DEF AreasAt
<1>3. \A i : (LegalAt(i) /\ TileAt(i))' <=> LegalAt(i) /\ TileAt(i)
  BY <1>1 DEF LegalAt, TileAt
<1> QED BY <1>1, <1>2, <1>3 DEF LevelInv

(* The invariant is inductive, next to that of the counters. *)
LEMMA NextAreas == IInv /\ LevelInv /\ [Next]_vars => LevelInv'
<1> SUFFICES ASSUME IInv, LevelInv, [Next]_vars PROVE LevelInv'
  OBVIOUS
<1>1. ASSUME NEW ctu \in CtuAreas, NEW ch \in Channels, InitCtu(ctu, ch) PROVE LevelInv'
  BY <1>1, InitCtuAreas
<1>2. CASE Query
  BY <1>2, QueryAreas
<1>3. ASSUME NEW s \in Splits, SplitCurrArea(s) PROVE LevelInv'
  BY <1>3, SplitAreas
<1>4. CASE NextPart
  BY <1>4, NextPartAreas
<1>5. CASE ExitCurrSplit
  BY <1>5, ExitAreas
<1>6. CASE UNCHANGED vars
  BY <1>6, StutterAreas
<1> QED BY <1>1, <1>2, <1>3, <1>4, <1>5, <1>6 DEF Next

(* The levels and their areas keep to it in every reachable state. *)
LEMMA LevelInvariance == Spec => []LevelInv
<1>1. Init => LevelInv
  BY StartAreas DEF Init
<1> QED BY <1>1, InitInv, NextInv, NextAreas, PTL DEF Spec

-----------------------------------------------------------------------------
(* The areas of the stack come of the quad and multi-type tree that         *)
(* canSplit allows: what sticks out of the picture lies in its own grid.    *)
THEOREM AreaInvariance == Spec => []AreaInv
  BY LevelInvariance, LevelsAreAreas, PTL

(* No CHECK of splitCurrArea or getCUSubPartitions fires on a split that     *)
(* canSplit allows, whatever the picture's size and the limits.             *)
THEOREM ChecksNeverFire == Spec => []ChecksHold
<1>1. IInv /\ LevelInv => ChecksHold
  <2> SUFFICES ASSUME IInv, LevelInv, OnArea, NEW s \in LegalSplits(Top, curr, chType) \ {"DONT"}
               PROVE  SplitChecks(CurrArea, curr, s)
    BY DEF ChecksHold
  <2> DEFINE n == Len(stack)
             a == CurrArea
  <2>1. /\ n \in 1..Len(stack) /\ Top = stack[n] /\ CountersAt(n) = curr /\ a = PartOf(Top)
        /\ HasArea(Top) /\ StartsInPic(a)
    BY DEF IInv, TypeOK, Top, CountersAt, OnArea, CurrArea
  <2>2. s \in Splits
    <3>1. CacheFreshAt(Top, curr) /\ Top \in Level
      BY <2>1 DEF IInv, TypeOK, CacheFresh, FreshAt, CacheFreshAt
    <3>2. ImplicitOf(Top, curr, chType) \in {"QUAD", "HORZ", "VERT", "DONT"}
      BY <3>1, CheckedFacts, ImplicitType
    <3> QED BY <3>2 DEF LegalSplits, Splits, Mtt
  <2>3. /\ FitFor(a, Top.split, s, chType)
        /\ Tiles(SubAreas(a, s), a)
        /\ \A j \in 1..Len(SubAreas(a, s)) : AreaFits(SubAreas(a, s)[j], s, chType)
    BY <2>1, <2>2, LevelsFitSplits
  <2>4. \A p \in {SubAreas(a, s)[i] : i \in 1..Len(SubAreas(a, s))} : p.h >= MinTb /\ p.w >= MinTb
    BY <2>3 DEF AreaFits
  <2>5. s = "QUAD" => curr.bt = 0 /\ curr.mt = 0
    <3> SUFFICES ASSUME s = "QUAD" PROVE curr.bt = 0 /\ curr.mt = 0
      OBVIOUS
    <3>1. Top.split \notin Mtt
      BY <2>3 DEF FitFor
    <3>2. CASE n = 1
      BY <2>1, <3>2 DEF LevelInv, Zero
    <3>3. CASE n # 1
      <4>1. n \in 2..Len(stack)
        BY <2>1, <3>3
      <4>2. BalancedAt(n)
        BY <4>1 DEF IInv, Balanced
      <4>3. Top.split = "QUAD"
        BY <2>1, <3>1, <4>2 DEF BalancedAt, Splits
      <4> QED BY <2>1, <4>2, <4>3 DEF BalancedAt, Descend
    <3> QED BY <3>2, <3>3
  <2> HIDE DEF a
  <2>6. SplitChecks(a, curr, s)
    BY <2>4, <2>5 DEF SplitChecks
  <2> QED BY <2>6 DEF a
<1> QED BY <1>1, LevelInvariance, Invariance, PTL

(* The first, the last and the middle sample of a side belong to it. *)
LEMMA Halfway ==
  ASSUME NEW n \in Nat, NEW w \in Nat, w >= 4, NEW k \in {n, n + w - 1, n + w \div 2}
  PROVE  k \in Nat /\ n <= k /\ k < n + w
<1>1. w \div 2 \in Nat /\ w \div 2 < w
  OBVIOUS
<1> DEFINE h == w \div 2
<1> HIDE DEF h
<1>2. h \in Nat /\ h < w /\ k \in {n, n + w - 1, n + h}
  BY <1>1 DEF h
<1> QED BY <1>2

(* What PartsTile says of one level: p tiles a *)
TiledAt(p, a) ==
  /\ \A j \in 1..Len(p) : /\ a.x <= p[j].x /\ p[j].x + p[j].w <= a.x + a.w
                         /\ a.y <= p[j].y /\ p[j].y + p[j].h <= a.y + a.h
  /\ \A j, k \in 1..Len(p) : j # k => ~Overlap(p[j], p[k])
  /\ \A x \in {a.x, a.x + a.w - 1, a.x + a.w \div 2}, y \in {a.y, a.y + a.h - 1, a.y + a.h \div 2} :
       \E j \in 1..Len(p) : /\ p[j].x <= x /\ x < p[j].x + p[j].w
                            /\ p[j].y <= y /\ y < p[j].y + p[j].h

(* The parts of a level tile the part of the level below that they split.   *)
THEOREM LevelsTile == Spec => []PartsTile
<1>1. IInv /\ LevelInv => PartsTile
  <2> SUFFICES ASSUME IInv, LevelInv, NEW i \in 2..Len(stack)
               PROVE  TiledAt(stack[i].parts, PartOf(stack[i - 1]))
    BY DEF PartsTile, TiledAt
  <2> DEFINE p == stack[i].parts
             a == PartOf(stack[i - 1])
  <2>1. Tiles(p, a)
    BY DEF LevelInv, TileAt
  <2>2. i - 1 \in 1..Len(stack) /\ HasArea(stack[i - 1])
    BY DEF IInv, TypeOK, Suspended
  <2>3. a \in Area /\ AreaFits(a, stack[i - 1].split, chType)
    BY <2>2, LevelFacts
  <2>4. a.x \in Nat /\ a.y \in Nat /\ a.w \in Nat /\ a.h \in Nat /\ a.w >= 4 /\ a.h >= 4
    BY <2>3, PowersAssumption DEF Area, AreaFits
  <2> HIDE DEF a, p
  <2>5. ASSUME NEW x \in {a.x, a.x + a.w - 1, a.x + a.w \div 2},
               NEW y \in {a.y, a.y + a.h - 1, a.y + a.h \div 2}
        PROVE  \E j \in 1..Len(p) : HasSample(p[j], x, y)
    <3>1. x \in Nat /\ a.x <= x /\ x < a.x + a.w
      BY <2>4, Halfway
    <3>2. y \in Nat /\ a.y <= y /\ y < a.y + a.h
      BY <2>4, Halfway
    <3>3. HasSample(a, x, y)
      BY <3>1, <3>2 DEF HasSample
    <3> QED BY <2>1, <3>1, <3>2, <3>3 DEF Tiles
  <2>6. TiledAt(p, a)
    BY <2>1, <2>5 DEF Tiles, TiledAt, Inside, HasSample
  <2> QED BY <2>6 DEF a, p
<1> QED BY <1>1, LevelInvariance, Invariance, PTL

-----------------------------------------------------------------------------
(* Levels 1 to m keep their splits and parts, of the same channel           *)
KeepsLevels(m) ==
  /\ m \in Nat /\ m <= Len(stack) /\ chType' = chType
  /\ \A i \in 1..m : stack'[i].split = stack[i].split /\ stack'[i].parts = stack[i].parts

(* What a step does to the areas: it starts a CTU, keeps the levels or       *)
(* leaves the innermost one, or adds one by a split canSplit allows.         *)
LEMMA StepShapes ==
  ASSUME IInv, [Next]_vars
  PROVE  \/ \E ctu \in CtuAreas, ch \in Channels : Start(ctu, ch)'
         \/ KeepsLevels(Len(stack')) /\ Len(stack') > 0
         \/ \E s \in Splits :
              /\ OnArea /\ s \in LegalSplits(Top, curr, chType)
              /\ KeepsLevels(Len(stack)) /\ Len(stack') = Len(stack) + 1
              /\ stack'[Len(stack')].split = s
              /\ stack'[Len(stack')].parts = SubAreas(CurrArea, s)
<1>0. PICK n \in Nat \ {0} : n = Len(stack)
  BY DEF IInv, TypeOK
<1>1. n = Len(stack) /\ stack \in Seq(Level) /\ Top = stack[n]
  BY <1>0 DEF IInv, TypeOK, Top
<1>2. ASSUME NEW ctu \in CtuAreas, NEW ch \in Channels, InitCtu(ctu, ch)
      PROVE  \E cc \in CtuAreas, hh \in Channels : Start(cc, hh)'
  <2>1. Start(ctu, ch)'
    BY <1>2 DEF InitCtu, Start
  <2> QED BY <2>1
<1>3. ASSUME NEW lv, lv.split = Top.split, lv.parts = Top.parts, chType' = chType,
             stack' = [stack EXCEPT ![n] = lv]
      PROVE  KeepsLevels(Len(stack')) /\ Len(stack') > 0
  BY <1>1, <1>3 DEF KeepsLevels
<1>4. CASE Query
  <2> DEFINE lv == Checked(Top, curr, chType)
  <2>1. lv.split = Top.split /\ lv.parts = Top.parts
    BY DEF Checked, Update
  <2>2. stack' = [stack EXCEPT ![n] = lv] /\ chType' = chType
    BY <1>0, <1>4 DEF Query
  <2> HIDE DEF lv
  <2> QED BY <1>3, <2>1, <2>2
<1>5. CASE NextPart
  <2> DEFINE lv == NextOf(Top)
  <2>1. lv.split = Top.split /\ lv.parts = Top.parts
    BY DEF NextOf, Update
  <2>2. stack' = [stack EXCEPT ![n] = lv] /\ chType' = chType
    BY <1>0, <1>5 DEF NextPart
  <2> HIDE DEF lv
  <2> QED BY <1>3, <2>1, <2>2
<1>6. CASE ExitCurrSplit
  <2>1. n > 1 /\ stack' = SubSeq(stack, 1, n - 1) /\ chType' = chType
    BY <1>0, <1>6 DEF ExitCurrSplit
  <2>2. Len(stack') = n - 1 /\ \A i \in 1..(n - 1) : stack'[i] = stack[i]
    BY <1>1, <2>1
  <2> QED BY <1>1, <2>1, <2>2 DEF KeepsLevels
<1>7. ASSUME NEW s \in Splits, SplitCurrArea(s)
      PROVE  /\ OnArea /\ s \in LegalSplits(Top, curr, chType)
             /\ KeepsLevels(Len(stack)) /\ Len(stack') = Len(stack) + 1
             /\ stack'[Len(stack')].split = s
             /\ stack'[Len(stack')].parts = SubAreas(CurrArea, s)
  <2> DEFINE lv == Checked(Top, curr, chType)
             parts == SubAreas(CurrArea, s)
             c == Push(curr, s, s = lv.implicitSplit)
             qg == [q \in Qg |-> lv.qg[q] /\ c.subdiv <= QgSubdiv[q]]
             new == NewLevel(s, parts, qg)
  <2>1. lv.split = Top.split /\ lv.parts = Top.parts
    BY DEF Checked, Update
  <2>2. /\ OnArea /\ s \in LegalSplits(Top, curr, chType) /\ chType' = chType
        /\ stack' = Append([stack EXCEPT ![n] = lv], new)
    BY <1>0, <1>7 DEF SplitCurrArea
  <2>3. new.split = s /\ new.parts = parts
    BY DEF NewLevel
  <2> HIDE DEF lv, new
  <2>4. /\ Len(stack') = n + 1 /\ stack'[n + 1] = new
        /\ \A i \in 1..n : stack'[i].split = stack[i].split /\ stack'[i].parts = stack[i].parts
    BY <1>1, <2>1, <2>2
  <2> QED BY <1>1, <2>2, <2>3, <2>4 DEF KeepsLevels
<1>8. CASE UNCHANGED vars
  BY <1>1, <1>8 DEF vars, KeepsLevels
<1> QED BY <1>2, <1>4, <1>5, <1>6, <1>7, <1>8 DEF Next

-----------------------------------------------------------------------------
(* The capacity of the stack *)

(* The binary logarithm of a side of 4 to 128 samples *)
LogSide(n) == IF n < 8 THEN 2 ELSE IF n < 16 THEN 3 ELSE IF n < 32 THEN 4
              ELSE IF n < 64 THEN 5 ELSE IF n < 128 THEN 6 ELSE 7

(* Half a side has a logarithm less by one, a quarter of it by two.         *)
LEMMA LogShrinks ==
  ASSUME NEW n \in Nat, 4 <= n, n <= 128
  PROVE  /\ 4 <= n \div 2 => LogSide(n \div 2) + 1 = LogSide(n)
         /\ 4 <= n \div 4 => LogSide(n \div 4) + 2 = LogSide(n)
<1>1. 4 <= n \div 2 => LogSide(n \div 2) + 1 = LogSide(n)
  BY SMTT(30) DEF LogSide
<1>2. 4 <= n \div 4 => LogSide(n \div 4) + 2 = LogSide(n)
  BY SMTT(30) DEF LogSide
<1> QED BY <1>1, <1>2

(* Each level up to i has halved the samples of area a at least once        *)
SmallAt(a, i) == a.w <= 128 /\ a.h <= 128 /\ LogSide(a.w) + LogSide(a.h) + i <= 15

(* The parts of a split have at most half the samples of the split area.    *)
LEMMA SplitHalves ==
  ASSUME NEW a \in Area, a.w >= 4, a.h >= 4, NEW i \in Nat, SmallAt(a, i), NEW s \in Splits,
         NEW j \in 1..Len(SubAreas(a, s)), SubAreas(a, s)[j].w >= 4, SubAreas(a, s)[j].h >= 4
  PROVE  SmallAt(SubAreas(a, s)[j], i + 1)
<1> DEFINE p == SubAreas(a, s)[j]
<1>1. a.w \in Nat /\ a.h \in Nat
  BY DEF Area
<1>2. \/ p.w = a.w \div 2 /\ p.h = a.h \div 2
      \/ p.w = a.w /\ p.h \in {a.h \div 2, a.h \div 4}
      \/ p.h = a.h /\ p.w \in {a.w \div 2, a.w \div 4}
  <2>1. CASE s = "QUAD"
    BY <2>1 DEF SubAreas
  <2>2. CASE s = "HORZ"
    BY <2>2 DEF SubAreas
  <2>3. CASE s = "VERT"
    BY <2>3 DEF SubAreas
  <2>4. CASE s = "TRIH"
    BY <2>4 DEF SubAreas
  <2>5. CASE s = "TRIV"
    BY <2>5 DEF SubAreas
  <2> QED BY <2>1, <2>2, <2>3, <2>4, <2>5 DEF Splits, Mtt
<1>3. p.w >= 4 /\ p.h >= 4
  OBVIOUS
<1> HIDE DEF p
<1>4. ASSUME NEW n \in Nat, n >= 4, n <= 128, NEW m \in {n \div 2, n \div 4}, m >= 4
      PROVE  m <= 128 /\ LogSide(m) + 1 <= LogSide(n)
  <2>1. LogSide(n) \in Int /\ LogSide(m) \in Int
    BY DEF LogSide
  <2>2. LogSide(m) + 1 = LogSide(n) \/ LogSide(m) + 2 = LogSide(n)
    BY <1>4, LogShrinks
  <2>3. m <= 128
    BY <1>4
  <2> QED BY <2>1, <2>2, <2>3
<1>5. \A n : LogSide(n) \in Nat
  BY DEF LogSide
<1>6. a.w <= 128 /\ a.h <= 128 /\ LogSide(a.w) + LogSide(a.h) + i <= 15
  BY DEF SmallAt
<1>7. PICK w \in Nat, h \in Nat : w = a.w /\ h = a.h
  BY <1>1
<1>8. PICK lw \in Nat, lh \in Nat, pw \in Nat, ph \in Nat :
        lw = LogSide(w) /\ lh = LogSide(h) /\ pw = LogSide(p.w) /\ ph = LogSide(p.h)
  BY <1>5
<1>9. lw + lh + i <= 15 /\ w <= 128 /\ h <= 128 /\ w >= 4 /\ h >= 4
  BY <1>6, <1>7, <1>8
<1>10. p.w <= 128 /\ p.h <= 128 /\ pw + ph + 1 <= lw + lh
  <2>1. CASE p.w = w \div 2 /\ p.h = h \div 2
    <3>1. p.w \in {w \div 2, w \div 4} /\ p.h \in {h \div 2, h \div 4}
      BY <2>1
    <3>2. p.w <= 128 /\ LogSide(p.w) + 1 <= LogSide(w)
      BY <1>3, <1>4, <1>9, <3>1
    <3>3. p.h <= 128 /\ LogSide(p.h) + 1 <= LogSide(h)
      BY <1>3, <1>4, <1>9, <3>1
    <3>4. pw + 1 <= lw /\ ph + 1 <= lh
      BY <1>8, <3>2, <3>3, Zenon
    <3> QED BY <3>2, <3>3, <3>4
  <2>2. CASE p.w = w /\ p.h \in {h \div 2, h \div 4}
    <3>1. p.w <= 128 /\ pw = lw
      BY <1>8, <1>9, <2>2
    <3>2. p.h <= 128 /\ ph + 1 <= lh
      BY <1>3, <1>4, <1>8, <1>9, <2>2
    <3> QED BY <3>1, <3>2
  <2>3. CASE p.h = h /\ p.w \in {w \div 2, w \div 4}
    <3>1. p.h <= 128 /\ ph = lh
      BY <1>8, <1>9, <2>3
    <3>2. p.w <= 128 /\ pw + 1 <= lw
      BY <1>3, <1>4, <1>8, <1>9, <2>3
    <3> QED BY <3>1, <3>2
  <2> QED BY <1>2, <1>7, <2>1, <2>2, <2>3
<1>11. SmallAt(p, i + 1)
  <2>1. lw + lh + i <= 15 /\ pw + ph + 1 <= lw + lh
    BY <1>9, <1>10
  <2>2. pw + ph + (i + 1) <= 15
    BY <2>1
  <2> QED BY <1>8, <1>10, <2>2 DEF SmallAt
<1> QED BY <1>11 DEF p

ShrunkAt(i) == \A j \in 1..4 : j <= Len(stack[i].parts) => SmallAt(stack[i].parts[j], i)

(* The areas shrink from level to level. *)
Shrunk == \A i \in 1..Len(stack) : ShrunkAt(i)

(* The CTU is small enough, *)
LEMMA StartShrunk ==
  ASSUME NEW CONSTANT ctu \in CtuAreas, NEW CONSTANT ch \in Channels
  PROVE  Start(ctu, ch) => Shrunk
<1> SUFFICES ASSUME Start(ctu, ch) PROVE Shrunk
  OBVIOUS
<1>1. Len(stack) = 1 /\ stack[1].parts = <<ctu>>
  BY DEF Start, CtuStack, NewLevel
<1>2. ctu.w = CtuSize /\ ctu.h = CtuSize
  BY DEF CtuAreas, CtuArea
<1>3. SmallAt(ctu, 1)
  BY <1>2, SizesAssumption, PowersAssumption DEF SmallAt, LogSide
<1>4. ShrunkAt(1)
  BY <1>1, <1>3 DEF ShrunkAt
<1>5. 1..Len(stack) = {1}
  BY <1>1
<1> QED BY <1>4, <1>5 DEF Shrunk

(* and every step keeps to it: only splitCurrArea adds a level. *)
LEMMA NextShrunk ==
  ASSUME IInv, LevelInv, Shrunk, [Next]_vars
  PROVE  Shrunk'
<1>0. PICK n \in Nat \ {0} : n = Len(stack)
  BY DEF IInv, TypeOK
<1>1. LevelInv'
  BY NextAreas
<1>2. ASSUME NEW m \in Nat, KeepsLevels(m), NEW i \in 1..m
      PROVE  ShrunkAt(i)'
  <2>1. stack'[i].parts = stack[i].parts /\ i \in 1..Len(stack)
    BY <1>0, <1>2 DEF KeepsLevels
  <2>2. ShrunkAt(i)
    BY <2>1 DEF Shrunk
  <2> QED BY <2>1, <2>2 DEF ShrunkAt
<1>3. ASSUME NEW ctu \in CtuAreas, NEW ch \in Channels, Start(ctu, ch)'
      PROVE  Shrunk'
  <2>1. Start(ctu, ch)' => Shrunk'
    BY StartShrunk, PTL
  <2> QED BY <1>3, <2>1
<1>4. CASE KeepsLevels(Len(stack')) /\ Len(stack') > 0
  BY <1>2, <1>4 DEF Shrunk, KeepsLevels
<1>5. ASSUME NEW s \in Splits, OnArea, KeepsLevels(Len(stack)), Len(stack') = Len(stack) + 1,
             stack'[Len(stack')].split = s,
             stack'[Len(stack')].parts = SubAreas(CurrArea, s)
      PROVE  Shrunk'
  <2> DEFINE a == CurrArea
             sub == SubAreas(a, s)
  <2>1. /\ n \in 1..Len(stack) /\ HasArea(stack[n]) /\ a = PartOf(stack[n])
        /\ Len(stack') = n + 1 /\ stack'[n + 1].split = s /\ stack'[n + 1].parts = sub
    BY <1>0, <1>5 DEF OnArea, Top, CurrArea
  <2>2. a \in Area /\ AreaFits(a, stack[n].split, chType)
    BY <2>1, LevelFacts
  <2>3. a.w >= 4 /\ a.h >= 4
    BY <2>2, PowersAssumption DEF AreaFits
  <2>4. SmallAt(a, n)
    <3>1. Len(stack[n].parts) = NumParts(stack[n].split) /\ ShrunkAt(n)
      BY <2>1 DEF IInv, PartsShape, Shrunk
    <3>2. NumParts(stack[n].split) \in {1, 2, 3, 4}
      BY DEF NumParts
    <3>3. stack[n] \in Level /\ stack[n].idx < Len(stack[n].parts)
      BY <2>1, LevelFacts DEF HasArea
    <3>4. stack[n].idx \in Nat
      BY <3>3 DEF Level
    <3>5. PICK k \in Nat, m \in {1, 2, 3, 4} : k = stack[n].idx /\ m = Len(stack[n].parts)
      BY <3>1, <3>2, <3>4
    <3>6. k < m
      BY <3>3, <3>5
    <3>7. k + 1 \in 1..4 /\ k + 1 <= m
      BY <3>6
    <3>8. stack[n].idx + 1 \in 1..4 /\ stack[n].idx + 1 <= Len(stack[n].parts)
      BY <3>5, <3>7
    <3> QED BY <2>1, <3>1, <3>8 DEF ShrunkAt, PartOf
  <2> HIDE DEF a, sub
  <2>5. ASSUME NEW j \in 1..4, j <= Len(sub) PROVE SmallAt(sub[j], n + 1)
    <3>1. n + 1 \in 1..Len(stack') /\ n + 1 \in Nat
      BY <2>1
    <3>2. AreasAt(n + 1)'
      BY <1>1, <3>1 DEF LevelInv
    <3>3. AreaFits(sub[j], s, chType')
      BY <2>1, <2>5, <3>2 DEF AreasAt
    <3>4. sub[j].w >= 4 /\ sub[j].h >= 4
      BY <3>3, PowersAssumption DEF AreaFits
    <3>5. j \in 1..Len(SubAreas(a, s))
      <4>1. Len(SubAreas(a, s)) \in Nat
        BY DEF SubAreas, Splits, Mtt
      <4> QED BY <2>5, <4>1 DEF sub
    <3> QED BY <2>2, <2>3, <2>4, <3>4, <3>5, SplitHalves DEF sub
  <2>6. ShrunkAt(n + 1)'
    BY <2>1, <2>5 DEF ShrunkAt
  <2>7. ASSUME NEW i \in 1..n PROVE ShrunkAt(i)'
    BY <1>0, <1>2, <1>5
  <2>8. \A i \in 1..Len(stack') : i \in 1..n \/ i = n + 1
    BY <2>1
  <2> QED BY <2>6, <2>7, <2>8 DEF Shrunk
<1> QED BY <1>3, <1>4, <1>5, StepShapes

(* The stack of levels never outgrows its fixed capacity: every split       *)
(* halves the samples at least and canSplit makes no side shorter than 4,   *)
(* so that a CTU leaves room for ten splits, implicit ones included.        *)
THEOREM StackBounded == Spec => []StackFits
<1>1. Init => Shrunk
  <2>1. ASSUME NEW CONSTANT ctu \in CtuAreas, NEW CONSTANT ch \in Channels
        PROVE  Start(ctu, ch) => Shrunk
    BY StartShrunk
  <2> QED BY <2>1 DEF Init
<1>2. IInv /\ LevelInv /\ Shrunk /\ [Next]_vars => Shrunk'
  BY NextShrunk
<1>3. IInv /\ Shrunk => StackFits
  <2> SUFFICES ASSUME IInv, Shrunk PROVE StackFits
    OBVIOUS
  <2>0. PICK n \in Nat \ {0} : n = Len(stack)
    BY DEF IInv, TypeOK
  <2>1. n \in 1..Len(stack) /\ ShrunkAt(n) /\ Len(stack[n].parts) = NumParts(stack[n].split)
    BY <2>0 DEF IInv, PartsShape, Shrunk
  <2>2. NumParts(stack[n].split) >= 1
    BY DEF NumParts
  <2>3. SmallAt(stack[n].parts[1], n)
    BY <2>1, <2>2 DEF ShrunkAt
  <2>4. \A k : LogSide(k) \in Nat /\ LogSide(k) >= 2
    BY DEF LogSide
  <2>5. n <= 11
    BY <2>3, <2>4 DEF SmallAt
  <2> QED BY <2>0, <2>5 DEF StackFits, StackCapacity, MaxCuDepth
<1> QED BY <1>1, <1>2, <1>3, Invariance, LevelInvariance, PTL DEF Spec

=============================================================================
