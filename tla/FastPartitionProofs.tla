------------------------ MODULE FastPartitionProofs ------------------------
EXTENDS FastPartition, PartitionerProofs

(* A multiple of n that does not exceed a is at most the n-fold of a \div n. *)
LEMMA DivBound ==
  ASSUME NEW n \in Nat \ {0}, NEW a \in Nat, NEW q \in Nat, n * q <= a
  PROVE  q <= a \div n
<1> DEFINE r == a \div n
<1>1. r \in Nat /\ a < n * (r + 1)
  BY SMT
<1> HIDE DEF r
<1>2. SUFFICES ASSUME r + 1 <= q PROVE FALSE
  BY <1>1 DEF r
<1>3. n * (r + 1) <= n * q
  BY <1>1, <1>2
<1> QED BY <1>1, <1>3

(* Dividing the position of a CTU gives back its column or row. *)
LEMMA DivExact ==
  ASSUME NEW n \in Nat \ {0}, NEW q \in Nat
  PROVE  (q * n) \div n = q
  BY SMT

(* The CTU after one of the picture is one of the picture, as long as the  *)
(* picture goes on.                                                        *)
LEMMA NextCtu ==
  ASSUME CtuInPic, MoreInRow \/ MoreRows
  PROVE  NextInPic \in CtuAreas
<1> DEFINE cols == (PicW - 1) \div CtuSize   rows == (PicH - 1) \div CtuSize
<1>1. PICK col \in 0..cols, row \in 0..rows : Ctu = CtuArea(col, row)
  BY DEF CtuInPic, CtuAreas
<1>2. CtuSize \in Nat \ {0} /\ PicW - 1 \in Nat /\ PicH - 1 \in Nat /\ cols \in Nat /\ rows \in Nat
  BY SizesAssumption
<1>3. Ctu.x = col * CtuSize /\ Ctu.y = row * CtuSize
  BY <1>1 DEF CtuArea
<1>4. Ctu.x \div CtuSize = col /\ Ctu.y \div CtuSize = row
  BY <1>1, <1>2, <1>3, DivExact
<1>5. CASE MoreInRow
  <2>1. CtuSize * (col + 1) <= PicW - 1
    BY <1>1, <1>2, <1>3, <1>5, SizesAssumption DEF MoreInRow
  <2>2. col + 1 \in 0..cols
    <3>1. col \in Nat /\ col + 1 \in Nat
      BY <1>1, <1>2
    <3>2. col + 1 <= cols
      BY <1>2, <2>1, <3>1, DivBound
    <3> QED BY <1>2, <3>1, <3>2
  <2> QED BY <1>1, <1>4, <1>5, <2>2 DEF NextInPic, CtuAreas
<1>6. CASE ~MoreInRow
  <2>1. CtuSize * (row + 1) <= PicH - 1
    BY <1>1, <1>2, <1>3, <1>6, SizesAssumption DEF MoreRows
  <2>2. row + 1 \in Nat /\ CtuSize \in Nat \ {0} /\ PicH - 1 \in Nat
    BY <1>1, <1>2
  <2>3. row + 1 <= (PicH - 1) \div CtuSize
    BY <2>1, <2>2, DivBound
  <2>4. row + 1 \in 0..rows /\ 0 \in 0..cols
    BY <1>2, <2>2, <2>3
  <2> QED BY <1>1, <1>4, <1>6, <2>4 DEF NextInPic, CtuAreas
<1> QED BY <1>5, <1>6

(* The first CTU is one of the picture's. *)
LEMMA FirstCtu == CtuArea(0, 0) \in CtuAreas
<1>1. 0 \in 0..((PicW - 1) \div CtuSize) /\ 0 \in 0..((PicH - 1) \div CtuSize)
  BY SizesAssumption
<1> QED BY <1>1 DEF CtuAreas

(* Cache c has only descriptions of the blocks of ctu in picture p, an intra one *)
CurrentFor(c, ctu, p, isIntra) ==
  \A b \in Blocks :
    c.maps[b].valid =>
      /\ isIntra
      /\ c.maps[b].of = [pic |-> p, x |-> c.maps[b].x, y |-> c.maps[b].y]
      /\ c.maps[b].x = ctu.x + BlockSize * b[1] /\ c.maps[b].y = ctu.y + BlockSize * b[2]

(* What compressCtu leaves in the cache is of the CTU it starts on. *)
LEMMA PrepareCurrent ==
  ASSUME NEW c \in Cache, NEW col \in Nat, NEW row \in Nat, NEW p \in Nat, NEW isIntra \in BOOLEAN
  PROVE  /\ Prepare(c, CtuArea(col, row), p, isIntra) \in Cache
         /\ CurrentFor(Prepare(c, CtuArea(col, row), p, isIntra), CtuArea(col, row), p, isIntra)
<1> DEFINE ctu == CtuArea(col, row)
           maps == [b \in Blocks |-> MapOf(ctu, b, p)]
           new == Prepare(c, ctu, p, isIntra)
<1>1. ASSUME NEW b \in Blocks
      PROVE  /\ MapOf(ctu, b, p) \in Gridmap
             /\ MapOf(ctu, b, p).of = [pic |-> p, x |-> MapOf(ctu, b, p).x, y |-> MapOf(ctu, b, p).y]
             /\ MapOf(ctu, b, p).x = ctu.x + BlockSize * b[1]
             /\ MapOf(ctu, b, p).y = ctu.y + BlockSize * b[2]
  <2>1. b[1] \in Nat /\ b[2] \in Nat
    BY DEF Blocks
  <2>2. ctu.x \in Nat /\ ctu.y \in Nat
    BY SizesAssumption DEF CtuArea
  <2>3. BlockSize * b[1] \in Nat /\ BlockSize * b[2] \in Nat
    BY <2>1, PredictionAssumption
  <2>4. ctu.x + BlockSize * b[1] \in Nat /\ ctu.y + BlockSize * b[2] \in Nat
    BY <2>2, <2>3
  <2> QED BY <2>4 DEF MapOf, Gridmap, Place, InPic
<1>2. CASE HaveModels /\ isIntra /\ ctu.w = PreparedCtu /\ ctu.h = PreparedCtu
  <2> DEFINE some == \E b \in Blocks : maps[b].valid
  <2>1. new = [valid |-> some, maps |-> maps]
    BY <1>2 DEF Prepare
  <2>2. maps \in [Blocks -> Gridmap]
    BY <1>1
  <2>3. some \in BOOLEAN
    OBVIOUS
  <2> HIDE DEF maps, some, new
  <2>4. new \in Cache /\ new.maps = maps
    BY <2>1, <2>2, <2>3 DEF Cache
  <2>5. \A b \in Blocks : new.maps[b] = MapOf(ctu, b, p)
    BY <2>4 DEF maps
  <2>6. new \in Cache /\ \A b \in Blocks :
          /\ new.maps[b].of = [pic |-> p, x |-> new.maps[b].x, y |-> new.maps[b].y]
          /\ new.maps[b].x = ctu.x + BlockSize * b[1]
          /\ new.maps[b].y = ctu.y + BlockSize * b[2]
    BY <1>1, <2>4, <2>5
  <2> QED BY <1>2, <2>6 DEF new, CurrentFor
<1>3. CASE ~(HaveModels /\ isIntra /\ ctu.w = PreparedCtu /\ ctu.h = PreparedCtu)
  <2>1. new = Reset(c)
    BY <1>3 DEF Prepare
  <2> QED BY <2>1 DEF Reset, Cache, Gridmap, CurrentFor
<1> QED BY <1>2, <1>3

(* Query, splitCurrArea, nextPart and exitCurrSplit never change the CTU. *)
LEMMA WalkKeepsCtu ==
  ASSUME IInv, Query \/ (\E s \in Splits : SplitCurrArea(s)) \/ NextPart \/ ExitCurrSplit
  PROVE  Ctu' = Ctu
<1>1. stack \in Seq(Level) /\ Len(stack) \in Nat \ {0} /\ stack[1] \in Level
  BY DEF IInv, TypeOK
<1> DEFINE lv == Checked(Top, curr, chType)
<1>2. lv.parts = Top.parts
  BY DEF Checked, Update
<1>3. CASE Query
  <2>1. stack' = [stack EXCEPT ![Len(stack)] = lv]
    BY <1>3 DEF Query
  <2> QED BY <1>1, <1>2, <2>1 DEF Ctu, Top
<1>4. ASSUME NEW s \in Splits, SplitCurrArea(s) PROVE Ctu' = Ctu
  <2> DEFINE base == [stack EXCEPT ![Len(stack)] = lv]
  <2>1. PICK top : stack' = Append(base, top)
    BY <1>4 DEF SplitCurrArea
  <2>2. base[1].parts = stack[1].parts
    BY <1>1, <1>2 DEF Top
  <2>3. Len(base) = Len(stack) /\ stack'[1] = base[1]
    BY <1>1, <2>1
  <2> QED BY <2>2, <2>3 DEF Ctu
<1>5. CASE NextPart
  <2>1. Len(stack) > 1 /\ stack' = [stack EXCEPT ![Len(stack)] = NextOf(Top)]
    BY <1>5 DEF NextPart
  <2> QED BY <1>1, <2>1 DEF Ctu
<1>6. CASE ExitCurrSplit
  <2>1. Len(stack) > 1 /\ stack' = SubSeq(stack, 1, Len(stack) - 1)
    BY <1>6 DEF ExitCurrSplit
  <2>2. stack'[1] = stack[1]
    BY <1>1, <2>1
  <2> QED BY <2>2 DEF Ctu
<1> QED BY <1>3, <1>4, <1>5, <1>6

(* initCtu puts the partitioner on its CTU. *)
LEMMA StartsOnCtu ==
  ASSUME NEW ctu, NEW ch, InitCtu(ctu, ch) \/ Start(ctu, ch)'
  PROVE  Ctu' = ctu
<1>1. stack' = CtuStack(ctu)
  BY DEF InitCtu, Start
<1> QED BY <1>1 DEF Ctu, CtuStack, NewLevel

-----------------------------------------------------------------------------
(* The walk starts where the partitioner may start. *)
LEMMA InitRefines == FpInit => Init
  BY FirstCtu, PredictionAssumption DEF FpInit, Init

(* Every step of the walk is one of the partitioner, or none. *)
LEMMA NextRefines == FpInv /\ [FpNext]_fpVars => [Next]_vars
<1> SUFFICES ASSUME FpInv, FpNext PROVE Next
  BY DEF vars, fpVars
<1>1. CASE CompressCtu
  <2>1. NextInPic \in CtuAreas
    BY <1>1, NextCtu DEF FpInv, CompressCtu
  <2> QED BY <1>1, <2>1, PredictionAssumption DEF CompressCtu, Next
<1>2. CASE CompressPic
  BY <1>2, FirstCtu, PredictionAssumption DEF CompressPic, Next
<1>3. CASE CompressChroma
  <2>1. "CHROMA" \in Channels
    BY <1>3 DEF CompressChroma, LastChannel
  <2> QED BY <1>3, <2>1 DEF CompressChroma, Next, FpInv, CtuInPic
<1>4. CASE Walk
  BY <1>4 DEF Walk, Next
<1> QED BY <1>1, <1>2, <1>3, <1>4 DEF FpNext

(* The cache of a new encoder holds no valid description. *)
LEMMA NewCacheType == NewCache \in Cache
  BY DEF NewCache, NoMap, Cache, Gridmap, Place

(* The first CTU is prepared before it is searched. *)
LEMMA FpInitInv == FpInit => FpInv
<1> SUFFICES ASSUME FpInit PROVE FpInv
  OBVIOUS
<1>1. IInv
  BY InitInv, InitRefines
<1>2. Ctu = CtuArea(0, 0)
  BY DEF FpInit, Start, Ctu, CtuStack, NewLevel
<1>3. PICK col \in Nat, row \in Nat : Ctu = CtuArea(col, row)
  BY <1>2
<1>4. pic \in Nat /\ intra \in BOOLEAN
  BY DEF FpInit
<1>5. PICK c \in Cache : cache = Prepare(c, CtuArea(col, row), pic, intra)
  BY <1>2, <1>3, NewCacheType DEF FpInit
<1>6. cache \in Cache /\ CurrentFor(cache, Ctu, pic, intra)
  BY <1>3, <1>4, <1>5, PrepareCurrent
<1> QED BY <1>1, <1>2, <1>4, <1>6, FirstCtu DEF FpInv, FpTypeOK, CtuInPic, MapsCurrent, CurrentFor

(* Every CTU is prepared when it is reached; its walk leaves the cache alone. *)
LEMMA FpNextInv == FpInv /\ [FpNext]_fpVars => FpInv'
<1> SUFFICES ASSUME FpInv, [FpNext]_fpVars PROVE FpInv'
  OBVIOUS
<1>0. IInv'
  BY NextInv, NextRefines DEF FpInv
(* A step that leaves the CTU and the cache alone keeps the descriptions current. *)
<1>1. ASSUME Ctu' = Ctu, UNCHANGED <<pic, intra, cache>> PROVE FpInv'
  BY <1>0, <1>1 DEF FpInv, FpTypeOK, CtuInPic, CtuAreas, CtuArea, MapsCurrent, Blocks, PerSide
(* compressCtu on a CTU of the picture makes them current again. *)
<1>2. ASSUME NEW ctu \in CtuAreas, Ctu' = ctu, cache' = Prepare(cache, ctu, pic', intra'),
             pic' \in Nat, intra' \in BOOLEAN
      PROVE  FpInv'
  <2>1. PICK col \in Nat, row \in Nat : ctu = CtuArea(col, row)
    BY DEF CtuAreas
  <2>2. cache' \in Cache /\ CurrentFor(cache', ctu, pic', intra')
    BY <1>2, <2>1, PrepareCurrent DEF FpInv, FpTypeOK
  <2>3. MapsCurrent'
    BY <1>2, <2>2 DEF MapsCurrent, CurrentFor, Blocks, PerSide
  <2>4. CtuInPic' /\ FpTypeOK'
    BY <1>2, <2>2 DEF CtuInPic, CtuAreas, CtuArea, FpTypeOK, Cache, Blocks, PerSide
  <2> QED BY <1>0, <2>3, <2>4 DEF FpInv
<1>3. CASE CompressCtu
  <2>1. NextInPic \in CtuAreas /\ Ctu' = NextInPic
    BY <1>3, NextCtu, StartsOnCtu DEF FpInv, CompressCtu
  <2> QED BY <1>2, <1>3, <2>1 DEF CompressCtu, FpInv, FpTypeOK
<1>4. CASE CompressPic
  <2>1. Ctu' = CtuArea(0, 0)
    BY <1>4, StartsOnCtu DEF CompressPic
  <2>2. pic' \in Nat
    BY <1>4 DEF CompressPic, FpInv, FpTypeOK
  <2> QED BY <1>2, <1>4, <2>1, <2>2, FirstCtu DEF CompressPic
<1>5. CASE CompressChroma
  <2>1. Ctu' = Ctu
    BY <1>5, StartsOnCtu DEF CompressChroma
  <2> QED BY <1>1, <1>5, <2>1 DEF CompressChroma
<1>6. CASE Walk
  <2>1. Ctu' = Ctu
    BY <1>6, WalkKeepsCtu DEF Walk, FpInv
  <2> QED BY <1>1, <1>6, <2>1 DEF Walk
<1>7. CASE UNCHANGED fpVars
  BY <1>1, <1>7 DEF fpVars, Ctu
<1> QED BY <1>3, <1>4, <1>5, <1>6, <1>7 DEF FpNext

(* The invariant of the walk: that of the partitioner, and descriptions    *)
(* that belong to the present CTU.                                         *)
THEOREM WalkInvariance == FpSpec => []FpInv
  BY FpInitInv, FpNextInv, PTL DEF FpSpec

(* The walk of the encoder over CTUs, channels and pictures implements the *)
(* partitioner, so that every theorem about it holds of the encoder.       *)
THEOREM WalkImplementsPartitioner == FpSpec => WalksPartitioner
  BY InitRefines, NextRefines, WalkInvariance, PTL DEF FpSpec, Spec, WalksPartitioner

(* A unit is never decided with a description of another picture or CTU,   *)
(* for every picture and CTU size, and every order of slice types.         *)
THEOREM DescriptionsCurrent == FpSpec => []MapsCurrent
  BY WalkInvariance, PTL DEF FpInv

-----------------------------------------------------------------------------
(* The units the policy is asked about *)

(* The walk keeps the areas, as the partitioner does. *)
LEMMA WalkAreas == FpSpec => [](IInv /\ LevelInv)
  BY WalkImplementsPartitioner, LevelInvariance, Invariance, PTL DEF WalksPartitioner

(* The sides of a unit of at most 32x32. *)
LEMMA SmallSides ==
  ASSUME NEW n \in Powers, n <= 32
  PROVE  n \in {1, 2, 4, 8, 16, 32}
<1>1. n \in Nat \ {0}
  BY PowerHalves
<1>2. n = 1 \/ (n \div 2 \in Powers /\ n = (n \div 2) + (n \div 2))
  BY <1>1, PowerHalves
<1> DEFINE h == n \div 2
<1>3. ASSUME n # 1 PROVE h \in {1, 2, 4, 8, 16}
  <2>1. h \in Powers /\ n = h + h
    BY <1>2, <1>3
  <2> HIDE DEF h
  <2>2. h \in Nat \ {0} /\ h <= 16
    BY <1>1, <2>1, PowerHalves
  <2>3. h <= 8 => h \in {1, 2, 4, 8}
    BY <2>1, PowerSizes
  <2>4. h > 8 => h >= 16
    BY <2>1, PowerSizes
  <2> QED BY <2>2, <2>3, <2>4
<1> QED BY <1>2, <1>3

(* The unit in question, when the policy is asked. *)
LEMMA AskedUnit ==
  ASSUME IInv, LevelInv, Asked
  PROVE  /\ CurrArea \in Area /\ CurrArea.w \in {4, 8, 16, 32} /\ CurrArea.h \in {4, 8, 16, 32}
         /\ CurrArea.x % 4 = 0 /\ CurrArea.y % 4 = 0 /\ chType = "LUMA" /\ StartsInPic(CurrArea)
<1> DEFINE n == Len(stack)
           a == CurrArea
<1>1. /\ n \in 1..Len(stack) /\ HasArea(stack[n]) /\ a = PartOf(stack[n])
      /\ chType = "LUMA" /\ StartsInPic(a) /\ a.w \in 4..BlockSize /\ a.h \in 4..BlockSize
  BY DEF IInv, TypeOK, Asked, OnArea, Top, CurrArea
<1>2. a \in Area /\ AreaFits(a, stack[n].split, chType)
  BY <1>1, LevelFacts
<1> HIDE DEF a, n
<1>3. /\ a.w \in Powers /\ a.h \in Powers /\ a.w \in Nat /\ a.h \in Nat
      /\ a.x % 4 = 0 /\ a.y % 4 = 0 /\ a.w <= 32 /\ a.h <= 32 /\ a.w >= 4 /\ a.h >= 4
  <2>1. a.w \in 4..32 /\ a.h \in 4..32
    BY <1>1, PredictionAssumption
  <2>2. MinTb = 4
    BY PowersAssumption
  <2>3. a.w \in Powers /\ a.h \in Powers /\ a.x % 4 = 0 /\ a.y % 4 = 0
    BY <1>2, <2>2 DEF AreaFits
  <2> QED BY <2>1, <2>3
<1>4. a.w \in {1, 2, 4, 8, 16, 32} /\ a.h \in {1, 2, 4, 8, 16, 32}
  BY <1>3, SmallSides
<1>5. a.w \in {4, 8, 16, 32} /\ a.h \in {4, 8, 16, 32}
  BY <1>3, <1>4
<1> QED BY <1>1, <1>2, <1>3, <1>5 DEF a

(* The cells given to the classifier are those of the unit: of its picture, *)
(* at its place and of its size, within one block's grid.                   *)
THEOREM RoiFits == FpSpec => []RoiIsUnit
<1>1. IInv /\ LevelInv /\ FpInv => RoiIsUnit
  <2> SUFFICES ASSUME IInv, LevelInv, FpInv, Asked, NEW m \in CoveringMaps(cache, CurrArea)
               PROVE  LET a == CurrArea
                          r == Roi(m, a)
                          cells == BlockSize \div GridUnit
                      IN /\ m.of.pic = pic
                         /\ m.of.x + GridUnit * r.x = a.x /\ GridUnit * r.w = a.w
                         /\ m.of.y + GridUnit * r.y = a.y /\ GridUnit * r.h = a.h
                         /\ r.x + r.w <= cells /\ r.y + r.h <= cells
    BY DEF RoiIsUnit
  <2> DEFINE a == CurrArea
  <2>1. /\ a \in Area /\ a.w \in {4, 8, 16, 32} /\ a.h \in {4, 8, 16, 32}
        /\ a.x % 4 = 0 /\ a.y % 4 = 0
    BY AskedUnit
  <2>2. PICK b \in Blocks : m = cache.maps[b] /\ Covers(m, a)
    BY DEF CoveringMaps
  <2>3. /\ m.valid /\ a.x >= m.x /\ a.y >= m.y /\ a.x + a.w <= m.x + 32 /\ a.y + a.h <= m.y + 32
    BY <2>2, PredictionAssumption DEF Covers
  <2>4. /\ m.of = [pic |-> pic, x |-> m.x, y |-> m.y]
        /\ m.x = Ctu.x + 32 * b[1] /\ m.y = Ctu.y + 32 * b[2]
    BY <2>2, <2>3, PredictionAssumption DEF FpInv, MapsCurrent
  <2>5. Ctu.x \in Nat /\ Ctu.y \in Nat /\ Ctu.x % 4 = 0 /\ Ctu.y % 4 = 0
    <3>1. Ctu \in Area /\ AreaFits(Ctu, "CTU", chType)
      BY CtuFits DEF FpInv, CtuInPic, IInv, TypeOK
    <3> QED BY <3>1, PowersAssumption DEF AreaFits, Area
  <2>6. b[1] \in Nat /\ b[2] \in Nat
    BY DEF Blocks
  <2>7. ASSUME NEW c \in Nat, NEW k \in Nat, NEW x \in Nat, NEW mx, NEW w \in {4, 8, 16, 32},
               c % 4 = 0, x % 4 = 0, mx = c + 32 * k, x >= mx, x + w <= mx + 32
        PROVE  /\ mx + 4 * ((x - mx) \div 4) = x /\ 4 * (w \div 4) = w
               /\ ((x - mx) \div 4) + (w \div 4) <= 8
    <3>1. PICK q \in Nat : c = 4 * q
      BY <2>7, Quotient
    <3>2. PICK r \in Nat : x = 4 * r
      BY <2>7, Quotient
    <3>3. mx = 4 * (q + 8 * k) /\ x - mx = 4 * (r - (q + 8 * k)) /\ r - (q + 8 * k) \in Int
      BY <2>7, <3>1, <3>2
    <3> DEFINE d == r - (q + 8 * k)
    <3>4. d \in Int /\ x - mx = 4 * d /\ mx \in Int
      BY <2>7, <3>3
    <3> HIDE DEF d
    <3>5. (x - mx) \div 4 = d /\ mx + 4 * d = x
      BY <3>4
    <3>6. 4 * (w \div 4) = w /\ w \div 4 \in Nat
      OBVIOUS
    <3>7. 4 * d + 4 * (w \div 4) <= 32
      BY <2>7, <3>4, <3>6
    <3>8. d + (w \div 4) <= 8
      BY <3>4, <3>6, <3>7
    <3> QED BY <3>5, <3>6, <3>8
  <2> DEFINE mx == m.x   my == m.y   ax == a.x   ay == a.y   aw == a.w   ah == a.h   b1 == b[1]   b2 == b[2]
  <2>8. ax \in Nat /\ ay \in Nat
    BY <2>1 DEF Area
  <2> DEFINE cx == Ctu.x   cy == Ctu.y
  <2>9. /\ mx + 4 * ((ax - mx) \div 4) = ax /\ 4 * (aw \div 4) = aw
        /\ ((ax - mx) \div 4) + (aw \div 4) <= 8
    <3>1. /\ cx \in Nat /\ b1 \in Nat /\ ax \in Nat /\ aw \in {4, 8, 16, 32} /\ cx % 4 = 0 /\ ax % 4 = 0
          /\ mx = cx + 32 * b1 /\ ax >= mx /\ ax + aw <= mx + 32
      BY <2>1, <2>3, <2>4, <2>5, <2>6, <2>8
    <3> HIDE DEF mx, ax, aw, b1, cx
    <3> QED BY <2>7, <3>1
  <2>10. /\ my + 4 * ((ay - my) \div 4) = ay /\ 4 * (ah \div 4) = ah
         /\ ((ay - my) \div 4) + (ah \div 4) <= 8
    <3>1. /\ cy \in Nat /\ b2 \in Nat /\ ay \in Nat /\ ah \in {4, 8, 16, 32} /\ cy % 4 = 0 /\ ay % 4 = 0
          /\ my = cy + 32 * b2 /\ ay >= my /\ ay + ah <= my + 32
      BY <2>1, <2>3, <2>4, <2>5, <2>6, <2>8
    <3> HIDE DEF my, ay, ah, b2, cy
    <3> QED BY <2>7, <3>1
  <2>11. BlockSize \div GridUnit = 8 /\ GridUnit = 4
    BY PredictionAssumption
  <2> DEFINE r == Roi(m, a)
  <2>12. /\ r.x = (ax - mx) \div 4 /\ r.w = aw \div 4
         /\ r.y = (ay - my) \div 4 /\ r.h = ah \div 4
         /\ m.of.x = mx /\ m.of.y = my /\ m.of.pic = pic
    BY <2>4, <2>11 DEF Roi
  <2> HIDE DEF r, a
  <2> QED BY <2>9, <2>10, <2>11, <2>12 DEF r, a
<1> QED BY <1>1, WalkAreas, WalkInvariance, PTL

(* A classifier is loaded for the shape of every unit the policy is asked   *)
(* about, so that its lookup never throws.                                  *)
THEOREM BranchesLoaded == FpSpec => []BranchLoaded
<1>1. IInv /\ LevelInv => BranchLoaded
  <2> SUFFICES ASSUME IInv, LevelInv, Asked
               PROVE  <<CurrArea.h \div GridUnit, CurrArea.w \div GridUnit>> \in Shapes \cup {<<1, 1>>}
    BY DEF BranchLoaded
  <2>1. CurrArea.w \in {4, 8, 16, 32} /\ CurrArea.h \in {4, 8, 16, 32} /\ GridUnit = 4
    BY AskedUnit, PredictionAssumption
  <2> DEFINE w == CurrArea.w \div GridUnit
             h == CurrArea.h \div GridUnit
  <2>2. w \in {1, 2, 4, 8} /\ h \in {1, 2, 4, 8}
    BY <2>1
  <2> HIDE DEF w, h
  <2>3. <<h, w>> \in Shapes \cup {<<1, 1>>}
    BY <2>2 DEF Shapes
  <2> QED BY <2>3 DEF w, h
<1> QED BY <1>1, WalkAreas, PTL

-----------------------------------------------------------------------------
(* The blocks of a CTU *)

(* Area p lies in one block of the 32x32 grid *)
OneBlock(p) == \E u, v \in Nat : /\ 32 * u <= p.x /\ p.x + p.w <= 32 * u + 32
                                 /\ 32 * v <= p.y /\ p.y + p.h <= 32 * v + 32
Small(p) == p.w <= 32 /\ p.h <= 32

(* While luma is searched, small areas lie in one block each, all in the CTU *)
BlocksAt(i) == \A j \in 1..Len(stack[i].parts) :
  LET p == stack[i].parts[j]
  IN Inside(p, Ctu) /\ (Small(p) => OneBlock(p))
BlockInv == chType = "LUMA" => \A i \in 1..Len(stack) : BlocksAt(i)

(* The limits of units of more than 32x32 *)
SmallLimits == MaxBt["LUMA"] <= 32 /\ MaxTt["LUMA"] <= 32

(* A side in its own grid lies in one block. *)
LEMMA SideInBlock ==
  ASSUME NEW w \in Powers, w <= 32, NEW x \in Nat, x % w = 0
  PROVE  \E u \in Nat : 32 * u <= x /\ x + w <= 32 * u + 32
<1>1. w \in {1, 2, 4, 8, 16, 32}
  BY SmallSides
<1> DEFINE u == x \div 32
<1>2. u \in Nat /\ 32 * u <= x /\ x <= 32 * u + 31
  BY SMT
<1>3. PICK q \in Nat : x = w * q
  <2>1. w \in Nat \ {0}
    BY <1>1
  <2> QED BY <2>1, Quotient
<1> HIDE DEF u
<1>4. x + w <= 32 * u + 32
  <2>1. CASE w = 1
    BY <1>2, <2>1
  <2>2. CASE w = 2
    <3>1. 2 * q <= 32 * u + 31
      BY <1>2, <1>3, <2>2
    <3>2. q <= 16 * u + 15
      BY <1>2, <3>1
    <3> QED BY <1>2, <1>3, <2>2, <3>2
  <2>3. CASE w = 4
    <3>1. 4 * q <= 32 * u + 31
      BY <1>2, <1>3, <2>3
    <3>2. q <= 8 * u + 7
      BY <1>2, <3>1
    <3> QED BY <1>2, <1>3, <2>3, <3>2
  <2>4. CASE w = 8
    <3>1. 8 * q <= 32 * u + 31
      BY <1>2, <1>3, <2>4
    <3>2. q <= 4 * u + 3
      BY <1>2, <3>1
    <3> QED BY <1>2, <1>3, <2>4, <3>2
  <2>5. CASE w = 16
    <3>1. 16 * q <= 32 * u + 31
      BY <1>2, <1>3, <2>5
    <3>2. q <= 2 * u + 1
      BY <1>2, <3>1
    <3> QED BY <1>2, <1>3, <2>5, <3>2
  <2>6. CASE w = 32
    <3>1. 32 * q <= 32 * u + 31
      BY <1>2, <1>3, <2>6
    <3>2. q <= u
      BY <1>2, <3>1
    <3> QED BY <1>2, <1>3, <2>6, <3>2
  <2> QED BY <1>1, <2>1, <2>2, <2>3, <2>4, <2>5, <2>6
<1> QED BY <1>2, <1>4

(* A square of the quad tree does so on both sides, *)
LEMMA SquareInBlock ==
  ASSUME NEW p \in Area, NEW ls, NEW ch, AreaFits(p, ls, ch), ls \notin Mtt, Small(p)
  PROVE  OneBlock(p)
<1>1. /\ p.x \in Nat /\ p.y \in Nat /\ p.w \in Powers /\ p.h \in Powers
      /\ p.x % p.w = 0 /\ p.y % p.h = 0 /\ p.w <= 32 /\ p.h <= 32
  BY DEF Area, AreaFits, Aligned, Small
<1>2. PICK u \in Nat : 32 * u <= p.x /\ p.x + p.w <= 32 * u + 32
  BY <1>1, SideInBlock
<1>3. PICK v \in Nat : 32 * v <= p.y /\ p.y + p.h <= 32 * v + 32
  BY <1>1, SideInBlock
<1> QED BY <1>2, <1>3 DEF OneBlock

(* and what lies inside an area in one block. *)
LEMMA InsideInBlock ==
  ASSUME NEW a \in Area, NEW p \in Area, NEW c \in Area, Inside(p, a)
  PROVE  /\ OneBlock(a) => OneBlock(p)
         /\ Small(a) => Small(p)
         /\ Inside(a, c) => Inside(p, c)
<1>1. /\ a.x \in Nat /\ a.y \in Nat /\ a.w \in Nat /\ a.h \in Nat
      /\ p.x \in Nat /\ p.y \in Nat /\ p.w \in Nat /\ p.h \in Nat
      /\ c.x \in Nat /\ c.y \in Nat /\ c.w \in Nat /\ c.h \in Nat
  BY DEF Area
<1>2. a.x <= p.x /\ p.x + p.w <= a.x + a.w /\ a.y <= p.y /\ p.y + p.h <= a.y + a.h
  BY DEF Inside
<1>3. Inside(a, c) => Inside(p, c)
  BY <1>1, <1>2 DEF Inside
<1>4. Small(a) => Small(p)
  BY <1>1, <1>2 DEF Small
<1>5. ASSUME OneBlock(a) PROVE OneBlock(p)
  <2>1. PICK u \in Nat, v \in Nat : /\ 32 * u <= a.x /\ a.x + a.w <= 32 * u + 32
                                    /\ 32 * v <= a.y /\ a.y + a.h <= 32 * v + 32
    BY <1>5 DEF OneBlock
  <2>2. /\ 32 * u <= p.x /\ p.x + p.w <= 32 * u + 32
        /\ 32 * v <= p.y /\ p.y + p.h <= 32 * v + 32
    BY <1>1, <1>2, <2>1
  <2> QED BY <2>2 DEF OneBlock
<1> QED BY <1>3, <1>4, <1>5

(* With such limits the multi-type tree starts within a block. *)
LEMMA MttIsSmall ==
  ASSUME SmallLimits, NEW lv, NEW c, NEW a, a = PartOf(lv), a.w \in Nat, a.h \in Nat,
         MaxBt["LUMA"] \in Nat, MaxTt["LUMA"] \in Nat,
         ImplicitOf(lv, c, "LUMA") = ImplicitSplitOf(a, c, "LUMA"),
         NEW s \in Mtt, s \in LegalSplits(lv, c, "LUMA")
  PROVE  Small(a)
<1> DEFINE imp == ImplicitSplitOf(a, c, "LUMA")
<1>1. s = imp \/ imp = "DONT"
  BY LegalMtt
<1>2. imp \in {"HORZ", "VERT"} => a.w <= MaxBt["LUMA"] /\ a.h <= MaxBt["LUMA"]
  BY DEF ImplicitSplitOf
<1>3. imp = "DONT" /\ s \in {"HORZ", "VERT"} => ~(a.w > MaxBt["LUMA"] \/ a.h > MaxBt["LUMA"])
  BY DEF LegalSplits
<1>4. imp = "DONT" /\ s \in {"TRIH", "TRIV"} => ~(a.w > MaxTt["LUMA"] \/ a.h > MaxTt["LUMA"])
  BY DEF LegalSplits
<1>5. imp \in {"QUAD", "HORZ", "VERT", "DONT"}
  BY ImplicitType
<1> HIDE DEF imp
<1>6. \/ a.w <= MaxBt["LUMA"] /\ a.h <= MaxBt["LUMA"]
      \/ a.w <= MaxTt["LUMA"] /\ a.h <= MaxTt["LUMA"]
  BY <1>1, <1>2, <1>3, <1>4, <1>5 DEF Mtt
<1> QED BY <1>6 DEF Small, SmallLimits

(* A CTU is in its own block, or larger. *)
LEMMA StartBlocks ==
  ASSUME NEW CONSTANT ctu \in CtuAreas, NEW CONSTANT ch \in Channels
  PROVE  Start(ctu, ch) => BlockInv
<1> SUFFICES ASSUME Start(ctu, ch) PROVE BlockInv
  OBVIOUS
<1>1. ctu \in Area /\ AreaFits(ctu, "CTU", ch)
  BY CtuFits
<1>2. Len(stack) = 1 /\ stack[1].parts = <<ctu>> /\ Ctu = ctu
  BY DEF Start, CtuStack, NewLevel, Ctu
<1>3. Inside(ctu, ctu)
  BY <1>1 DEF Inside, Area
<1>4. Small(ctu) => OneBlock(ctu)
  BY <1>1, SquareInBlock DEF Mtt
<1>5. BlocksAt(1)
  <2> SUFFICES ASSUME NEW j \in 1..Len(stack[1].parts)
               PROVE  LET p == stack[1].parts[j] IN Inside(p, Ctu) /\ (Small(p) => OneBlock(p))
    BY DEF BlocksAt
  <2>1. stack[1].parts[j] = ctu
    BY <1>2
  <2> QED BY <1>2, <1>3, <1>4, <2>1
<1>6. 1..Len(stack) = {1}
  BY <1>2
<1> QED BY <1>5, <1>6 DEF BlockInv

(* Start is initCtu's state after it, too. *)
LEMMA RestartBlocks ==
  ASSUME NEW CONSTANT ctu \in CtuAreas, NEW CONSTANT ch \in Channels
  PROVE  Start(ctu, ch)' => BlockInv'
<1>1. Start(ctu, ch) => BlockInv
  BY StartBlocks
<1> QED BY <1>1, PTL

(* Every split keeps small areas within a block. *)
LEMMA NextBlocks == SmallLimits /\ IInv /\ LevelInv /\ BlockInv /\ [Next]_vars => BlockInv'
<1> SUFFICES ASSUME SmallLimits, IInv, LevelInv, BlockInv, [Next]_vars PROVE BlockInv'
  OBVIOUS
<1>0. PICK n \in Nat \ {0} : n = Len(stack)
  BY DEF IInv, TypeOK
<1>1. n = Len(stack) /\ stack \in Seq(Level) /\ stack[1] \in Level /\ Ctu \in Area
  <2>1. n = Len(stack) /\ stack \in Seq(Level) /\ stack[1] \in Level /\ 1 \in 1..Len(stack)
    BY <1>0 DEF IInv, TypeOK
  <2>2. stack[1].split = "CTU" /\ Len(stack[1].parts) = NumParts(stack[1].split)
    BY <2>1 DEF IInv, PartsShape
  <2>3. NumParts("CTU") = 1
    BY DEF NumParts
  <2>4. Len(stack[1].parts) = 1 /\ stack[1].parts \in Seq(Area)
    BY <2>1, <2>2, <2>3 DEF Level
  <2>5. stack[1].parts[1] \in Area
    BY <2>4
  <2> QED BY <2>1, <2>5 DEF Ctu
<1>2. ASSUME NEW ctu \in CtuAreas, NEW ch \in Channels, Start(ctu, ch)' PROVE BlockInv'
  BY <1>2, RestartBlocks
<1>3. ASSUME NEW m \in Nat \ {0}, KeepsLevels(m)
      PROVE  /\ chType' = chType /\ Ctu' = Ctu
             /\ \A i \in 1..m : chType = "LUMA" => BlocksAt(i)'
  <2>1. /\ chType' = chType
        /\ \A i \in 1..m : stack'[i].parts = stack[i].parts /\ i \in 1..n
    BY <1>1, <1>3 DEF KeepsLevels
  <2>2. Ctu' = Ctu
    BY <1>3, <2>1 DEF Ctu
  <2>3. ASSUME NEW i \in 1..m, chType = "LUMA" PROVE BlocksAt(i)'
    <3>1. BlocksAt(i)
      BY <1>1, <2>1, <2>3 DEF BlockInv
    <3> QED BY <2>1, <2>2, <3>1 DEF BlocksAt
  <2> QED BY <2>1, <2>2, <2>3
<1>4. CASE KeepsLevels(Len(stack')) /\ Len(stack') > 0
  <2>1. Len(stack') \in Nat \ {0}
    BY <1>4 DEF KeepsLevels
  <2> QED BY <1>3, <1>4, <2>1 DEF BlockInv
<1>5. ASSUME NEW s \in Splits, OnArea, s \in LegalSplits(Top, curr, chType),
             KeepsLevels(Len(stack)), Len(stack') = Len(stack) + 1,
             stack'[Len(stack')].parts = SubAreas(CurrArea, s)
      PROVE  BlockInv'
  <2>1. /\ chType' = chType /\ Ctu' = Ctu
        /\ \A i \in 1..n : chType = "LUMA" => BlocksAt(i)'
    BY <1>1, <1>3, <1>5
  <2> SUFFICES ASSUME chType = "LUMA" PROVE BlocksAt(n + 1)'
    BY <1>1, <1>5, <2>1 DEF BlockInv
  <2> DEFINE a == CurrArea
             sub == SubAreas(a, s)
  <2>2. /\ n \in 1..Len(stack) /\ Top = stack[n] /\ CountersAt(n) = curr /\ a = PartOf(stack[n])
        /\ HasArea(stack[n]) /\ StartsInPic(a)
    BY <1>1, <1>5 DEF Top, CountersAt, OnArea, CurrArea
  <2>3. /\ a \in Area /\ stack[n] \in Level
        /\ ImplicitOf(Top, curr, chType) = ImplicitSplitOf(a, curr, chType)
    BY <2>2, LevelFacts
  <2>4. /\ Tiles(sub, a)
        /\ \A j \in 1..Len(sub) : AreaFits(sub[j], s, chType)
    BY <1>5, <2>2, LevelsFitSplits
  <2>5. sub \in Seq(Area)
    BY <2>3, SubAreasType
  <2>6. Inside(a, Ctu) /\ (Small(a) => OneBlock(a))
    <3>1. BlocksAt(n)
      BY <2>2 DEF BlockInv
    <3>2. stack[n].idx \in Nat /\ Len(stack[n].parts) \in Nat
      BY <2>3 DEF Level
    <3>3. stack[n].idx + 1 \in 1..Len(stack[n].parts)
      BY <2>2, <3>2 DEF HasArea
    <3> QED BY <2>2, <3>1, <3>3 DEF BlocksAt, PartOf
  <2>7. s \in Mtt => Small(a)
    <3>1. a.w \in Nat /\ a.h \in Nat
      BY <2>3 DEF Area
    <3>2. MaxBt["LUMA"] \in Nat /\ MaxTt["LUMA"] \in Nat
      BY LimitsAssumption, PredictionAssumption
    <3>3. a = PartOf(Top)
      BY <2>2
    <3> HIDE DEF a
    <3> QED BY <1>5, <2>3, <3>1, <3>2, <3>3, MttIsSmall
  <2> HIDE DEF a, sub
  <2>8. ASSUME NEW j \in 1..Len(sub) PROVE Inside(sub[j], Ctu) /\ (Small(sub[j]) => OneBlock(sub[j]))
    <3> DEFINE p == sub[j]
    <3>1. p \in Area /\ Inside(p, a) /\ AreaFits(p, s, chType)
      BY <2>4, <2>5 DEF Tiles
    <3> HIDE DEF p
    <3>2. Inside(p, Ctu) /\ (OneBlock(a) => OneBlock(p))
      BY <1>1, <2>3, <2>6, <3>1, InsideInBlock
    <3>3. CASE s \in Mtt
      BY <2>6, <2>7, <3>2, <3>3 DEF p
    <3>4. CASE s \notin Mtt
      <4>1. Small(p) => OneBlock(p)
        BY <3>1, <3>4, SquareInBlock
      <4> QED BY <3>2, <4>1 DEF p
    <3> QED BY <3>3, <3>4
  <2>9. stack'[n + 1].parts = sub
    BY <1>1, <1>5 DEF sub, a
  <2> QED BY <2>1, <2>8, <2>9 DEF BlocksAt
<1>6. QED
  BY <1>2, <1>4, <1>5, StepShapes

(* So they lie within one all along. *)
LEMMA BlockInvariance ==
  ASSUME SmallLimits
  PROVE  Spec => []BlockInv
<1>1. Init => BlockInv
  BY StartBlocks DEF Init
<1>2. IInv /\ LevelInv /\ BlockInv /\ [Next]_vars => BlockInv'
  BY NextBlocks
<1> QED BY <1>1, <1>2, Invariance, LevelInvariance, PTL DEF Spec

(* A valid cache describes every block of the CTU                           *)
WholeFor(c, ctu, p) ==
  c.valid => /\ CtuSize = PreparedCtu
             /\ \A b \in Blocks : c.maps[b] = MapOf(ctu, b, p)
CacheWhole == WholeFor(cache, Ctu, pic)

(* compressCtu describes all blocks or none. *)
LEMMA PrepareWhole ==
  ASSUME NEW c, NEW col, NEW row, NEW p, NEW isIntra
  PROVE  WholeFor(Prepare(c, CtuArea(col, row), p, isIntra), CtuArea(col, row), p)
<1> DEFINE ctu == CtuArea(col, row)
           maps == [b \in Blocks |-> MapOf(ctu, b, p)]
           new == Prepare(c, ctu, p, isIntra)
<1>1. ctu.w = CtuSize
  BY DEF CtuArea
<1>2. CASE HaveModels /\ isIntra /\ ctu.w = PreparedCtu /\ ctu.h = PreparedCtu
  <2>1. new.maps = maps
    BY <1>2 DEF Prepare
  <2>2. \A b \in Blocks : maps[b] = MapOf(ctu, b, p)
    OBVIOUS
  <2> HIDE DEF new, maps
  <2>3. \A b \in Blocks : new.maps[b] = MapOf(ctu, b, p)
    BY <2>1, <2>2
  <2> HIDE DEF ctu
  <2>4. WholeFor(new, ctu, p)
    BY <1>1, <1>2, <2>3 DEF WholeFor
  <2> QED BY <2>4 DEF new, ctu
<1>3. CASE ~(HaveModels /\ isIntra /\ ctu.w = PreparedCtu /\ ctu.h = PreparedCtu)
  <2>1. ~new.valid
    BY <1>3 DEF Prepare, Reset
  <2> QED BY <2>1 DEF WholeFor
<1> QED BY <1>2, <1>3

(* Every CTU starts with a cache of its own, *)
LEMMA WholeInit == FpInit => CacheWhole
<1> SUFFICES ASSUME FpInit PROVE CacheWhole
  OBVIOUS
<1>1. Ctu = CtuArea(0, 0) /\ cache = Prepare(NewCache, CtuArea(0, 0), pic, intra)
  BY DEF FpInit, Start, Ctu, CtuStack, NewLevel
<1>2. WholeFor(Prepare(NewCache, CtuArea(0, 0), pic, intra), CtuArea(0, 0), pic)
  BY PrepareWhole
<1> QED BY <1>1, <1>2 DEF CacheWhole

(* and keeps it through both channels. *)
LEMMA WholeNext == FpInv /\ CacheWhole /\ [FpNext]_fpVars => CacheWhole'
<1> SUFFICES ASSUME FpInv, CacheWhole, [FpNext]_fpVars PROVE CacheWhole'
  OBVIOUS
<1>1. ASSUME Ctu' = Ctu, UNCHANGED <<pic, intra, cache>> PROVE CacheWhole'
  BY <1>1 DEF CacheWhole, WholeFor, MapOf, Blocks, PerSide, InPic
<1>2. ASSUME NEW ctu \in CtuAreas, Ctu' = ctu, cache' = Prepare(cache, ctu, pic', intra')
      PROVE  CacheWhole'
  <2>1. PICK col \in Nat, row \in Nat : ctu = CtuArea(col, row)
    BY DEF CtuAreas
  <2>2. WholeFor(cache', ctu, pic')
    BY <1>2, <2>1, PrepareWhole
  <2> QED BY <1>2, <2>2 DEF CacheWhole, WholeFor, MapOf, Blocks, PerSide, InPic
<1>3. CASE CompressCtu
  <2>1. NextInPic \in CtuAreas /\ Ctu' = NextInPic
    BY <1>3, NextCtu, StartsOnCtu DEF FpInv, CompressCtu
  <2> QED BY <1>2, <1>3, <2>1 DEF CompressCtu
<1>4. CASE CompressPic
  <2>1. Ctu' = CtuArea(0, 0)
    BY <1>4, StartsOnCtu DEF CompressPic
  <2> QED BY <1>2, <1>4, <2>1, FirstCtu DEF CompressPic
<1>5. CASE CompressChroma
  <2>1. Ctu' = Ctu
    BY <1>5, StartsOnCtu DEF CompressChroma
  <2> QED BY <1>1, <1>5, <2>1 DEF CompressChroma
<1>6. CASE Walk
  <2>1. Ctu' = Ctu
    BY <1>6, WalkKeepsCtu DEF Walk, FpInv
  <2> QED BY <1>1, <1>6, <2>1 DEF Walk
<1>7. CASE UNCHANGED fpVars
  BY <1>1, <1>7 DEF fpVars, Ctu
<1> QED BY <1>3, <1>4, <1>5, <1>6, <1>7 DEF FpNext

(* A block of the grid that meets a CTU is one of its blocks. *)
LEMMA BlockIndex ==
  ASSUME NEW k \in Nat, NEW n \in Nat, NEW u \in Nat, NEW x \in Nat, NEW w \in Nat \ {0},
         32 * u <= x, x + w <= 32 * u + 32, 32 * k <= x, x + w <= 32 * k + 32 * n
  PROVE  u - k \in 0..(n - 1) /\ 32 * k + 32 * (u - k) = 32 * u
<1>1. u >= k
  BY SMT
<1>2. u < k + n
  BY SMT
<1> QED BY <1>1, <1>2

(* With limits that keep units of at most 32x32 inside the quad tree's      *)
(* blocks, as those of the learned policy's configuration do, the policy     *)
(* finds a description for every unit it is asked about.                    *)
THEOREM UnitsCovered ==
  ASSUME SmallLimits
  PROVE  FpSpec => []AlwaysCovered
<1>1. IInv /\ LevelInv /\ FpInv /\ BlockInv /\ CacheWhole => AlwaysCovered
  <2> SUFFICES ASSUME IInv, LevelInv, FpInv, BlockInv, CacheWhole, Asked
               PROVE  CoveringMaps(cache, CurrArea) # {}
    BY DEF AlwaysCovered
  <2> DEFINE n == Len(stack)
             a == CurrArea
  <2>1. /\ a \in Area /\ a.w \in {4, 8, 16, 32} /\ a.h \in {4, 8, 16, 32}
        /\ chType = "LUMA" /\ StartsInPic(a)
    BY AskedUnit
  <2>2. /\ n \in 1..Len(stack) /\ a = PartOf(stack[n]) /\ HasArea(stack[n]) /\ stack[n] \in Level
    BY DEF IInv, TypeOK, Asked, OnArea, Top, CurrArea
  <2>3. Inside(a, Ctu) /\ (Small(a) => OneBlock(a))
    <3>1. BlocksAt(n)
      BY <2>1, <2>2 DEF BlockInv
    <3>2. stack[n].idx \in Nat /\ Len(stack[n].parts) \in Nat
      BY <2>2 DEF Level
    <3>3. stack[n].idx + 1 \in 1..Len(stack[n].parts)
      BY <2>2, <3>2 DEF HasArea
    <3> QED BY <2>2, <3>1, <3>3 DEF BlocksAt, PartOf
  <2>4. /\ CtuSize = PreparedCtu
        /\ \A b \in Blocks : cache.maps[b] = MapOf(Ctu, b, pic)
    BY DEF Asked, CacheWhole, WholeFor
  <2> HIDE DEF a, n
  <2>5. /\ a.x \in Nat /\ a.y \in Nat /\ a.w \in Nat \ {0} /\ a.h \in Nat \ {0} /\ Small(a)
        /\ a.x < PicW /\ a.y < PicH
    BY <2>1 DEF Area, Small, StartsInPic, InPic
  <2>6. PICK u \in Nat, v \in Nat : /\ 32 * u <= a.x /\ a.x + a.w <= 32 * u + 32
                                    /\ 32 * v <= a.y /\ a.y + a.h <= 32 * v + 32
    BY <2>3, <2>5 DEF OneBlock
  <2>7. PICK col \in Nat, row \in Nat : Ctu = CtuArea(col, row)
    BY DEF FpInv, CtuInPic, CtuAreas
  <2>8. PICK side \in Nat : PreparedCtu = 32 * side /\ PerSide = side
    <3>1. PreparedCtu \in Nat /\ PreparedCtu % 32 = 0
      BY PredictionAssumption
    <3>2. PICK side \in Nat : PreparedCtu = 32 * side
      BY <3>1, Quotient
    <3>3. PerSide = side
      BY <3>2, PredictionAssumption DEF PerSide
    <3> QED BY <3>2, <3>3
  <2> DEFINE k == col * side
             l == row * side
  <2>9. k \in Nat /\ l \in Nat
    OBVIOUS
  <2>10. /\ Ctu.x = 32 * k /\ Ctu.y = 32 * l /\ Ctu.w = 32 * side /\ Ctu.h = 32 * side
    <3>1. Ctu.x = col * (32 * side) /\ Ctu.y = row * (32 * side) /\ Ctu.w = 32 * side /\ Ctu.h = 32 * side
      BY <2>4, <2>7, <2>8 DEF CtuArea
    <3>2. col * (32 * side) = 32 * (col * side) /\ row * (32 * side) = 32 * (row * side)
      OBVIOUS
    <3> QED BY <3>1, <3>2
  <2> HIDE DEF k, l
  <2>11. /\ 32 * k <= a.x /\ a.x + a.w <= 32 * k + 32 * side
         /\ 32 * l <= a.y /\ a.y + a.h <= 32 * l + 32 * side
    BY <2>3, <2>10 DEF Inside
  <2>12. u - k \in 0..(side - 1) /\ 32 * k + 32 * (u - k) = 32 * u
    <3> DEFINE x == a.x   w == a.w
    <3>1. /\ x \in Nat /\ w \in Nat \ {0} /\ 32 * u <= x /\ x + w <= 32 * u + 32
          /\ 32 * k <= x /\ x + w <= 32 * k + 32 * side
      BY <2>5, <2>6, <2>11
    <3> HIDE DEF x, w
    <3> QED BY <2>9, <3>1, BlockIndex
  <2>13. v - l \in 0..(side - 1) /\ 32 * l + 32 * (v - l) = 32 * v
    <3> DEFINE y == a.y   h == a.h
    <3>1. /\ y \in Nat /\ h \in Nat \ {0} /\ 32 * v <= y /\ y + h <= 32 * v + 32
          /\ 32 * l <= y /\ y + h <= 32 * l + 32 * side
      BY <2>5, <2>6, <2>11
    <3> HIDE DEF y, h
    <3> QED BY <2>9, <3>1, BlockIndex
  <2> DEFINE b == <<u - k, v - l>>
             m == MapOf(Ctu, b, pic)
  <2>14. b \in Blocks /\ b[1] = u - k /\ b[2] = v - l
    BY <2>8, <2>12, <2>13 DEF Blocks
  <2> HIDE DEF b
  <2>15. /\ Ctu.x + BlockSize * b[1] = 32 * u
         /\ Ctu.y + BlockSize * b[2] = 32 * v
    BY <2>10, <2>12, <2>13, <2>14, PredictionAssumption
  <2>16. /\ m.x = 32 * u /\ m.y = 32 * v /\ m.valid = InPic(32 * u, 32 * v)
    BY <2>15 DEF MapOf
  <2> HIDE DEF m
  <2>17. InPic(32 * u, 32 * v)
    <3>1. 32 * u < PicW /\ 32 * v < PicH
      BY <2>5, <2>6, SizesAssumption
    <3> QED BY <3>1 DEF InPic
  <2>18. Covers(m, a)
    BY <2>5, <2>6, <2>16, <2>17, PredictionAssumption DEF Covers
  <2>19. cache.maps[b] = m
    BY <2>4, <2>14 DEF m
  <2> QED BY <2>14, <2>18, <2>19 DEF CoveringMaps, a
<1>2. FpSpec => []BlockInv
  BY WalkImplementsPartitioner, BlockInvariance, PTL DEF WalksPartitioner
<1>3. FpSpec => []CacheWhole
  BY WholeInit, WholeNext, WalkInvariance, PTL DEF FpSpec
<1> QED BY <1>1, <1>2, <1>3, WalkAreas, WalkInvariance, PTL

=============================================================================
