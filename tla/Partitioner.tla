---------------------------- MODULE Partitioner ----------------------------
(***************************************************************************)
(* QTBTPartitioner (CommonLib/UnitPartitioner): the stack of partitioning  *)
(* levels that leads from a CTU to the area being coded, the depth         *)
(* counters kept next to it, the lazily computed implicit split of every   *)
(* level and the quantisation-group positions.  Encoder search and parser  *)
(* drive it through the same four calls: splitCurrArea, nextPart,          *)
(* exitCurrSplit and the canSplit/getImplicitSplit queries.                *)
(*                                                                         *)
(* Scope: an intra slice (TREE_D, MODE_TYPE_ALL); sizes are luma samples,  *)
(* chroma is 4:2:0.  Transform splits (TU, SBT) use the same stack but not   *)
(* these counters and are left out.                                        *)
(***************************************************************************)
EXTENDS CuAreas

CONSTANTS
  CtuSize, PicW, PicH,            \* CTU side and picture size
  Channels,                       \* subset of {"LUMA", "CHROMA"}
  DualTree,                       \* CS::isDualITree
  MaxBtDepth, MinBt, MaxBt,       \* per channel, PreCalcValues
  MinTt, MaxTt, MinQt,
  MaxTb,                          \* MAX_TB_SIZEY
  DualTreeMax,                    \* the literal 64 of getImplicitSplit
  MinTb,                          \* MIN_TB_SIZEY
  MinChromaWidth, MinChromaSize,  \* MIN_DUALTREE_CHROMA_*
  QgSubdiv                        \* per quantisation-group kind

Qg == {"qp", "chromaQp"}
Mtt == {"HORZ", "VERT", "TRIH", "TRIV"}
Splits == Mtt \cup {"QUAD"}

ASSUME SizesAssumption ==
  /\ CtuSize \in Nat \ {0} /\ PicW \in Nat \ {0} /\ PicH \in Nat \ {0}
  /\ Channels \subseteq {"LUMA", "CHROMA"} /\ Channels # {}
ASSUME LimitsAssumption ==
  /\ \A f \in {MaxBtDepth, MinBt, MaxBt, MinTt, MaxTt, MinQt} : f \in [Channels -> Nat]
  /\ QgSubdiv \in [Qg -> Nat]
  /\ DualTree \in BOOLEAN

(* The powers of two up to a CTU side: no odd number but 1 divides them                  *)
Powers == {n \in 1..CtuSize : \A d \in 1..n : n % d = 0 => d = 1 \/ d % 2 = 0}

(* CTUs have at most 128 samples a side, MAX_CU_SIZE, and MAX_TB_SIZEY is 64; the sides  *)
(* of a picture are multiples of 8 (EncAppCfg::xCheckParameter), the limits at least the *)
(* smallest coding block, 4                                                              *)
ASSUME PowersAssumption ==
  /\ CtuSize \in Powers /\ MinTb = 4 /\ CtuSize >= MinTb
  /\ MaxTb \in Nat /\ CtuSize <= 2 * MaxTb /\ CtuSize <= 128
  /\ DualTreeMax \in Nat /\ DualTreeMax >= MinTb
  /\ MinChromaWidth \in Nat /\ MinChromaSize \in Nat
  /\ PicW % 8 = 0 /\ PicH % 8 = 0
  /\ \A ch \in Channels : MinBt[ch] >= MinTb /\ MinTt[ch] >= MinTb /\ MinQt[ch] >= MinTb

VARIABLES
  stack,   \* m_partStack
  curr,    \* currDepth, currQtDepth, currBtDepth, currMtDepth, currSubdiv, currImplicitBtDepth
  qgPos,   \* currQgPos and currQgChromaPos
  chType,
  saved    \* history: the value of curr when each level above the first was pushed

vars == <<stack, curr, qgPos, chType, saved>>

Area == [x : Nat, y : Nat, w : Nat, h : Nat]
Pos  == [x : Nat, y : Nat]
PosOf(a) == [x |-> a.x, y |-> a.y]
Counters == [depth : Nat, qt : Nat, bt : Nat, mt : Nat, subdiv : Nat, impl : Nat]
Level == [split : Splits \cup {"CTU"}, parts : Seq(Area), idx : Nat,
          checked : BOOLEAN, isImplicit : BOOLEAN,
          implicitSplit : Splits \cup {"DONT"}, qg : [Qg -> BOOLEAN]]

Top == stack[Len(stack)]
PartOf(lv) == lv.parts[lv.idx + 1]
CurrArea == PartOf(Top)
HasArea(lv) == lv.idx < Len(lv.parts)

-----------------------------------------------------------------------------
InPic(x, y) == x < PicW /\ y < PicH
StartsInPic(a) == InPic(a.x, a.y)

BlIn(a) == InPic(a.x, a.y + a.h - 1)
TrInMutant(a) == InPic(a.x, a.y + a.h - 1)
TrIn(a) == InPic(a.x + a.w - 1, a.y)

(* Implicit splits do not use up the depth of the multi-type tree *)
MttLeftMutantImplicitCounted(c, ch) == c.mt < MaxBtDepth[ch]
MttLeftMutantOneMore(c, ch) == c.mt <= MaxBtDepth[ch] + c.impl
MttLeft(c, ch) == c.mt < MaxBtDepth[ch] + c.impl

(* QTBTPartitioner::getImplicitSplit on area a with counters c *)
ImplicitSplitOf(a, c, ch) ==
  LET blIn == BlIn(a)
      trIn == TrIn(a)
      btAllowed == a.w <= MaxBt[ch] /\ a.h <= MaxBt[ch] /\ MttLeft(c, ch)
      qtAllowed == a.w > MinQt[ch] /\ a.h > MinQt[ch] /\ c.bt = 0
  IN IF DualTree /\ (a.w > DualTreeMax \/ a.h > DualTreeMax) THEN "QUAD"
     ELSE IF ~blIn /\ ~trIn /\ qtAllowed THEN "QUAD"
     ELSE IF ~blIn /\ btAllowed /\ a.w <= MaxTb THEN "HORZ"
     ELSE IF ~trIn /\ btAllowed /\ a.h <= MaxTb THEN "VERT"
     ELSE IF ~blIn \/ ~trIn THEN "QUAD"
     ELSE "DONT"

(* The value getImplicitSplit returns for level lv: the cached one if there is one *)
ImplicitOf(lv, c, ch) == IF lv.checked THEN lv.implicitSplit
                                       ELSE ImplicitSplitOf(PartOf(lv), c, ch)

(* A side is long enough for a ternary split *)
ThirdsFitMutant(n, ch) == n >= 2 * MinTt[ch]
ThirdsFit(n, ch) == n > 2 * MinTt[ch]

(* QTBTPartitioner::canSplit: the splits, and "DONT", allowed on the current part of lv *)
LegalSplits(lv, c, ch) ==
  LET a == PartOf(lv)
      chroma == ch = "CHROMA"
      cw == a.w \div 2
      csize == cw * (a.h \div 2)
      imp == ImplicitOf(lv, c, ch)
      canQt == /\ lv.split \in {"CTU", "QUAD"}
               /\ a.w > MinQt[ch]
               /\ ~(chroma /\ cw <= MinChromaWidth)
      qt == IF canQt THEN {"QUAD"} ELSE {}
      forced == {s \in {imp} \ {"QUAD"} : ~(s = "VERT" /\ chroma /\ cw = 4)}
      above(limit) == a.w > limit \/ a.h > limit
      canBtt == /\ MttLeft(c, ch)
                /\ above(MinBt[ch]) \/ above(MinTt[ch])
                /\ ~(above(MaxBt[ch]) /\ above(MaxTt[ch]))
      middleOf(s) == lv.split = s /\ lv.idx = 1
      bt == {s \in {"HORZ", "VERT"} :
              /\ ~above(MaxBt[ch])
              /\ ~(chroma /\ csize <= MinChromaSize)
              /\ s = "HORZ" => /\ a.h > MinBt[ch]
                               /\ ~(a.w > MaxTb /\ a.h <= MaxTb)
                               /\ ~middleOf("TRIH")
              /\ s = "VERT" => /\ a.w > MinBt[ch]
                               /\ ~(a.w <= MaxTb /\ a.h > MaxTb)
                               /\ ~middleOf("TRIV")
                               /\ ~(chroma /\ cw = 4)}
      tt == {s \in {"TRIH", "TRIV"} :
              /\ ~above(MaxTt[ch]) /\ ~above(MaxTb)
              /\ ~(chroma /\ csize <= 2 * MinChromaSize)
              /\ s = "TRIH" => ThirdsFit(a.h, ch)
              /\ s = "TRIV" => ThirdsFit(a.w, ch) /\ ~(chroma /\ cw = 8)}
  IN IF imp # "DONT"
     THEN IF forced \cup qt = {} THEN {"QUAD"} ELSE forced \cup qt
     ELSE {"DONT"} \cup qt \cup (IF canBtt THEN bt \cup tt ELSE {})

(* The CHECKs of splitCurrArea and getCUSubPartitions *)
SplitChecks(a, c, s) ==
  /\ s = "QUAD" => c.bt = 0 /\ c.mt = 0
  /\ \A p \in {SubAreas(a, s)[i] : i \in 1..Len(SubAreas(a, s))} :
       (s # "VERT" /\ s # "TRIV" => p.h >= MinTb) /\ (s \in {"VERT", "TRIV"} => p.w >= MinTb)

IsTt(s) == s \in {"TRIH", "TRIV"}

-----------------------------------------------------------------------------
NewLevel(s, parts, qg) ==
  [split |-> s, parts |-> parts, idx |-> 0, checked |-> FALSE, isImplicit |-> FALSE,
   implicitSplit |-> "DONT", qg |-> qg]

Zero == [depth |-> 0, qt |-> 0, bt |-> 0, mt |-> 0, subdiv |-> 0, impl |-> 0]
CtuArea(col, row) == [x |-> col * CtuSize, y |-> row * CtuSize, w |-> CtuSize, h |-> CtuSize]
CtuAreas == {CtuArea(col, row) : col \in 0..((PicW - 1) \div CtuSize),
                                 row \in 0..((PicH - 1) \div CtuSize)}
CtuStack(ctu) == <<NewLevel("CTU", <<ctu>>, [q \in Qg |-> TRUE])>>

(* Level lv with another part index and another cache *)
Update(lv, idx, checked, isImplicit, implicitSplit) ==
  [split |-> lv.split, parts |-> lv.parts, idx |-> idx, checked |-> checked,
   isImplicit |-> isImplicit, implicitSplit |-> implicitSplit, qg |-> lv.qg]

(* Level lv after a query has filled its cache *)
Checked(lv, c, ch) ==
  LET imp == ImplicitSplitOf(PartOf(lv), c, ch)
  IN IF lv.checked THEN lv ELSE Update(lv, lv.idx, TRUE, imp # "DONT", imp)

(* Level lv moved to its next part: the implicit split found for the previous one is dropped *)
NextOfMutant(lv) == Update(lv, lv.idx + 1, lv.checked, lv.isImplicit, lv.implicitSplit)
NextOf(lv) == Update(lv, lv.idx + 1, FALSE, FALSE, lv.implicitSplit)

(* splitCurrArea: the counters of the first part *)
Push(c, s, implicit) ==
  LET n == IF s = "QUAD" \/ IsTt(s) THEN 2 ELSE 1
  IN [depth  |-> c.depth + 1,
      subdiv |-> c.subdiv + n,
      qt     |-> IF s = "QUAD" THEN c.qt + 1 ELSE c.qt,
      bt     |-> IF s = "QUAD" THEN 0 ELSE c.bt + n,
      mt     |-> IF s = "QUAD" THEN 0 ELSE c.mt + 1,
      impl   |-> IF s # "QUAD" /\ implicit THEN c.impl + 1 ELSE c.impl]

(* nextPart: the middle part of a ternary split is one binary split deep, the others two *)
AdvanceMutant(c, s, idx) ==
  LET n == IF IsTt(s) /\ idx = 1 THEN -1 ELSE 0
  IN [depth |-> c.depth, qt |-> c.qt, mt |-> c.mt, impl |-> c.impl,
      subdiv |-> c.subdiv + n, bt |-> c.bt + n]
Advance(c, s, idx) ==
  LET n == IF ~IsTt(s) THEN 0 ELSE IF idx = 1 THEN -1 ELSE 1
  IN [depth |-> c.depth, qt |-> c.qt, mt |-> c.mt, impl |-> c.impl,
      subdiv |-> c.subdiv + n, bt |-> c.bt + n]

(* exitCurrSplit: split s left at part idx, the parent level marked implicit or not *)
PopMutant(c, s, idx, implicit) ==
  LET n == IF s = "QUAD" \/ IsTt(s) THEN 2 ELSE 1
  IN [depth  |-> c.depth - 1,
      subdiv |-> c.subdiv - n,
      qt     |-> IF s = "QUAD" THEN c.qt - 1 ELSE c.qt,
      bt     |-> IF s = "QUAD" THEN c.bt ELSE c.bt - n,
      mt     |-> IF s = "QUAD" THEN c.mt ELSE c.mt - 1,
      impl   |-> IF s # "QUAD" /\ implicit THEN c.impl - 1 ELSE c.impl]
Pop(c, s, idx, implicit) ==
  LET n == IF s = "QUAD" \/ (IsTt(s) /\ idx # 1) THEN 2 ELSE 1
  IN [depth  |-> c.depth - 1,
      subdiv |-> c.subdiv - n,
      qt     |-> IF s = "QUAD" THEN c.qt - 1 ELSE c.qt,
      bt     |-> IF s = "QUAD" THEN c.bt ELSE c.bt - n,
      mt     |-> IF s = "QUAD" THEN c.mt ELSE c.mt - 1,
      impl   |-> IF s # "QUAD" /\ implicit THEN c.impl - 1 ELSE c.impl]

(* currQgPos and currQgChromaPos move to area a where level qg flags allow it *)
MoveQg(pos, qg, a) == [q \in Qg |-> IF qg[q] THEN PosOf(a) ELSE pos[q]]

-----------------------------------------------------------------------------
Start(ctu, ch) ==
  /\ stack = CtuStack(ctu)
  /\ curr = Zero
  /\ qgPos = [q \in Qg |-> PosOf(ctu)]
  /\ chType = ch
  /\ saved = <<>>

Init == \E ctu \in CtuAreas, ch \in Channels : Start(ctu, ch)

(* The search of a channel of a CTU is over: initCtu for the next one *)
InitCtu(ctu, ch) ==
  /\ Len(stack) = 1
  /\ stack' = CtuStack(ctu)
  /\ curr' = Zero
  /\ qgPos' = [q \in Qg |-> PosOf(ctu)]
  /\ chType' = ch
  /\ saved' = <<>>

(* Areas outside the picture are skipped by every driver *)
OnArea == HasArea(Top) /\ StartsInPic(CurrArea)

(* canSplit or getImplicitSplit called on the current area fills its cache *)
Query ==
  /\ OnArea /\ ~Top.checked
  /\ stack' = [stack EXCEPT ![Len(stack)] = Checked(Top, curr, chType)]
  /\ UNCHANGED <<curr, qgPos, chType, saved>>

SplitCurrArea(s) ==
  LET lv == Checked(Top, curr, chType)
      parts == SubAreas(CurrArea, s)
      c == Push(curr, s, s = lv.implicitSplit)
      qg == [q \in Qg |-> lv.qg[q] /\ c.subdiv <= QgSubdiv[q]]
  IN /\ OnArea
     /\ s \in LegalSplits(Top, curr, chType)
     /\ SplitChecks(CurrArea, curr, s)
     /\ stack' = Append([stack EXCEPT ![Len(stack)] = lv], NewLevel(s, parts, qg))
     /\ curr' = c
     /\ qgPos' = MoveQg(qgPos, qg, parts[1])
     /\ saved' = Append(saved, curr)
     /\ UNCHANGED chType

NextPart ==
  LET lv == NextOf(Top)
  IN /\ Len(stack) > 1
     /\ HasArea(Top)
     /\ stack' = [stack EXCEPT ![Len(stack)] = lv]
     /\ IF HasArea(lv)
        THEN /\ curr' = Advance(curr, lv.split, lv.idx)
             /\ qgPos' = MoveQg(qgPos, lv.qg, PartOf(lv))
        ELSE UNCHANGED <<curr, qgPos>>
     /\ UNCHANGED <<chType, saved>>

(* Called after the last part, or early when a part could not be coded *)
ExitCurrSplitMutant ==
  LET parent == stack[Len(stack) - 1]
  IN /\ Len(stack) > 1
     /\ stack' = SubSeq(stack, 1, Len(stack) - 1)
     /\ curr' = Pop(curr, Top.split, Top.idx, parent.isImplicit)
     /\ saved' = SubSeq(saved, 1, Len(saved) - 1)
     /\ UNCHANGED <<chType, qgPos>>
ExitCurrSplit ==
  LET parent == stack[Len(stack) - 1]
  IN /\ Len(stack) > 1
     /\ stack' = SubSeq(stack, 1, Len(stack) - 1)
     /\ curr' = Pop(curr, Top.split, Top.idx, parent.isImplicit)
     /\ qgPos' = MoveQg(qgPos, parent.qg, PartOf(parent))
     /\ saved' = SubSeq(saved, 1, Len(saved) - 1)
     /\ UNCHANGED chType

Next ==
  \/ \E ctu \in CtuAreas, ch \in Channels : InitCtu(ctu, ch)
  \/ Query
  \/ \E s \in Splits : SplitCurrArea(s)
  \/ NextPart
  \/ ExitCurrSplit

Spec == Init /\ [][Next]_vars

-----------------------------------------------------------------------------
TypeOK ==
  /\ stack \in Seq(Level) /\ Len(stack) > 0
  /\ curr \in Counters
  /\ qgPos \in [Qg -> Pos]
  /\ chType \in Channels
  /\ saved \in Seq(Counters)
  /\ Len(saved) = Len(stack) - 1

(* Counters while level i is the innermost one *)
CountersAt(i) == IF i = Len(stack) THEN curr ELSE saved[i]

(* What the counters of part idx of split s must be, given those of the split area *)
Descend(c, s, idx, implicit) ==
  LET outer == IF IsTt(s) /\ idx # 1 THEN 2 ELSE 1
      quad == s = "QUAD"
  IN [depth  |-> c.depth + 1,
      qt     |-> c.qt + (IF quad THEN 1 ELSE 0),
      bt     |-> IF quad THEN 0 ELSE c.bt + outer,
      mt     |-> IF quad THEN 0 ELSE c.mt + 1,
      subdiv |-> c.subdiv + (IF quad THEN 2 ELSE outer),
      impl   |-> c.impl + (IF implicit THEN 1 ELSE 0)]

(* The counters are a function of the path from the CTU to the current     *)
(* part, whatever splits were tried and abandoned before: splitCurrArea,   *)
(* nextPart and exitCurrSplit only ever add and subtract increments.       *)
BalancedAt(i) ==
  /\ stack[i].split \in Splits
  /\ stack[i].split = "QUAD" => CountersAt(i - 1).bt = 0 /\ CountersAt(i - 1).mt = 0
  /\ CountersAt(i) = Descend(CountersAt(i - 1), stack[i].split, stack[i].idx,
                             stack[i].split # "QUAD" /\ stack[i - 1].isImplicit)
Balanced == \A i \in 2..Len(stack) : BalancedAt(i)

(* The implicit split a level has cached is the one its present part and   *)
(* counters give: nextPart must drop it, exitCurrSplit relies on it.       *)
FreshAt(i) ==
  stack[i].checked =>
    /\ stack[i].implicitSplit = ImplicitSplitOf(PartOf(stack[i]), CountersAt(i), chType)
    /\ stack[i].isImplicit = (stack[i].implicitSplit # "DONT")
CacheFresh == \A i \in 1..Len(stack) : FreshAt(i)

(* The quantisation group starts at the innermost part whose level still   *)
(* opens one, so that the QP predictor is fetched at the right position    *)
(* after any number of abandoned splits.                                   *)
AnchoredAt(q, i) ==
  /\ stack[i].qg[q] /\ qgPos[q] = PosOf(PartOf(stack[i]))
  /\ \A j \in (i + 1)..Len(stack) : ~stack[j].qg[q]
QgAnchored ==
  \A q \in Qg : HasArea(Top) \/ ~Top.qg[q] => \E i \in 1..Len(stack) : AnchoredAt(q, i)

(* No CHECK of splitCurrArea or getCUSubPartitions can fire on a split     *)
(* canSplit allows: in particular the quad split that canSplit falls back  *)
(* on at the picture boundary is never needed below a binary split.        *)
ChecksHold ==
  OnArea => \A s \in LegalSplits(Top, curr, chType) \ {"DONT"} : SplitChecks(CurrArea, curr, s)

(* A coding unit (an area that need not be split) lies inside the picture. *)
LeafInPic ==
  OnArea /\ "DONT" \in LegalSplits(Top, curr, chType)
    => CurrArea.x + CurrArea.w <= PicW /\ CurrArea.y + CurrArea.h <= PicH

(* The multi-type tree never gets deeper than its limit plus the implicit  *)
(* splits on the path.                                                     *)
DepthBudget ==
  \A i \in 1..Len(stack) : CountersAt(i).mt <= MaxBtDepth[chType] + CountersAt(i).impl

Overlap(a, b) == /\ a.x < b.x + b.w /\ b.x < a.x + a.w
                 /\ a.y < b.y + b.h /\ b.y < a.y + a.h
(* The parts of a level tile the part of the parent level they split.      *)
PartsTile ==
  \A i \in 2..Len(stack) :
    LET p == stack[i].parts
        a == PartOf(stack[i - 1])
    IN /\ \A j \in 1..Len(p) : /\ a.x <= p[j].x /\ p[j].x + p[j].w <= a.x + a.w
                               /\ a.y <= p[j].y /\ p[j].y + p[j].h <= a.y + a.h
       /\ \A j, k \in 1..Len(p) : j # k => ~Overlap(p[j], p[k])
       /\ \A x \in {a.x, a.x + a.w - 1, a.x + a.w \div 2}, y \in {a.y, a.y + a.h - 1, a.y + a.h \div 2} :
            \E j \in 1..Len(p) : /\ p[j].x <= x /\ x < p[j].x + p[j].w
                                 /\ p[j].y <= y /\ y < p[j].y + p[j].h

NumParts(s) == IF s = "CTU" THEN 1 ELSE IF s = "QUAD" THEN 4 ELSE IF IsTt(s) THEN 3 ELSE 2

(* A level under the innermost one keeps the part and the implicit flag it was split with. *)
Suspended == \A i \in 1..(Len(stack) - 1) : stack[i].checked /\ HasArea(stack[i])
PartsShape == \A i \in 1..Len(stack) :
  /\ Len(stack[i].parts) = NumParts(stack[i].split)
  /\ stack[i].idx <= Len(stack[i].parts)
  /\ i = 1 => stack[i].split = "CTU" /\ HasArea(stack[i])
(* A quantisation group is never opened inside a level that opens none. *)
QgNested == \A q \in Qg :
  /\ stack[1].qg[q]
  /\ \A i \in 1..(Len(stack) - 1) : stack[i + 1].qg[q] => stack[i].qg[q]

(* The inductive invariant *)
IInv == /\ TypeOK /\ Suspended /\ PartsShape /\ Balanced /\ CacheFresh
        /\ DepthBudget /\ QgNested /\ QgAnchored

(* Area a lies at a multiple of its sides                                  *)
Aligned(a) == a.x % a.w = 0 /\ a.y % a.h = 0

(* What the areas of a level of split s keep to: the quad tree makes squares *)
(* in their grid; what sticks out of the picture lies in the grid of its   *)
(* own sides and, in the multi-type tree, can be split in two again        *)
AreaFits(a, s, ch) ==
  /\ a.w \in Powers /\ a.h \in Powers /\ a.w >= MinTb /\ a.h >= MinTb
  /\ a.x % MinTb = 0 /\ a.y % MinTb = 0
  /\ s \notin Mtt => a.w = a.h /\ Aligned(a)
  /\ s \in Mtt /\ DualTree => a.w <= DualTreeMax /\ a.h <= DualTreeMax
  /\ StartsInPic(a) /\ ~(BlIn(a) /\ TrIn(a)) =>
       /\ Aligned(a)
       /\ s \in Mtt => /\ a.w <= MaxBt[ch] /\ a.h <= MaxBt[ch]
                       /\ a.w <= MaxTb /\ a.h <= MaxTb

(* The areas of every level, and how they came about: each level is a legal *)
(* split of the part below it                                              *)
AreasFit == \A i \in 1..Len(stack), j \in 1..4 :
  j <= Len(stack[i].parts) => AreaFits(stack[i].parts[j], stack[i].split, chType)
LevelsLegal == \A i \in 2..Len(stack) :
  LET lv == stack[i - 1]
  IN /\ StartsInPic(PartOf(lv))
     /\ stack[i].split \in LegalSplits(lv, CountersAt(i - 1), chType)
     /\ stack[i].parts = SubAreas(PartOf(lv), stack[i].split)
AreaInv == CountersAt(1) = Zero /\ AreasFit /\ LevelsLegal

(* The levels PartitioningStack, a static_vector, has room for             *)
MaxCuDepth == 7
StackCapacity == 2 * MaxCuDepth + 1

(* The stack never outgrows its fixed capacity, although implicit splits   *)
(* extend the depth of the multi-type tree. (PartitionerProofs)            *)
StackFits == Len(stack) <= StackCapacity

(* Leaving a split, after its last part or before, brings back exactly the *)
(* counters it was entered with.                                           *)
ExitRestores ==
  [][Len(stack') < Len(stack) /\ Len(stack) > 1 => curr' = saved[Len(saved)]]_vars
=============================================================================
