--------------------------- MODULE FastPartition ---------------------------
(***************************************************************************)
(* The predictions of the learned policy: EncCu::compressCtu has the Swin  *)
(* network describe the 32x32 luma blocks of each CTU of an intra slice,   *)
(* and keeps the descriptions in a cache of the encoder; while the         *)
(* partitioner walks the CTU, EncModeCtrl asks a classifier for the        *)
(* probabilities of a unit, from the part of one block's description that   *)
(* the unit covers.  The networks are external: a description is the       *)
(* picture and the position its samples come from.                         *)
(*                                                                         *)
(* The partitioner's variables and steps are those of Partitioner.  CTUs   *)
(* of inter slices are compressed in one step: the policy is not asked.     *)
(***************************************************************************)
EXTENDS Partitioner, FiniteSets

CONSTANTS
  HaveModels,       \* both networks are loaded
  ThresholdSizes,   \* the <<width, height>> that FastPartitionThBySize lists
  PreparedCtu,      \* the CTU side the networks were made for, 128
  BlockSize,        \* 32
  GridUnit,         \* samples per cell of a description, 4
  NumPics           \* bound on the pictures

ASSUME PredictionAssumption ==
  /\ "LUMA" \in Channels
  /\ HaveModels \in BOOLEAN
  /\ PreparedCtu \in Nat \ {0} /\ BlockSize = 32 /\ GridUnit = 4
  /\ PreparedCtu % BlockSize = 0

VARIABLES
  pic,     \* the picture being compressed
  intra,   \* Slice::isIntra
  cache    \* m_fastPartitionLuma32CtuCache

fpVars == <<stack, curr, qgPos, chType, saved, pic, intra, cache>>

PerSide == PreparedCtu \div BlockSize
Blocks == (0..(PerSide - 1)) \X (0..(PerSide - 1))
Place == [pic : Nat, x : Nat, y : Nat]
Gridmap == [valid : BOOLEAN, x : Nat, y : Nat, of : Place]
Cache == [valid : BOOLEAN, maps : [Blocks -> Gridmap]]

NoMap == [valid |-> FALSE, x |-> 0, y |-> 0, of |-> [pic |-> 0, x |-> 0, y |-> 0]]
NewCache == [valid |-> FALSE, maps |-> [b \in Blocks |-> NoMap]]

(* FastPartitionLuma32CtuCache::reset *)
Reset(c) ==
  [valid |-> FALSE,
   maps |-> [b \in Blocks |-> [valid |-> FALSE, x |-> c.maps[b].x, y |-> c.maps[b].y,
                               of |-> c.maps[b].of]]]

(* The description of block b of a CTU of picture p; it is dropped when no sample of the *)
(* block is in the picture                                                               *)
MapOfMutant(ctu, b, p) ==
  LET x == ctu.x + BlockSize * b[1]
      y == ctu.y + BlockSize * b[2]
  IN [valid |-> InPic(x + BlockSize - 1, y + BlockSize - 1), x |-> x, y |-> y,
      of |-> [pic |-> p, x |-> x, y |-> y]]
MapOf(ctu, b, p) ==
  LET x == ctu.x + BlockSize * b[1]
      y == ctu.y + BlockSize * b[2]
  IN [valid |-> InPic(x, y), x |-> x, y |-> y, of |-> [pic |-> p, x |-> x, y |-> y]]

(* xFastPartitionPrepareLuma32Ctu *)
PrepareMutant(c, ctu, p, isIntra) ==
  LET maps == [b \in Blocks |-> MapOf(ctu, b, p)]
  IN IF c.valid THEN c
     ELSE IF HaveModels /\ isIntra /\ ctu.w = PreparedCtu /\ ctu.h = PreparedCtu
     THEN [valid |-> \E b \in Blocks : maps[b].valid, maps |-> maps]
     ELSE Reset(c)
Prepare(c, ctu, p, isIntra) ==
  LET maps == [b \in Blocks |-> MapOf(ctu, b, p)]
  IN IF HaveModels /\ isIntra /\ ctu.w = PreparedCtu /\ ctu.h = PreparedCtu
     THEN [valid |-> \E b \in Blocks : maps[b].valid, maps |-> maps]
     ELSE Reset(c)

(* inferCu: the blocks whose description covers area a.  Blocks are disjoint, so the first *)
(* one found is the only one.                                                              *)
CoversMutant(m, a) ==
  m.valid /\ a.x >= m.x /\ a.y >= m.y /\ a.x < m.x + BlockSize /\ a.y < m.y + BlockSize
Covers(m, a) ==
  m.valid /\ a.x >= m.x /\ a.y >= m.y
  /\ a.x + a.w <= m.x + BlockSize /\ a.y + a.h <= m.y + BlockSize
CoveringMaps(c, a) == {c.maps[b] : b \in {d \in Blocks : Covers(c.maps[d], a)}}

(* The cells of description m handed to the classifier *)
RoiMutant(m, a) ==
  [x |-> (a.x \div GridUnit) % (PreparedCtu \div GridUnit),
   y |-> (a.y \div GridUnit) % (PreparedCtu \div GridUnit),
   w |-> a.w \div GridUnit, h |-> a.h \div GridUnit]
Roi(m, a) == [x |-> (a.x - m.x) \div GridUnit, y |-> (a.y - m.y) \div GridUnit,
              w |-> a.w \div GridUnit, h |-> a.h \div GridUnit]

(* Heights and widths, in cells, of the classifiers that are loaded *)
ShapesMutant ==
  {<<8, 8>>, <<8, 4>>, <<4, 8>>, <<8, 2>>, <<2, 8>>, <<8, 1>>, <<4, 2>>, <<2, 4>>,
   <<4, 1>>, <<1, 4>>, <<4, 4>>, <<2, 2>>, <<2, 1>>, <<1, 2>>}
Shapes ==
  {<<8, 8>>, <<8, 4>>, <<4, 8>>, <<8, 2>>, <<2, 8>>, <<8, 1>>, <<1, 8>>, <<4, 2>>, <<2, 4>>,
   <<4, 1>>, <<1, 4>>, <<4, 4>>, <<2, 2>>, <<2, 1>>, <<1, 2>>}

(* xFastPartitionGetAllowedClasses up to inferCu: the policy is asked about the current   *)
(* unit.  The quad-tree depths of ComprCUCtx, left out here, can only ask it less often.   *)
Asked ==
  LET a == CurrArea
      legal == LegalSplits(Top, curr, chType)
  IN /\ OnArea
     /\ intra /\ chType = "LUMA" /\ cache.valid /\ HaveModels
     /\ ~(a.w = PreparedCtu /\ a.h = PreparedCtu)
     /\ ImplicitOf(Top, curr, chType) = "DONT"
     /\ a.x + a.w <= PicW /\ a.y + a.h <= PicH
     /\ a.w \in 4..BlockSize /\ a.h \in 4..BlockSize
     /\ <<a.w, a.h>> \in ThresholdSizes
     /\ Cardinality(legal) > 1

-----------------------------------------------------------------------------
Ctu == stack[1].parts[1]
MoreInRow == Ctu.x + CtuSize < PicW
MoreRows == Ctu.y + CtuSize < PicH
NextInPicMutant == CtuArea(Ctu.x \div CtuSize + 1, Ctu.y \div CtuSize)
NextInPic ==
  IF MoreInRow THEN CtuArea(Ctu.x \div CtuSize + 1, Ctu.y \div CtuSize)
               ELSE CtuArea(0, Ctu.y \div CtuSize + 1)

(* The channel whose search is the last one of a CTU *)
LastChannel == IF DualTree /\ intra /\ "CHROMA" \in Channels THEN "CHROMA" ELSE "LUMA"
SearchOver == Len(stack) = 1 /\ chType = LastChannel

FpInit ==
  /\ Start(CtuArea(0, 0), "LUMA")
  /\ pic = 1 /\ intra \in BOOLEAN
  /\ cache = Prepare(NewCache, CtuArea(0, 0), pic, intra)

(* compressCtu on the next CTU of the picture *)
CompressCtu ==
  /\ SearchOver /\ (MoreInRow \/ MoreRows)
  /\ InitCtu(NextInPic, "LUMA")
  /\ cache' = Prepare(cache, NextInPic, pic, intra)
  /\ UNCHANGED <<pic, intra>>

(* ... and on the first CTU of the next picture *)
CompressPic ==
  /\ SearchOver /\ ~MoreInRow /\ ~MoreRows /\ pic < NumPics
  /\ InitCtu(CtuArea(0, 0), "LUMA")
  /\ pic' = pic + 1 /\ intra' \in BOOLEAN
  /\ cache' = Prepare(cache, CtuArea(0, 0), pic', intra')

(* The chroma pass of a dual tree: the cache stays *)
CompressChroma ==
  /\ Len(stack) = 1 /\ chType = "LUMA" /\ LastChannel = "CHROMA"
  /\ InitCtu(Ctu, "CHROMA")
  /\ UNCHANGED <<pic, intra, cache>>

Walk ==
  /\ intra
  /\ Query \/ (\E s \in Splits : SplitCurrArea(s)) \/ NextPart \/ ExitCurrSplit
  /\ UNCHANGED <<pic, intra, cache>>

FpNext == CompressCtu \/ CompressPic \/ CompressChroma \/ Walk
FpSpec == FpInit /\ [][FpNext]_fpVars

-----------------------------------------------------------------------------
FpTypeOK == pic \in Nat /\ intra \in BOOLEAN /\ cache \in Cache

(* Every valid description is that of its block of the present CTU in the   *)
(* present picture, and there is none in an inter slice: those of earlier  *)
(* CTUs and pictures are gone before the first unit is decided.            *)
MapsCurrent ==
  \A b \in Blocks :
    LET m == cache.maps[b]
    IN m.valid => /\ intra
                  /\ m.of = [pic |-> pic, x |-> m.x, y |-> m.y]
                  /\ m.x = Ctu.x + BlockSize * b[1] /\ m.y = Ctu.y + BlockSize * b[2]

(* The cells given to the classifier describe exactly the unit: of this    *)
(* picture, at its place, within one block's grid.                         *)
RoiIsUnit ==
  Asked => \A m \in CoveringMaps(cache, CurrArea) :
    LET a == CurrArea
        r == Roi(m, a)
        cells == BlockSize \div GridUnit
    IN /\ m.of.pic = pic
       /\ m.of.x + GridUnit * r.x = a.x /\ GridUnit * r.w = a.w
       /\ m.of.y + GridUnit * r.y = a.y /\ GridUnit * r.h = a.h
       /\ r.x + r.w <= cells /\ r.y + r.h <= cells

(* With limits that keep units of at most 32x32 inside the quad tree's     *)
(* 32x32 blocks, the policy never falls back on native search for lack of  *)
(* a description, at the borders of the picture included.                  *)
AlwaysCovered == Asked => CoveringMaps(cache, CurrArea) # {}

(* A classifier is loaded for every shape the partitioner can ask about:   *)
(* its lookup throws in the middle of a CTU otherwise.  A unit of one cell *)
(* needs none.                                                             *)
BranchLoaded ==
  Asked /\ CoveringMaps(cache, CurrArea) # {} =>
    LET a == CurrArea
    IN <<a.h \div GridUnit, a.w \div GridUnit>> \in Shapes \cup {<<1, 1>>}

(* The inductive invariant: the partitioner's, and the CTU walked is one of the picture's *)
CtuInPic == Ctu \in CtuAreas
FpInv == IInv /\ FpTypeOK /\ CtuInPic /\ MapsCurrent

(* The walk over CTUs, channels and pictures only takes steps of the       *)
(* partitioner, so that what holds of it alone holds here.                 *)
WalksPartitioner == Spec
=============================================================================
