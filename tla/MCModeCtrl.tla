----------------------------- MODULE MCModeCtrl -----------------------------
(* Instances of ModeCtrl: the coding units the partitioner reaches below a  *)
(* quad-tree node of the CTU, on a picture whose right and bottom borders   *)
(* cut the last CTUs.                                                       *)
EXTENDS ModeCtrl

CONSTANTS AllQtDepths   \* FALSE: minDepth is 0, as without FastLCTU

Both(l, c) == [ch \in {"LUMA", "CHROMA"} |-> IF ch = "LUMA" THEN l ELSE c]
Depths == Both(MaxBtDepth, MaxBtDepth)
Least == 16

(* The partitioner's rules, with the limits of encoder_intra_vtm.cfg except  *)
(* for the depth of the multi-type tree (2) and the luma quad tree (16)      *)
P == INSTANCE Partitioner WITH
  CtuSize <- 64, PicW <- 72, PicH <- 64, Channels <- {"LUMA", "CHROMA"}, DualTree <- TRUE,
  MaxBtDepth <- Depths, MinBt <- Both(4, 4), MaxBt <- Both(32, 64), MinTt <- Both(4, 4),
  MaxTt <- Both(32, 32), MinQt <- Both(Least, Least), MaxTb <- 64, DualTreeMax <- 64, MinTb <- 4,
  MinChromaWidth <- 4, MinChromaSize <- 16, QgSubdiv <- [q \in {"qp", "chromaQp"} |-> 0],
  stack <- <<>>, curr <- <<>>, qgPos <- <<>>, chType <- "LUMA", saved <- <<>>

(* The places <<level, counters>> reached from a place by one split *)
Below(pl, ch) ==
  LET lv == pl[1]
      c == pl[2]
  IN {<<[P!NewLevel(s, P!SubAreas(P!PartOf(lv), s), lv.qg) EXCEPT !.idx = i],
        P!Descend(c, s, i, s # "QUAD" /\ s = P!ImplicitOf(lv, c, ch))>> :
      s \in P!LegalSplits(lv, c, ch) \ {"DONT"}, i \in 0..2}

Inside(pl) == pl[1].idx < Len(pl[1].parts) /\ P!StartsInPic(P!PartOf(pl[1]))

RECURSIVE Places(_, _)
Places(ps, ch) ==
  LET next == {q \in UNION {Below(p, ch) : p \in ps} : Inside(q)}
  IN IF next = {} THEN ps ELSE ps \cup Places(next, ch)

NodeAt(pl, ch, minDepth) ==
  LET a == P!PartOf(pl[1])
      c == pl[2]
  IN [legal |-> P!LegalSplits(pl[1], c, ch), implicit |-> P!ImplicitOf(pl[1], c, ch),
      luma |-> ch = "LUMA", square |-> a.w = a.h, big |-> a.w > 64 \/ a.h > 64,
      small |-> a.w <= 32 /\ a.h <= 32, wide |-> a.w > 2 * Least,
      qt |-> c.qt, bt |-> c.bt, lastMt |-> c.mt + 1 = Depths[ch] + c.impl,
      minDepth |-> minDepth, maxDepth |-> 2]

Roots == {<<P!CtuStack(ctu)[1], P!Zero>> : ctu \in P!CtuAreas}
ReachableNodes ==
  {NodeAt(pl, ch, d) : pl \in Places(Roots, "LUMA"), ch \in {"LUMA"}, d \in IF AllQtDepths THEN 0..1 ELSE {0}}
    \cup {NodeAt(pl, "CHROMA", 0) : pl \in Places(Roots, "CHROMA")}

(* What canSplit, the policy, the quad-tree depths and the content-based rule say of a *)
(* unit; one unit of each kind is searched                                             *)
Kind(n) == <<n.legal, n.implicit, n.luma /\ n.small, n.wide, n.big, ForcedQt(n),
             n.maxDepth <= n.qt, n.bt > 1, n.square /\ n.bt = 0>>
OneOfEachKind ==
  LET all == ReachableNodes
  IN {CHOOSE n \in all : Kind(n) = k : k \in {Kind(n) : n \in all}}

(* Those that ContentBasedFastQtbt treats differently, with few classes *)
ContentNodes == {n \in OneOfEachKind : n.luma /\ n.small /\ Cardinality(n.legal) < 6}
=============================================================================
