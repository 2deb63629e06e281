------------------------------ MODULE ModeCtrl ------------------------------
(***************************************************************************)
(* The search of one coding unit: EncModeCtrlMTnoRQT builds a stack of test *)
(* modes (initCULevel), tryMode accepts or refuses the mode on top,        *)
(* EncCu::xCompressCU tests an accepted mode, useModeResult keeps the      *)
(* cheaper coding.  The result of coding the unit unsplit and of coding the *)
(* parts of a split is chosen freely: each part is the same search again.  *)
(*                                                                         *)
(* Scope: an intra slice, dual tree, one QP per unit; no IBC, palette, rate *)
(* control or fast delta QP.                                               *)
(***************************************************************************)
EXTENDS SplitClasses, Sequences

CONSTANTS
  Nodes,          \* the units searched: see Node
  MaxBtDepth,     \* PreCalcValues::getMaxBtDepth
  MaxCost,        \* bound on the costs told apart
  FastModels,     \* the learned models and thresholds are configured
  ContentBased,   \* ContentBasedFastQtbt
  PartMayFail     \* a part of a split may end without a coding

ASSUME BoundsAssumption ==
  /\ MaxBtDepth \in Nat /\ MaxCost \in Nat \ {0}
  /\ FastModels \in BOOLEAN /\ ContentBased \in BOOLEAN /\ PartMayFail \in BOOLEAN

Unsplit == {"RECO_CACHED", "INTRA"}
Modes == Splits \cup Unsplit \cup {"POST_DONT_SPLIT"}
NoCost == MaxCost + 1        \* MAX_DOUBLE
(* A coding of the unit: its cost, its outermost split, the binary depth of its *)
(* first and last units and whether the first one has a residual               *)
Coding == [cost : 1..NoCost, split : Classes, bt : Nat, lastBt : Nat, cbf : BOOLEAN]
None == [cost |-> NoCost, split |-> "DONT", bt |-> 0, lastBt |-> 0, cbf |-> FALSE]

(* What the search reads of the partitioner and the configuration *)
Node == [legal : SUBSET Classes,            \* canSplit
         implicit : Classes,                \* getImplicitSplit
         luma : BOOLEAN, square : BOOLEAN,
         big : BOOLEAN,                     \* a side is longer than 64
         small : BOOLEAN,                   \* no side is longer than 32
         wide : BOOLEAN,                    \* wider than twice the smallest quad-tree size
         qt : Nat, bt : Nat,                \* currQtDepth, currBtDepth
         lastMt : BOOLEAN,                  \* no multi-type split fits below the next one
         minDepth : Nat, maxDepth : Nat]    \* of ComprCUCtx

(* canSplit allows no split wherever getImplicitSplit demands none, only the demanded one  *)
(* or a quad split elsewhere; under a dual tree a side longer than 64 demands a quad split *)
ASSUME NodesAssumption ==
  \A n \in Nodes :
    /\ n \in Node /\ n.legal # {}
    /\ n.implicit = "DONT" => "DONT" \in n.legal /\ ~n.big
    /\ n.implicit # "DONT" => n.legal \subseteq {n.implicit, "QUAD"}

VARIABLES
  node,
  facts,    \* what the neighbours, the cache and the samples say: see Facts
  phase,    \* "init", "try", "test", "done", "abort"
  modes,    \* testModes: the next mode is the last one
  rejected, \* fastPartitionRejected
  did,      \* the DID_* features that are set
  tri,      \* the ternary splits whose DO_TRI* feature is set
  maxQtSub, \* MAX_QT_SUB_DEPTH
  splitCost,\* splitRdCostBest where it is read, "DONT" standing for CTU_LEVEL
  best,     \* bestCS and bestCU
  stored,   \* what POST_DONT_SPLIT stored in BestEncInfoCache
  tested    \* history: the modes tested

vars == <<node, facts, phase, modes, rejected, did, tri, maxQtSub, splitCost, best, stored, tested>>

(* qtFirst: the neighbours are quad-split deeper; reuse: BestEncInfoCache::isValid; *)
(* texture: the direction of the strong gradients, if any                          *)
Facts == [qtFirst : BOOLEAN, reuse : BOOLEAN, texture : {"none", "hor", "ver"}]

ClassOf(m) == IF m \in Splits THEN m ELSE "DONT"       \* getPartSplit
ForcedQt(n) == n.minDepth > n.qt /\ "QUAD" \in n.legal
Mode == modes[Len(modes)]
PoppedMutant == modes
Popped == SubSeq(modes, 1, Len(modes) - 1)

-----------------------------------------------------------------------------
(* xFastPartitionGetAllowedClasses: the units the policy decides *)
Eligible(n) ==
  /\ FastModels /\ n.luma /\ n.small
  /\ n.implicit = "DONT"
  /\ ~ForcedQt(n)

(* A quad split below the largest quad-tree depth is not a legal class *)
LegalClasses(n) == IF n.maxDepth <= n.qt THEN n.legal \ {"QUAD"} ELSE n.legal

QueueMutantPostFirst(n, f) ==
  LET If(c, m) == IF c THEN <<m>> ELSE <<>>
      IfLegal(s) == If(s \in n.legal, s)
  IN <<"POST_DONT_SPLIT">> \o If(~f.qtFirst, "QUAD") \o IfLegal("TRIV") \o IfLegal("TRIH")
     \o IfLegal("VERT") \o IfLegal("HORZ") \o If(f.qtFirst, "QUAD")
     \o If(f.reuse, "RECO_CACHED") \o <<"INTRA">>
QueueMutantNotCached(n, f) ==
  LET If(c, m) == IF c THEN <<m>> ELSE <<>>
      IfLegal(s) == If(s \in n.legal, s)
  IN If(~f.qtFirst, "QUAD") \o IfLegal("TRIV") \o IfLegal("TRIH") \o IfLegal("VERT")
     \o IfLegal("HORZ") \o If(f.qtFirst, "QUAD") \o <<"POST_DONT_SPLIT", "INTRA">>
(* initCULevel: the stack of modes, the last one is tried first *)
QueueMutant(n, f) ==
  LET If(c, m) == IF c THEN <<m>> ELSE <<>>
      IfLegal(s) == If(s \in n.legal, s)
  IN If(~f.qtFirst, "QUAD") \o IfLegal("VERT") \o IfLegal("HORZ") \o IfLegal("TRIV")
     \o IfLegal("TRIH") \o If(f.qtFirst, "QUAD") \o <<"POST_DONT_SPLIT">>
     \o If(f.reuse, "RECO_CACHED") \o <<"INTRA">>
Queue(n, f) ==
  LET If(c, m) == IF c THEN <<m>> ELSE <<>>
      IfLegal(s) == If(s \in n.legal, s)
  IN If(~f.qtFirst, "QUAD") \o IfLegal("TRIV") \o IfLegal("TRIH") \o IfLegal("VERT")
     \o IfLegal("HORZ") \o If(f.qtFirst, "QUAD") \o <<"POST_DONT_SPLIT">>
     \o If(f.reuse, "RECO_CACHED") \o <<"INTRA">>

DidAtStartMutantAll(n, rej) == n.legal \ rej
(* A binary split counts as done while it is legal and not rejected *)
DidAtStartMutant(n, rej) == n.legal \cap {"HORZ", "VERT"}
DidAtStart(n, rej) == (n.legal \cap {"HORZ", "VERT"}) \ rej

(* tryMode: the rules that hold before any mode-specific one, in their order; "ask" when *)
(* none applies                                                                          *)
MandatoryRule(m) ==
  IF node.implicit = "DONT" THEN "ask"
  ELSE IF m = "QUAD" THEN IF "QUAD" \in node.legal THEN "accept" ELSE "refuse"
  ELSE IF ClassOf(m) = node.implicit THEN "accept" ELSE "refuse"
PolicyRule(m) ==
  IF ~ForcedQt(node) /\ m # "POST_DONT_SPLIT" /\ ClassOf(m) \in rejected THEN "refuse" ELSE "ask"
ReuseRule(m) ==
  IF facts.reuse /\ m = "RECO_CACHED" THEN "accept"
  ELSE IF facts.reuse /\ m = "INTRA" THEN "refuse"
  ELSE "ask"
DepthRule(m) ==
  IF ForcedQt(node) THEN IF m = "QUAD" THEN "accept" ELSE "refuse"
  ELSE IF m = "QUAD" /\ node.maxDepth <= node.qt THEN "refuse"
  ELSE "ask"
Before(rule, others) == IF rule = "ask" THEN others ELSE rule
CommonRuleMutant(m) ==
  Before(MandatoryRule(m), Before(ReuseRule(m), Before(PolicyRule(m), DepthRule(m))))
CommonRule(m) ==
  Before(MandatoryRule(m), Before(PolicyRule(m), Before(ReuseRule(m), DepthRule(m))))

(* ContentBasedFastQtbt, with IntraPeriod 1 *)
ContentRefuses(s) ==
  /\ ContentBased
  /\ \/ /\ node.square /\ node.bt = 0
        /\ \/ facts.texture = "hor" /\ s \in {"HORZ", "TRIH"}
           \/ facts.texture = "ver" /\ s \in {"VERT", "TRIV"}
     \/ /\ node.luma /\ node.small /\ node.bt > 1
        /\ best # None /\ best.split = "DONT" /\ ~best.cbf

(* A quad split after both binary ones is skipped when the best coding is hardly split *)
QtPointless ==
  /\ ~facts.qtFirst /\ best # None /\ ~node.big
  /\ \/ best.bt = 0 /\ MaxBtDepth >= 3
     \/ best.bt = 1 /\ best.lastBt = 1 /\ MaxBtDepth >= 4
  /\ {"HORZ", "VERT"} \subseteq did

(* A ternary split is skipped after the binary split of its direction found no residual *)
Along(t) == IF t = "TRIH" THEN "HORZ" ELSE "VERT"
TriPointless(t) ==
  \/ Along(t) \in did /\ best # None /\ best.bt = node.bt /\ ~best.cbf
  \/ t \notin tri

(* The quad split was tested first and went deep: multi-type splits are skipped *)
QtWentDeep == facts.qtFirst /\ "QUAD" \in did /\ maxQtSub > node.qt + 1

(* xSkipTreeCandidate: a bad binary split makes the ternary one of its direction hopeless *)
Across(t) == IF t = "TRIH" THEN "VERT" ELSE "HORZ"
SkipTree(t) ==
  LET bt == splitCost[Along(t)]
  IN bt # NoCost /\ (bt > splitCost["DONT"] \/ bt > splitCost[Across(t)])

SplitRefusedMutant(s) ==
  \/ ContentRefuses(s)
  \/ s = "QUAD" /\ QtPointless
  \/ s # "QUAD" /\ QtWentDeep
  \/ s \in {"TRIH", "TRIV"} /\ (TriPointless(s) \/ SkipTree(s))
(* tryMode for a split that no common rule decides *)
SplitRefused(s) ==
  \/ s \notin node.legal
  \/ ContentRefuses(s)
  \/ s = "QUAD" /\ QtPointless
  \/ s # "QUAD" /\ QtWentDeep
  \/ s \in {"TRIH", "TRIV"} /\ (TriPointless(s) \/ SkipTree(s))

Accepted(m) ==
  \/ CommonRule(m) = "accept"
  \/ CommonRule(m) = "ask" /\ m \in Splits /\ ~SplitRefused(m)
  \/ CommonRule(m) = "ask" /\ m = "INTRA" /\ ~node.big

-----------------------------------------------------------------------------
Init ==
  /\ node \in Nodes
  /\ facts \in Facts
  /\ facts.qtFirst => node.wide
  /\ facts.reuse => "DONT" \in node.legal
  /\ ~ContentBased => facts.texture = "none"
  /\ phase = "init"
  /\ modes = <<>> /\ rejected = {} /\ did = {} /\ tri = {} /\ maxQtSub = 0
  /\ splitCost = [c \in {"DONT", "HORZ", "VERT"} |-> NoCost]
  /\ best = None /\ stored = None /\ tested = {}

(* initCULevel, up to the first tryMode *)
InitCULevel ==
  /\ phase = "init"
  /\ \E reached \in SUBSET Classes :
       rejected' = IF Eligible(node) THEN Rejected(LegalClasses(node), reached) ELSE {}
  /\ modes' = Queue(node, facts)
  /\ did' = DidAtStart(node, rejected')
  /\ tri' = {"TRIH", "TRIV"}
  /\ phase' = "try"
  /\ UNCHANGED <<node, facts, maxQtSub, splitCost, best, stored, tested>>

(* tryMode accepts the mode on top *)
Accept ==
  /\ phase = "try" /\ modes # <<>> /\ Accepted(Mode)
  /\ did' = IF Mode = "QUAD" /\ CommonRule(Mode) = "ask" THEN did \cup {"QUAD"} ELSE did
  /\ phase' = "test"
  /\ UNCHANGED <<node, facts, modes, rejected, tri, maxQtSub, splitCost, best, stored, tested>>

(* tryMode refuses it and it is popped.  A binary split that is not legal, or given up  *)
(* after a deep quad split, loses its DID mark.  POST_DONT_SPLIT saves an unsplit best. *)
Refuse ==
  LET asked == CommonRule(Mode) = "ask"
      unmark == asked /\ Mode \in Splits /\
                (Mode \notin node.legal \/ (Mode # "QUAD" /\ QtWentDeep /\ ~ContentRefuses(Mode)))
  IN /\ phase = "try" /\ modes # <<>> /\ ~Accepted(Mode)
     /\ did' = IF unmark THEN did \ {Mode} ELSE did
     /\ stored' = IF /\ asked /\ Mode = "POST_DONT_SPLIT"
                     /\ best # None /\ best.split = "DONT" THEN best ELSE stored
     /\ modes' = Popped
     /\ UNCHANGED <<node, facts, phase, rejected, tri, maxQtSub, splitCost, best, tested>>

(* nextMode found no further mode *)
Finish ==
  /\ phase = "try" /\ modes = <<>>
  /\ phase' = "done"
  /\ UNCHANGED <<node, facts, modes, rejected, did, tri, maxQtSub, splitCost, best, stored, tested>>

(* xCheckBestMode and useModeResult: the cheaper coding is kept, the first of equal ones *)
CheaperMutant(a, b) == IF a.cost <= b.cost THEN b ELSE a
Cheaper(a, b) == IF b.cost < a.cost THEN b ELSE a

Tested == /\ tested' = tested \cup {Mode}
          /\ modes' = Popped
          /\ UNCHANGED <<node, facts, rejected, did, stored>>

(* xCheckRDCostIntra, xReuseCachedResult *)
TestUnsplit ==
  /\ phase = "test" /\ Mode \in Unsplit
  /\ \E cost \in 1..MaxCost, cbf \in BOOLEAN :
       best' = Cheaper(best, [cost |-> cost, split |-> "DONT", bt |-> node.bt,
                              lastBt |-> node.bt, cbf |-> cbf])
  /\ splitCost' = [splitCost EXCEPT !["DONT"] = best'.cost]
  /\ phase' = "try"
  /\ Tested
  /\ UNCHANGED <<tri, maxQtSub>>

(* useModeResult: a binary split of more than two units, neither the first nor the last *)
(* one shorter than half the unit, clears DO_TRI* of its direction                      *)
TriLeft(even) == {t \in tri : ~(Along(t) = Mode /\ even /\ ~node.lastMt)}

(* xCheckModeSplit gives up: the split alone is dearer than the best coding, or a part  *)
(* has no coding, which must not happen to a part of a quad split.  The units of the    *)
(* parts before it are still judged.                                                    *)
GiveUpSplit ==
  /\ phase = "test" /\ Mode \in Splits
  /\ \/ best # None /\ phase' = "try" /\ tri' = tri
     \/ /\ PartMayFail /\ phase' = IF Mode = "QUAD" THEN "abort" ELSE "try"
        /\ \E even \in BOOLEAN : tri' = TriLeft(even)
  /\ Tested
  /\ UNCHANGED <<maxQtSub, splitCost, best>>

(* The least binary depth of a part of split s *)
PartBt(s) == IF s = "QUAD" THEN 0 ELSE IF s \in {"HORZ", "VERT"} THEN node.bt + 1 ELSE node.bt + 2

(* xCheckModeSplit codes every part.  deep: some part is quad-split again               *)
TestSplit ==
  /\ phase = "test" /\ Mode \in Splits
  /\ \E cost \in 1..MaxCost, more, lastMore \in 0..1, cbf, deep, even \in BOOLEAN :
       /\ best' = Cheaper(best, [cost |-> cost, split |-> Mode, bt |-> PartBt(Mode) + more,
                                 lastBt |-> PartBt(Mode) + lastMore, cbf |-> cbf])
       /\ splitCost' = [c \in DOMAIN splitCost |-> IF c = Mode THEN cost ELSE splitCost[c]]
       /\ maxQtSub' = IF Mode # "QUAD" THEN maxQtSub
                      ELSE IF deep THEN node.qt + 2 ELSE node.qt + 1
       /\ tri' = TriLeft(even)
  /\ phase' = "try"
  /\ Tested

Next == InitCULevel \/ Accept \/ Refuse \/ Finish \/ TestUnsplit \/ GiveUpSplit \/ TestSplit

(* One thread runs the search to its end *)
Spec == Init /\ [][Next]_vars /\ WF_vars(Next)
-----------------------------------------------------------------------------
TypeOK ==
  /\ node \in Node /\ facts \in Facts
  /\ phase \in {"init", "try", "test", "done", "abort"}
  /\ modes \in Seq(Modes) /\ rejected \subseteq Classes /\ tested \subseteq Modes
  /\ did \subseteq {"QUAD", "HORZ", "VERT"} /\ tri \subseteq {"TRIH", "TRIV"}
  /\ maxQtSub \in Nat
  /\ splitCost \in [{"DONT", "HORZ", "VERT"} -> 1..NoCost]
  /\ {best, stored} \subseteq Coding

(* The search of a unit ends with a coding, whatever the policy rejected   *)
(* and whichever heuristics of tryMode applied, as long as the parts of    *)
(* its splits do: the caller aborts on a part of a quad split without one. *)
Encoded == phase = "done" => best # None

(* The same for the parts of a quad split: xCheckModeSplit CHECKs that the  *)
(* search of such a part never ends without a coding.                      *)
QuadPartCoded == phase = "done" /\ node.bt = 0 /\ node.qt > 0 => best # None

(* A search can only end without a coding when the unit has to be split or *)
(* the policy rejected leaving it unsplit, even if every part of every     *)
(* split fails: the unsplit modes do not depend on the other heuristics.   *)
NoSplitSuffices ==
  phase = "done" /\ best = None =>
    "DONT" \in rejected \/ "DONT" \notin node.legal \/ ForcedQt(node)

(* No rejected class is ever tested, a cached unsplit result included.     *)
PolicyKept == \A m \in tested : ClassOf(m) \notin rejected

(* The coding kept uses a split (or none) that canSplit allows, and does   *)
(* not go below the largest quad-tree depth unless it has to.              *)
BestLegal ==
  best # None => /\ best.split \in node.legal
                 /\ best.split = "QUAD" /\ node.implicit = "DONT" /\ ~ForcedQt(node)
                      => node.qt < node.maxDepth

(* A DID mark left on a binary split whose turn is over means that it was  *)
(* tested: the marks decide whether the quad and ternary splits are skipped. *)
DidHonest ==
  phase # "init" =>
    \A s \in did \cap {"HORZ", "VERT"} :
      s \in tested \/ \E i \in 1..Len(modes) : modes[i] = s

(* The coding kept is no dearer than any coding whose cost was recorded.   *)
BestIsLeast == \A c \in DOMAIN splitCost : best.cost <= splitCost[c]

(* Once a split is tested, the intra coding of the unit, if it was tested, *)
(* is in the cache, at the cost the ternary rule compares with.            *)
StoredFirst ==
  tested \cap Splits # {} /\ "INTRA" \in tested
    => stored # None /\ stored.split = "DONT" /\ stored.cost = splitCost["DONT"]

(* A ternary split is tested only when the turn of both binary splits is   *)
(* over: its skip rules read their costs and marks.                        *)
BinaryFirst ==
  tested \cap {"TRIH", "TRIV"} # {} =>
    \A i \in 1..Len(modes) : modes[i] \notin {"HORZ", "VERT"}

(* The inductive invariant: what is queued is legal, the policy only rejects where nothing *)
(* is mandatory, and a mode under test may be coded.                                        *)
Fit(n) == {m \in Modes : m \in Splits \ {"QUAD"} => m \in n.legal}
QueueLegal == modes \in Seq(Fit(node))
PolicyScope == rejected # {} => node.implicit = "DONT" /\ ~ForcedQt(node)
Admissible(m) ==
  /\ m # "POST_DONT_SPLIT" /\ ClassOf(m) \notin rejected /\ ClassOf(m) \in node.legal
  /\ m = "QUAD" /\ node.implicit = "DONT" /\ ~ForcedQt(node) => node.qt < node.maxDepth
TestAdmissible == phase = "test" => modes # <<>> /\ Admissible(Mode)
IInv == /\ TypeOK /\ PolicyKept /\ BestLegal /\ BestIsLeast
        /\ QueueLegal /\ PolicyScope /\ TestAdmissible
        /\ node.implicit = "DONT" => "DONT" \in node.legal
        /\ phase = "init" => tested = {} /\ rejected = {} /\ best = None
        /\ node.legal # {}

(* The order of the queue, as an invariant: each mode has its turn, counted from the end  *)
(* of the search, and what is left in the queue comes after all that was tested. An        *)
(* unsplit mode has its turn before POST_DONT_SPLIT, which stores its coding.             *)
Turn(f, m) == CASE m = "INTRA" -> 8 [] m = "RECO_CACHED" -> 7 [] m = "POST_DONT_SPLIT" -> 6
                [] m = "HORZ" -> 4 [] m = "VERT" -> 3 [] m = "TRIH" -> 2 [] m = "TRIV" -> 1
                [] m = "QUAD" -> IF f.qtFirst THEN 5 ELSE 0
InTurn(f, q) == \A i, j \in 1..Len(q) : i < j => Turn(f, q[i]) < Turn(f, q[j])
StoresAfter(q) ==
  \A i \in 1..Len(q) : q[i] \in Unsplit => \E j \in 1..(i - 1) : q[j] = "POST_DONT_SPLIT"
Holds(q, m) == \E i \in 1..Len(q) : q[i] = m
TestedBefore == \A m \in tested, i \in 1..Len(modes) : Turn(facts, modes[i]) < Turn(facts, m)
IntraAsked ==
  "INTRA" \in tested \/ (phase = "test" /\ Mode = "INTRA")
    => node.implicit = "DONT" /\ ~ForcedQt(node)
UnsplitKept ==
  /\ tested \cap Splits = {} => best.split = "DONT"
  /\ "INTRA" \in tested /\ tested \cap Splits = {}
       => best # None /\ splitCost["DONT"] = best.cost
  /\ "INTRA" \in tested /\ ~Holds(modes, "POST_DONT_SPLIT")
       => stored # None /\ stored.split = "DONT" /\ stored.cost = splitCost["DONT"]
OrderInv ==
  /\ InTurn(facts, modes) /\ StoresAfter(modes) /\ TestedBefore /\ IntraAsked /\ UnsplitKept
  /\ phase = "init" => tested = {}

(* While there is no coding, the queue holds a mode that tryMode accepts: for any unit that *)
(* may stay unsplit an unsplit one, and without ContentBasedFastQtbt one for every unit,    *)
(* since all other heuristics compare with a coding.                                        *)
Searching == phase \notin {"init", "abort"}
Untouched == tri = {"TRIH", "TRIV"} /\ \A c \in DOMAIN splitCost : splitCost[c] = NoCost
StaysUnsplit == "DONT" \in node.legal \ rejected /\ ~ForcedQt(node)
UnsplitWaits ==
  Searching /\ best = None /\ StaysUnsplit =>
    \E i \in 1..Len(modes) : modes[i] \in Unsplit /\ Accepted(modes[i])
Certain(m) ==
  \/ CommonRule(m) = "accept"
  \/ CommonRule(m) = "ask" /\ (m \in node.legal \cap Splits \/ (m = "INTRA" /\ ~node.big))
CodingWaits ==
  Searching /\ best = None =>
    /\ Untouched
    /\ phase # "test" => "QUAD" \notin did /\ \E i \in 1..Len(modes) : Certain(modes[i])
WaitInv ==
  /\ node \in Nodes /\ UnsplitWaits
  /\ phase = "init" => best = None /\ \A c \in DOMAIN splitCost : splitCost[c] = NoCost
  /\ phase = "done" => modes = <<>>

(* The mark of a split that the policy rejects is never set. *)
MarksInv == DidHonest /\ (phase # "init" => did \cap {"HORZ", "VERT"} \cap rejected = {})

(* The queue, the rules and the marks implement what the search promises   *)
(* its caller: a legal class is always left after the policy, a coding is   *)
(* only replaced by a cheaper one of a class that is left, and the result  *)
(* stays once the search is over.                                          *)
Promise == INSTANCE UnitSearch WITH
  allowed <- node.legal \ rejected,
  best <- [cost |-> best.cost, split |-> best.split],
  over <- phase \in {"done", "abort"}
ImplementsSearch == Promise!Spec

(* The search of a unit ends, with a coding or by the CHECK.               *)
Terminates == <>(phase \in {"done", "abort"})
=============================================================================
