---------------------------- MODULE ModeCtrlProofs ----------------------------
EXTENDS ModeCtrl, FiniteSetTheorems, TLAPS

(* A cost is a number. *)
LEMMA CostType ==
  /\ NoCost \in Nat /\ 1..MaxCost \subseteq 1..NoCost /\ NoCost \in 1..NoCost
  /\ 1..NoCost \subseteq Nat
  BY BoundsAssumption DEF NoCost

(* The classes are no split and the five splits. *)
LEMMA ClassType ==
  ASSUME NEW m \in Modes
  PROVE  ClassOf(m) \in Classes /\ (m \in Splits => ClassOf(m) = m)
         /\ (m \in Unsplit => ClassOf(m) = "DONT" /\ m \notin Splits)
  BY DEF ClassOf, Classes, Modes, Unsplit, Splits

(* A rejection is a set of classes. *)
LEMMA RejectedType ==
  ASSUME NEW legal, NEW reached
  PROVE  Rejected(legal, reached) \subseteq Classes
  BY DEF Rejected

(* initCULevel queues only modes that fit the unit. *)
LEMMA QueueFits ==
  ASSUME NEW n, NEW f
  PROVE  Queue(n, f) \in Seq(Fit(n))
<1> DEFINE If(c, m) == IF c THEN <<m>> ELSE <<>>
           IfLegal(s) == If(s \in n.legal, s)
<1>1. \A c : /\ If(c, "QUAD") \in Seq(Fit(n))
             /\ If(c, "RECO_CACHED") \in Seq(Fit(n))
  <2>1. {"QUAD", "RECO_CACHED"} \subseteq Fit(n)
    BY DEF Fit, Modes, Splits, Unsplit
  <2> QED BY <2>1
<1>2. <<"INTRA">> \in Seq(Fit(n)) /\ <<"POST_DONT_SPLIT">> \in Seq(Fit(n))
  <2>1. {"INTRA", "POST_DONT_SPLIT"} \subseteq Fit(n)
    BY DEF Fit, Modes, Splits, Unsplit
  <2> QED BY <2>1
<1>3. \A s \in Splits : IfLegal(s) \in Seq(Fit(n))
  <2>1. \A s \in Splits : s \in n.legal => s \in Fit(n)
    BY DEF Fit, Modes
  <2> QED BY <2>1
<1>4. /\ IfLegal("TRIV") \in Seq(Fit(n)) /\ IfLegal("TRIH") \in Seq(Fit(n))
      /\ IfLegal("VERT") \in Seq(Fit(n)) /\ IfLegal("HORZ") \in Seq(Fit(n))
  BY <1>3 DEF Splits
<1>5. Queue(n, f) = If(~f.qtFirst, "QUAD") \o IfLegal("TRIV") \o IfLegal("TRIH")
                    \o IfLegal("VERT") \o IfLegal("HORZ") \o If(f.qtFirst, "QUAD")
                    \o <<"POST_DONT_SPLIT">> \o If(f.reuse, "RECO_CACHED") \o <<"INTRA">>
  BY DEF Queue
<1>6. \A p, q \in Seq(Fit(n)) : p \o q \in Seq(Fit(n))
  OBVIOUS
<1> HIDE DEF If, IfLegal
<1> DEFINE q1 == If(~f.qtFirst, "QUAD") \o IfLegal("TRIV")
           q2 == q1 \o IfLegal("TRIH")
           q3 == q2 \o IfLegal("VERT")
           q4 == q3 \o IfLegal("HORZ")
           q5 == q4 \o If(f.qtFirst, "QUAD")
           q6 == q5 \o <<"POST_DONT_SPLIT">>
           q7 == q6 \o If(f.reuse, "RECO_CACHED")
<1>7. q1 \in Seq(Fit(n))
  BY <1>1, <1>4, <1>6
<1> HIDE DEF q1
<1>8. q2 \in Seq(Fit(n))
  BY <1>4, <1>6, <1>7
<1> HIDE DEF q2
<1>9. q3 \in Seq(Fit(n))
  BY <1>4, <1>6, <1>8
<1> HIDE DEF q3
<1>10. q4 \in Seq(Fit(n))
  BY <1>4, <1>6, <1>9
<1> HIDE DEF q4
<1>11. q5 \in Seq(Fit(n))
  BY <1>1, <1>6, <1>10
<1> HIDE DEF q5
<1>12. q6 \in Seq(Fit(n))
  BY <1>2, <1>6, <1>11
<1> HIDE DEF q6
<1>13. q7 \in Seq(Fit(n))
  BY <1>1, <1>6, <1>12
<1> HIDE DEF q7
<1>14. q7 \o <<"INTRA">> \in Seq(Fit(n))
  BY <1>2, <1>6, <1>13
<1> QED BY <1>5, <1>14 DEF q1, q2, q3, q4, q5, q6, q7

(* The queue fits the unit after its last mode is popped. *)
LEMMA PoppedFits ==
  ASSUME NEW S, modes \in Seq(S), modes # <<>>
  PROVE  Popped \in Seq(S) /\ Mode \in S
  BY DEF Popped, Mode

(* A mode that fits is a mode. *)
LEMMA FitModes == Seq(Fit(node)) \subseteq Seq(Modes)
  <1>1. Fit(node) \subseteq Modes
    BY DEF Fit
  <1> QED BY <1>1

(* The cheaper of two codings is one of them and no dearer than either. *)
LEMMA CheaperLeast ==
  ASSUME NEW a \in Coding, NEW b \in Coding
  PROVE  /\ Cheaper(a, b) \in {a, b} /\ Cheaper(a, b) \in Coding
         /\ Cheaper(a, b).cost <= a.cost /\ Cheaper(a, b).cost <= b.cost
  <1>1. a.cost \in Nat /\ b.cost \in Nat
    BY CostType DEF Coding
  <1> QED BY <1>1 DEF Cheaper

(* tryMode accepts only modes that may be coded. *)
LEMMA AcceptedAdmissible ==
  ASSUME IInv, NEW m \in Fit(node), Accepted(m)
  PROVE  Admissible(m)
<1>1. m \in Modes /\ (m \in Splits \ {"QUAD"} => m \in node.legal)
  BY DEF Fit
<1>2. /\ rejected # {} => node.implicit = "DONT" /\ ~ForcedQt(node)
      /\ node.implicit = "DONT" => "DONT" \in node.legal
      /\ node.qt \in Nat /\ node.maxDepth \in Nat
  BY DEF IInv, PolicyScope, TypeOK, Node
<1>3. CASE node.implicit # "DONT"
  <2>1. CommonRule(m) = MandatoryRule(m) /\ MandatoryRule(m) \in {"accept", "refuse"}
    BY <1>3 DEF CommonRule, MandatoryRule, Before
  <2>2. MandatoryRule(m) = "accept"
    BY <2>1 DEF Accepted
  <2>3. m \in Splits /\ m \in node.legal
    BY <1>1, <1>3, <2>2 DEF MandatoryRule, ClassOf, Splits
  <2>4. m # "POST_DONT_SPLIT" /\ ClassOf(m) = m
    BY <2>3 DEF ClassOf, Splits
  <2> QED BY <1>2, <1>3, <2>3, <2>4 DEF Admissible
<1>4. CASE node.implicit = "DONT" /\ ForcedQt(node)
  <2>1. rejected = {}
    BY <1>2, <1>4
  <2>2. MandatoryRule(m) = "ask" /\ PolicyRule(m) = "ask"
    BY <1>4 DEF MandatoryRule, PolicyRule
  <2>3. CASE facts.reuse /\ m = "RECO_CACHED"
    <3>1. ClassOf(m) = "DONT"
      BY <2>3 DEF ClassOf, Splits
    <3> QED BY <1>2, <1>4, <2>1, <2>3, <3>1 DEF Admissible
  <2>4. CASE ~(facts.reuse /\ m = "RECO_CACHED")
    <3>1. CommonRule(m) \in {"accept", "refuse"}
      BY <1>4, <2>2, <2>4 DEF CommonRule, Before, ReuseRule, DepthRule
    <3>2. CommonRule(m) = "accept"
      BY <3>1 DEF Accepted
    <3>3. m = "QUAD"
      BY <1>4, <2>2, <2>4, <3>2 DEF CommonRule, Before, ReuseRule, DepthRule
    <3>4. "QUAD" \in node.legal /\ ClassOf(m) = "QUAD"
      BY <1>4, <3>3 DEF ForcedQt, ClassOf, Splits
    <3> QED BY <1>4, <2>1, <3>3, <3>4 DEF Admissible
  <2> QED BY <2>3, <2>4
<1>5. CASE node.implicit = "DONT" /\ ~ForcedQt(node)
  <2>1. MandatoryRule(m) = "ask"
    BY <1>5 DEF MandatoryRule
  <2>2. PolicyRule(m) = "ask"
    BY <2>1 DEF Accepted, CommonRule, Before, PolicyRule
  <2>3. m # "POST_DONT_SPLIT"
    BY <1>5, <2>1, <2>2 DEF Accepted, CommonRule, Before, ReuseRule, DepthRule, Splits
  <2>4. ClassOf(m) \notin rejected
    BY <1>5, <2>2, <2>3 DEF PolicyRule
  <2>5. ClassOf(m) \in node.legal
    <3>1. CASE m \in Unsplit
      BY <1>1, <1>2, <1>5, <3>1, ClassType
    <3>2. CASE m \in Splits
      <4>1. CommonRule(m) # "accept"
        BY <1>5, <2>1, <2>2, <3>2 DEF CommonRule, Before, ReuseRule, DepthRule, Splits
      <4>2. ~SplitRefused(m)
        BY <3>2, <4>1 DEF Accepted, Splits
      <4> QED BY <3>2, <4>2 DEF SplitRefused, ClassOf
    <3> QED BY <1>1, <2>3, <3>1, <3>2 DEF Modes
  <2>6. m = "QUAD" => node.qt < node.maxDepth
    <3> SUFFICES ASSUME m = "QUAD", ~(node.qt < node.maxDepth) PROVE FALSE
      OBVIOUS
    <3>1. node.maxDepth <= node.qt
      BY <1>2
    <3>2. CommonRule(m) = "refuse"
      BY <1>5, <2>1, <2>2, <3>1 DEF CommonRule, Before, ReuseRule, DepthRule
    <3> QED BY <3>2 DEF Accepted
  <2> QED BY <2>3, <2>4, <2>5, <2>6 DEF Admissible
<1> QED BY <1>3, <1>4, <1>5

(* No search has tested or kept anything before it starts. *)
LEMMA InitInv == Init => IInv
<1> SUFFICES ASSUME Init PROVE IInv
  OBVIOUS
<1>1. node \in Node /\ node.legal # {} /\ (node.implicit = "DONT" => "DONT" \in node.legal)
  BY NodesAssumption DEF Init
<1>2. None \in Coding /\ None.cost = NoCost
  BY CostType DEF None, Coding, Classes, Splits
<1>3. TypeOK
  BY <1>1, <1>2, CostType DEF Init, TypeOK
<1>4. PolicyKept /\ BestLegal /\ PolicyScope /\ TestAdmissible
  BY DEF Init, PolicyKept, BestLegal, PolicyScope, TestAdmissible
<1>5. BestIsLeast
  BY <1>2, CostType DEF Init, BestIsLeast
<1>6. QueueLegal
  BY DEF Init, QueueLegal
<1> QED BY <1>1, <1>3, <1>4, <1>5, <1>6 DEF IInv, Init

(* initCULevel preserves the invariant: it rejects only where nothing is mandatory. *)
LEMMA InitCULevelInv == IInv /\ InitCULevel => IInv'
<1> SUFFICES ASSUME IInv, InitCULevel PROVE IInv'
  OBVIOUS
<1> USE DEF InitCULevel
<1>1. rejected' \subseteq Classes
  BY RejectedType
<1>2. PolicyScope'
  <2> SUFFICES ASSUME rejected' # {} PROVE Eligible(node)
    BY DEF PolicyScope, Eligible, ForcedQt
  <2> QED OBVIOUS
<1>3. QueueLegal'
  BY QueueFits DEF QueueLegal, Fit
<1>4. modes' \in Seq(Modes)
  BY QueueFits, FitModes
<1>5. did' \subseteq {"QUAD", "HORZ", "VERT"}
  BY DEF DidAtStart
<1>6. TypeOK'
  BY <1>1, <1>4, <1>5 DEF IInv, TypeOK
<1>7. PolicyKept' /\ BestIsLeast' /\ TestAdmissible'
  BY DEF IInv, PolicyKept, BestIsLeast, TestAdmissible
<1>8. BestLegal'
  BY DEF IInv, BestLegal, ForcedQt
<1> QED BY <1>2, <1>3, <1>6, <1>7, <1>8 DEF IInv

(* So does accepting a mode, *)
LEMMA AcceptInv == IInv /\ Accept => IInv'
<1> SUFFICES ASSUME IInv, Accept PROVE IInv'
  OBVIOUS
<1> USE DEF Accept
<1>1. Mode \in Fit(node)
  BY PoppedFits DEF IInv, QueueLegal
<1>2. Admissible(Mode)
  BY <1>1, AcceptedAdmissible
<1>3. TestAdmissible'
  BY <1>2 DEF TestAdmissible, Admissible, Mode, ForcedQt
<1>4. TypeOK'
  BY DEF IInv, TypeOK
<1>5. PolicyKept' /\ BestIsLeast'
  BY DEF IInv, PolicyKept, BestIsLeast
<1>6. BestLegal' /\ PolicyScope' /\ QueueLegal'
  BY DEF IInv, BestLegal, PolicyScope, QueueLegal, ForcedQt, Fit
<1> QED BY <1>3, <1>4, <1>5, <1>6 DEF IInv

(* refusing one *)
LEMMA RefuseInv == IInv /\ Refuse => IInv'
<1> SUFFICES ASSUME IInv, Refuse PROVE IInv'
  OBVIOUS
<1> USE DEF Refuse
<1>1. QueueLegal'
  BY PoppedFits DEF IInv, QueueLegal, Fit
<1>2. modes' \in Seq(Modes)
  BY PoppedFits DEF IInv, TypeOK
<1>3. did' \subseteq {"QUAD", "HORZ", "VERT"} /\ stored' \in Coding
  BY DEF IInv, TypeOK
<1>4. TypeOK'
  BY <1>2, <1>3 DEF IInv, TypeOK
<1>5. PolicyKept' /\ BestIsLeast' /\ TestAdmissible'
  BY DEF IInv, PolicyKept, BestIsLeast, TestAdmissible
<1>6. BestLegal' /\ PolicyScope'
  BY DEF IInv, BestLegal, PolicyScope, ForcedQt
<1> QED BY <1>1, <1>4, <1>5, <1>6 DEF IInv

(* and ending the search. *)
LEMMA FinishInv == IInv /\ Finish => IInv'
<1> SUFFICES ASSUME IInv, Finish PROVE IInv'
  OBVIOUS
<1> USE DEF Finish
<1>1. TypeOK'
  BY DEF IInv, TypeOK
<1>2. PolicyKept' /\ BestIsLeast' /\ TestAdmissible'
  BY DEF IInv, PolicyKept, BestIsLeast, TestAdmissible
<1>3. BestLegal' /\ PolicyScope' /\ QueueLegal'
  BY DEF IInv, BestLegal, PolicyScope, QueueLegal, ForcedQt, Fit
<1> QED BY <1>1, <1>2, <1>3 DEF IInv

(* What every test does: the mode leaves the queue and joins the tested ones. *)
LEMMA TestedFacts ==
  ASSUME IInv, phase = "test", Tested
  PROVE  /\ Admissible(Mode) /\ QueueLegal' /\ PolicyScope' /\ PolicyKept'
         /\ modes' \in Seq(Modes) /\ tested' \subseteq Modes
<1>1. modes # <<>> /\ Admissible(Mode)
  BY DEF IInv, TestAdmissible
<1>2. Mode \in Modes /\ modes' \in Seq(Modes)
  BY <1>1, PoppedFits DEF IInv, TypeOK, Tested
<1>3. QueueLegal' /\ PolicyScope'
  BY <1>1, PoppedFits DEF IInv, QueueLegal, PolicyScope, Tested, Fit, ForcedQt
<1>4. PolicyKept'
  BY <1>1 DEF IInv, PolicyKept, Tested, Admissible
<1> QED BY <1>1, <1>2, <1>3, <1>4 DEF IInv, TypeOK, Tested

(* A coding with an admissible outermost split keeps the best one legal. *)
LEMMA BestStaysLegal ==
  ASSUME IInv, NEW b \in Coding, Admissible(Mode), b.split = ClassOf(Mode),
         best' = Cheaper(best, b), node' = node
  PROVE  BestLegal'
<1>1. best' \in {best, b}
  BY CheaperLeast DEF IInv, TypeOK
<1>2. b.split = "QUAD" => Mode = "QUAD"
  BY DEF ClassOf
<1> QED BY <1>1, <1>2 DEF IInv, BestLegal, Admissible, ForcedQt

(* Coding the unit unsplit preserves the invariant, *)
LEMMA TestUnsplitInv == IInv /\ TestUnsplit => IInv'
<1> SUFFICES ASSUME IInv, TestUnsplit PROVE IInv'
  OBVIOUS
<1>1. PICK cost \in 1..MaxCost, cbf \in BOOLEAN :
        best' = Cheaper(best, [cost |-> cost, split |-> "DONT", bt |-> node.bt,
                               lastBt |-> node.bt, cbf |-> cbf])
  BY DEF TestUnsplit
<1> DEFINE b == [cost |-> cost, split |-> "DONT", bt |-> node.bt, lastBt |-> node.bt, cbf |-> cbf]
<1>2. b \in Coding
  BY CostType DEF IInv, TypeOK, Node, Coding, Classes
<1>3. /\ Tested /\ phase = "test" /\ phase' = "try" /\ Mode \in Unsplit
      /\ splitCost' = [splitCost EXCEPT !["DONT"] = best'.cost]
      /\ UNCHANGED <<node, facts, rejected, did, stored, tri, maxQtSub>>
  BY DEF TestUnsplit, Tested
<1>4. b.split = ClassOf(Mode)
  BY <1>3 DEF ClassOf, Unsplit, Splits
<1>5. best' \in Coding /\ best'.cost <= best.cost
  BY <1>1, <1>2, CheaperLeast DEF IInv, TypeOK
<1>6. best'.cost \in 1..NoCost /\ best.cost \in Nat
  BY <1>5, CostType DEF IInv, TypeOK, Coding
<1>7. splitCost' \in [{"DONT", "HORZ", "VERT"} -> 1..NoCost]
  BY <1>3, <1>6 DEF IInv, TypeOK
<1>8. TypeOK'
  BY <1>3, <1>5, <1>7, TestedFacts DEF IInv, TypeOK
<1>9. BestIsLeast'
  <2> SUFFICES ASSUME NEW c \in {"DONT", "HORZ", "VERT"} PROVE best'.cost <= splitCost'[c]
    BY <1>7 DEF BestIsLeast
  <2>1. splitCost[c] \in Nat /\ best.cost <= splitCost[c]
    BY CostType DEF IInv, TypeOK, BestIsLeast
  <2>2. splitCost'[c] = IF c = "DONT" THEN best'.cost ELSE splitCost[c]
    BY <1>3 DEF IInv, TypeOK
  <2> QED BY <1>5, <1>6, <2>1, <2>2, CostType
<1>10. BestLegal'
  <2> HIDE DEF b
  <2>1. best' = Cheaper(best, b)
    BY <1>1 DEF b
  <2> QED BY <1>2, <1>3, <1>4, <2>1, BestStaysLegal, TestedFacts
<1>11. TestAdmissible'
  BY <1>3 DEF TestAdmissible
<1> QED BY <1>3, <1>8, <1>9, <1>10, <1>11, TestedFacts DEF IInv

(* giving up a split *)
LEMMA GiveUpSplitInv == IInv /\ GiveUpSplit => IInv'
<1> SUFFICES ASSUME IInv, GiveUpSplit PROVE IInv'
  OBVIOUS
<1>1. /\ Tested /\ phase = "test" /\ phase' \in {"try", "abort"}
      /\ UNCHANGED <<node, facts, rejected, did, stored, maxQtSub, splitCost, best>>
      /\ tri' \subseteq tri
  BY DEF GiveUpSplit, Tested, TriLeft
<1>2. TypeOK'
  BY <1>1, TestedFacts DEF IInv, TypeOK
<1>3. BestIsLeast' /\ TestAdmissible'
  BY <1>1 DEF IInv, BestIsLeast, TestAdmissible
<1>4. BestLegal'
  BY <1>1 DEF IInv, BestLegal, ForcedQt
<1> QED BY <1>1, <1>2, <1>3, <1>4, TestedFacts DEF IInv

(* and coding its parts. *)
LEMMA TestSplitInv == IInv /\ TestSplit => IInv'
<1> SUFFICES ASSUME IInv, TestSplit PROVE IInv'
  OBVIOUS
<1>1. PICK cost \in 1..MaxCost, more \in 0..1, lastMore \in 0..1, cbf \in BOOLEAN,
           deep \in BOOLEAN, even \in BOOLEAN :
        /\ best' = Cheaper(best, [cost |-> cost, split |-> Mode, bt |-> PartBt(Mode) + more,
                                  lastBt |-> PartBt(Mode) + lastMore, cbf |-> cbf])
        /\ splitCost' = [c \in DOMAIN splitCost |-> IF c = Mode THEN cost ELSE splitCost[c]]
        /\ maxQtSub' = IF Mode # "QUAD" THEN maxQtSub
                       ELSE IF deep THEN node.qt + 2 ELSE node.qt + 1
        /\ tri' = TriLeft(even)
  BY DEF TestSplit
<1> DEFINE b == [cost |-> cost, split |-> Mode, bt |-> PartBt(Mode) + more,
                 lastBt |-> PartBt(Mode) + lastMore, cbf |-> cbf]
<1>2. /\ Tested /\ phase = "test" /\ phase' = "try" /\ Mode \in Splits
      /\ UNCHANGED <<node, facts, rejected, did, stored>>
  BY DEF TestSplit, Tested
<1>3. PartBt(Mode) \in Nat
  BY DEF IInv, TypeOK, Node, PartBt
<1>4. cost \in 1..NoCost
  BY CostType
<1>5. b \in Coding
  BY <1>2, <1>3, <1>4 DEF Coding, Classes
<1>6. best' \in Coding /\ best'.cost <= best.cost /\ best'.cost <= b.cost
  BY <1>1, <1>5, CheaperLeast DEF IInv, TypeOK
<1>7. best'.cost \in Nat /\ best.cost \in Nat
  BY <1>6, CostType DEF IInv, TypeOK, Coding
<1>8. splitCost' \in [{"DONT", "HORZ", "VERT"} -> 1..NoCost]
  BY <1>1, <1>4 DEF IInv, TypeOK
<1>9. maxQtSub' \in Nat /\ tri' \subseteq {"TRIH", "TRIV"}
  <2>1. maxQtSub \in Nat /\ node.qt \in Nat /\ tri \subseteq {"TRIH", "TRIV"}
    BY DEF IInv, TypeOK, Node
  <2>2. node.qt + 2 \in Nat /\ node.qt + 1 \in Nat
    BY <2>1
  <2>3. maxQtSub' \in Nat
    BY <1>1, <2>1, <2>2
  <2>4. tri' \subseteq tri
    BY <1>1 DEF TriLeft
  <2> QED BY <2>1, <2>3, <2>4
<1>10. TypeOK'
  BY <1>2, <1>6, <1>8, <1>9, TestedFacts DEF IInv, TypeOK
<1>11. BestIsLeast'
  <2> SUFFICES ASSUME NEW c \in {"DONT", "HORZ", "VERT"} PROVE best'.cost <= splitCost'[c]
    BY <1>8 DEF BestIsLeast
  <2>1. splitCost[c] \in Nat /\ best.cost <= splitCost[c]
    BY CostType DEF IInv, TypeOK, BestIsLeast
  <2>2. splitCost'[c] = IF c = Mode THEN cost ELSE splitCost[c]
    BY <1>1 DEF IInv, TypeOK
  <2>3. b.cost = cost /\ cost \in Nat
    BY <1>4
  <2> QED BY <1>6, <1>7, <2>1, <2>2, <2>3
<1>12. BestLegal'
  <2>1. b.split = ClassOf(Mode)
    BY <1>2 DEF ClassOf
  <2> HIDE DEF b
  <2>2. best' = Cheaper(best, b)
    BY <1>1 DEF b
  <2> QED BY <1>2, <1>5, <2>1, <2>2, BestStaysLegal, TestedFacts
<1>13. TestAdmissible'
  BY <1>2 DEF TestAdmissible
<1> QED BY <1>2, <1>10, <1>11, <1>12, <1>13, TestedFacts DEF IInv

(* The invariant is inductive. *)
LEMMA NextInv == IInv /\ [Next]_vars => IInv'
<1> SUFFICES ASSUME IInv, [Next]_vars PROVE IInv'
  OBVIOUS
<1>1. CASE UNCHANGED vars
  BY <1>1 DEF vars, IInv, TypeOK, PolicyKept, BestLegal, BestIsLeast, QueueLegal, PolicyScope,
              TestAdmissible, Admissible, ForcedQt, Mode, Fit
<1> QED BY <1>1, InitCULevelInv, AcceptInv, RefuseInv, FinishInv, TestUnsplitInv,
           GiveUpSplitInv, TestSplitInv DEF Next

(* The invariant holds throughout. *)
THEOREM Invariance == Spec => []IInv
  BY InitInv, NextInv, PTL DEF Spec

(* initCULevel, tryMode and useModeResult keep the type of their state.    *)
THEOREM TypeCorrect == Spec => []TypeOK
  BY Invariance, PTL DEF IInv

(* A class the learned policy rejected is never tested, neither directly   *)
(* nor through the reuse of a cached coding, whatever the configuration    *)
(* and whatever the neighbours, the samples and the costs say.             *)
THEOREM PolicyIsKept == Spec => []PolicyKept
  BY Invariance, PTL DEF IInv

(* The coding kept uses a split that canSplit allows on this unit.         *)
THEOREM BestIsLegal == Spec => []BestLegal
  BY Invariance, PTL DEF IInv

(* The coding kept is no dearer than any the split-cost record knows.      *)
THEOREM BestIsTheLeast == Spec => []BestIsLeast
  BY Invariance, PTL DEF IInv

(* What the policy leaves of the legal classes is never empty. *)
LEMMA SomethingIsLeft ==
  ASSUME NEW n \in Node, n.legal # {}, NEW reached
  PROVE  n.legal \ Rejected(LegalClasses(n), reached) # {}
<1> DEFINE L == LegalClasses(n)
<1>1. L \subseteq n.legal /\ n.legal \subseteq Classes
  BY DEF LegalClasses, Node
<1>2. CASE Enforced(L, reached)
  <2>1. L # {}
    BY <1>2, FS_EmptySet DEF Enforced
  <2>2. Allowed(L, reached) # {} /\ Allowed(L, reached) \subseteq L
    BY <2>1 DEF Allowed
  <2>3. Rejected(L, reached) = Classes \ Allowed(L, reached)
    BY <1>2 DEF Rejected
  <2> HIDE DEF L
  <2> QED BY <1>1, <2>2, <2>3 DEF L
<1>3. CASE ~Enforced(L, reached)
  <2>1. Rejected(L, reached) = {}
    BY <1>3 DEF Rejected
  <2> QED BY <2>1
<1> QED BY <1>2, <1>3

(* A coding under test is of a class that is left; keeping the cheaper one improves or *)
(* changes nothing.                                                                     *)
LEMMA TestImproves ==
  ASSUME IInv, phase = "test", phase' = "try", NEW b \in Coding, b.cost \in 1..MaxCost,
         Admissible(Mode), b.split = ClassOf(Mode), best' = Cheaper(best, b),
         UNCHANGED <<node, rejected>>
  PROVE  [Promise!Next]_(Promise!searchVars)
<1>1. CASE b.cost < best.cost
  <2>1. best' = b
    BY <1>1 DEF Cheaper
  <2>2. b.cost \in 1..(best.cost - 1)
    BY <1>1, CostType DEF IInv, TypeOK, Coding
  <2>3. b.split \in node.legal \ rejected
    BY DEF Admissible
  <2>4. Promise!Improve
    BY <2>1, <2>2, <2>3 DEF Promise!Improve
  <2> QED BY <2>4 DEF Promise!Next
<1>2. CASE ~(b.cost < best.cost)
  <2>1. best' = best
    BY <1>2 DEF Cheaper
  <2> QED BY <2>1 DEF Promise!searchVars
<1> QED BY <1>1, <1>2

(* A search starts as promised. *)
LEMMA InitKeeps == Init => Promise!Init
<1> SUFFICES ASSUME Init PROVE Promise!Init
  OBVIOUS
<1>1. node.legal \ rejected \in (SUBSET Classes) \ {{}}
  BY NodesAssumption DEF Init, Node
<1>2. [cost |-> best.cost, split |-> best.split] = Promise!Nothing
  BY DEF Init, None, Promise!Nothing
<1>3. (phase \in {"done", "abort"}) = FALSE
  BY DEF Init
<1> QED BY <1>1, <1>2, <1>3 DEF Promise!Init

(* Every step of the search is a promised one, or none. *)
LEMMA StepKeeps == IInv /\ [Next]_vars => [Promise!Next]_(Promise!searchVars)
<1> SUFFICES ASSUME IInv, [Next]_vars PROVE [Promise!Next]_(Promise!searchVars)
  OBVIOUS
<1>1. CASE InitCULevel
  <2>1. node' = node /\ best' = best /\ best = None /\ phase = "init" /\ phase' = "try"
    BY <1>1 DEF InitCULevel, IInv
  <2>2. node \in Node /\ node.legal # {} /\ node.legal \subseteq Classes
    BY DEF IInv, TypeOK, Node
  <2>3. node.legal \ rejected' # {}
    BY <1>1, <2>2, SomethingIsLeft DEF InitCULevel
  <2>4. rejected = {}
    BY <2>1 DEF IInv
  <2>5. Promise!Prune
    BY <2>1, <2>3, <2>4 DEF Promise!Prune, None, Promise!Nothing
  <2> QED BY <2>5 DEF Promise!Next
<1>2. CASE Accept \/ Refuse
  BY <1>2 DEF Accept, Refuse, Promise!searchVars
<1>3. CASE Finish
  <2>1. Promise!Stop
    BY <1>3 DEF Finish, Promise!Stop
  <2> QED BY <2>1 DEF Promise!Next
<1>4. CASE TestUnsplit
  <2>1. PICK cost \in 1..MaxCost, cbf \in BOOLEAN :
          best' = Cheaper(best, [cost |-> cost, split |-> "DONT", bt |-> node.bt,
                                 lastBt |-> node.bt, cbf |-> cbf])
    BY <1>4 DEF TestUnsplit
  <2> DEFINE b == [cost |-> cost, split |-> "DONT", bt |-> node.bt, lastBt |-> node.bt, cbf |-> cbf]
  <2>2. b \in Coding /\ b.cost \in 1..MaxCost
    BY CostType DEF IInv, TypeOK, Node, Coding, Classes
  <2>3. /\ phase = "test" /\ phase' = "try" /\ Tested /\ Mode \in Unsplit
        /\ UNCHANGED <<node, rejected>>
    BY <1>4 DEF TestUnsplit, Tested
  <2>4. b.split = ClassOf(Mode)
    BY <2>3 DEF ClassOf, Unsplit, Splits
  <2>5. best' = Cheaper(best, b)
    BY <2>1
  <2> HIDE DEF b
  <2> QED BY <2>2, <2>3, <2>4, <2>5, TestedFacts, TestImproves
<1>5. CASE GiveUpSplit
  <2>1. UNCHANGED <<node, rejected, best>> /\ phase = "test" /\ phase' \in {"try", "abort"}
    BY <1>5 DEF GiveUpSplit, Tested
  <2>2. CASE phase' = "try"
    BY <2>1, <2>2 DEF Promise!searchVars
  <2>3. CASE phase' = "abort"
    <3>1. Promise!Stop
      BY <2>1, <2>3 DEF Promise!Stop
    <3> QED BY <3>1 DEF Promise!Next
  <2> QED BY <2>1, <2>2, <2>3
<1>6. CASE TestSplit
  <2>1. PICK cost \in 1..MaxCost, more \in 0..1, lastMore \in 0..1, cbf \in BOOLEAN :
          best' = Cheaper(best, [cost |-> cost, split |-> Mode, bt |-> PartBt(Mode) + more,
                                 lastBt |-> PartBt(Mode) + lastMore, cbf |-> cbf])
    BY <1>6 DEF TestSplit
  <2> DEFINE b == [cost |-> cost, split |-> Mode, bt |-> PartBt(Mode) + more,
                   lastBt |-> PartBt(Mode) + lastMore, cbf |-> cbf]
  <2>2. /\ phase = "test" /\ phase' = "try" /\ Tested /\ Mode \in Splits
        /\ UNCHANGED <<node, rejected>>
    BY <1>6 DEF TestSplit, Tested
  <2>3. PartBt(Mode) \in Nat
    BY DEF IInv, TypeOK, Node, PartBt
  <2>4. b \in Coding /\ b.cost \in 1..MaxCost
    BY <2>2, <2>3, CostType DEF Coding, Classes
  <2>5. b.split = ClassOf(Mode)
    BY <2>2 DEF ClassOf
  <2>6. best' = Cheaper(best, b)
    BY <2>1
  <2> HIDE DEF b
  <2> QED BY <2>2, <2>4, <2>5, <2>6, TestedFacts, TestImproves
<1>7. CASE UNCHANGED vars
  BY <1>7 DEF vars, Promise!searchVars
<1> QED BY <1>1, <1>2, <1>3, <1>4, <1>5, <1>6, <1>7 DEF Next

(* The queue of modes and the rules of tryMode implement what the search of a unit      *)
(* promises: the policy always leaves a legal class, a coding is replaced only by a      *)
(* cheaper one of a class that is left, and nothing changes once the search is over.    *)
THEOREM SearchKeepsPromise == Spec => ImplementsSearch
  BY Invariance, InitKeeps, StepKeeps, PTL DEF Spec, ImplementsSearch, Promise!Spec

-----------------------------------------------------------------------------
(* The order of the queue *)

(* Every mode has its turn, and only the unsplit ones have theirs before   *)
(* POST_DONT_SPLIT.                                                        *)
LEMMA TurnFacts ==
  ASSUME NEW f
  PROVE  /\ \A m \in Modes : Turn(f, m) \in Nat /\ Turn(f, m) <= 8
         /\ \A m \in Modes : Turn(f, m) > Turn(f, "POST_DONT_SPLIT") <=> m \in Unsplit
         /\ Turn(f, "INTRA") = 8 /\ Turn(f, "RECO_CACHED") = 7 /\ Turn(f, "POST_DONT_SPLIT") = 6
         /\ Turn(f, "HORZ") = 4 /\ Turn(f, "VERT") = 3 /\ Turn(f, "TRIH") = 2 /\ Turn(f, "TRIV") = 1
         /\ f.qtFirst => Turn(f, "QUAD") = 5
         /\ ~f.qtFirst => Turn(f, "QUAD") = 0
BY DEF Turn, Modes, Splits, Unsplit

(* A stack of modes in their turn, all of it after turn k *)
Stacked(f, q, k) ==
  /\ q \in Seq(Modes) /\ InTurn(f, q)
  /\ \A i \in 1..Len(q) : Turn(f, q[i]) < k

(* Stack r is q with mode m put on it under condition c. *)
Put(q, c, m) == q \o (IF c THEN <<m>> ELSE <<>>)
Raised(f, q, r, k, c, m) ==
  /\ Stacked(f, r, k) /\ StoresAfter(r)
  /\ \A x : Holds(r, x) <=> Holds(q, x) \/ (c /\ x = m)

(* A mode with an earlier turn may be put on the stack, an unsplit one once *)
(* POST_DONT_SPLIT is there.                                               *)
LEMMA PutOnTop ==
  ASSUME NEW f, NEW q, NEW k \in Nat, NEW k1 \in Nat, NEW c \in BOOLEAN, NEW m \in Modes,
         Stacked(f, q, k), k < k1, c => Turn(f, m) = k,
         StoresAfter(q), c /\ m \in Unsplit => Holds(q, "POST_DONT_SPLIT")
  PROVE  Raised(f, q, Put(q, c, m), k1, c, m)
<1> DEFINE r == q \o (IF c THEN <<m>> ELSE <<>>)
<1>1. q \in Seq(Modes) /\ Len(q) \in Nat /\ \A i \in 1..Len(q) : Turn(f, q[i]) \in Nat
  <2>1. q \in Seq(Modes) /\ \A i \in 1..Len(q) : q[i] \in Modes
    BY DEF Stacked
  <2>2. \A x \in Modes : Turn(f, x) \in Nat
    BY TurnFacts
  <2>3. Len(q) \in Nat
    BY <2>1
  <2> QED BY <2>1, <2>2, <2>3
<1>2. CASE ~c
  <2>1. r = q
    BY <1>1, <1>2
  <2>2. Stacked(f, r, k1)
    <3>1. \A i \in 1..Len(q) : Turn(f, q[i]) < k1
      BY <1>1 DEF Stacked
    <3> QED BY <2>1, <3>1 DEF Stacked
  <2> HIDE DEF r
  <2>3. Raised(f, q, r, k1, c, m)
    BY <1>2, <2>1, <2>2 DEF Raised
  <2> QED BY <2>3 DEF r, Put
<1>3. CASE c
  <2>1. /\ r \in Seq(Modes) /\ Len(r) = Len(q) + 1 /\ r[Len(q) + 1] = m
        /\ \A i \in 1..Len(q) : r[i] = q[i]
    BY <1>1, <1>3
  <2> HIDE DEF r
  <2>2. Stacked(f, r, k1)
    <3>1. ASSUME NEW i \in 1..Len(r) PROVE Turn(f, r[i]) < k1
      <4>1. CASE i \in 1..Len(q)
        BY <1>1, <2>1, <4>1 DEF Stacked
      <4>2. CASE i = Len(q) + 1
        BY <1>3, <2>1, <4>2
      <4> QED BY <1>1, <2>1, <4>1, <4>2
    <3>2. ASSUME NEW i \in 1..Len(r), NEW j \in 1..Len(r), i < j
          PROVE  Turn(f, r[i]) < Turn(f, r[j])
      <4>0. i \in 1..Len(q)
        BY <1>1, <2>1, <3>2
      <4>1. CASE j \in 1..Len(q)
        BY <2>1, <3>2, <4>0, <4>1 DEF Stacked, InTurn
      <4>2. CASE j = Len(q) + 1
        BY <1>3, <2>1, <4>0, <4>2 DEF Stacked
      <4> QED BY <1>1, <2>1, <4>1, <4>2
    <3> QED BY <2>1, <3>1, <3>2 DEF Stacked, InTurn
  <2>3. ASSUME NEW x PROVE Holds(r, x) <=> Holds(q, x) \/ x = m
    <3>1. ASSUME Holds(r, x) PROVE Holds(q, x) \/ x = m
      <4>1. PICK i \in 1..Len(r) : r[i] = x
        BY <3>1 DEF Holds
      <4>2. i \in 1..Len(q) \/ i = Len(q) + 1
        BY <1>1, <2>1
      <4> QED BY <2>1, <4>1, <4>2 DEF Holds
    <3>2. ASSUME Holds(q, x) PROVE Holds(r, x)
      BY <1>1, <2>1, <3>2 DEF Holds
    <3>3. ASSUME x = m PROVE Holds(r, x)
      <4>1. Len(q) + 1 \in 1..Len(r)
        BY <1>1, <2>1
      <4> QED BY <2>1, <3>3, <4>1 DEF Holds
    <3> QED BY <3>1, <3>2, <3>3
  <2>4. StoresAfter(r)
    <3> SUFFICES ASSUME NEW i \in 1..Len(r), r[i] \in Unsplit
                 PROVE  \E j \in 1..(i - 1) : r[j] = "POST_DONT_SPLIT"
      BY DEF StoresAfter
    <3>1. CASE i \in 1..Len(q)
      <4>1. PICK j \in 1..(i - 1) : q[j] = "POST_DONT_SPLIT"
        BY <2>1, <3>1 DEF StoresAfter
      <4>2. i \in Nat /\ j \in 1..Len(q)
        BY <1>1, <3>1, <4>1
      <4>3. r[j] = q[j]
        BY <2>1, <4>2
      <4> QED BY <4>1, <4>3
    <3>2. CASE i = Len(q) + 1
      <4>1. PICK j \in 1..Len(q) : q[j] = "POST_DONT_SPLIT"
        BY <1>3, <2>1, <3>2 DEF Holds
      <4> QED BY <1>1, <2>1, <3>2, <4>1
    <3> QED BY <1>1, <2>1, <3>1, <3>2
  <2>5. Raised(f, q, r, k1, c, m)
    BY <1>3, <2>2, <2>3, <2>4 DEF Raised
  <2> QED BY <2>5 DEF r, Put
<1> QED BY <1>2, <1>3

(* What initCULevel queues: every legal split, POST_DONT_SPLIT and the     *)
(* unsplit modes, each in its turn.                                        *)
LEMMA QueueOrder ==
  ASSUME NEW n, NEW f \in Facts
  PROVE  /\ InTurn(f, Queue(n, f)) /\ StoresAfter(Queue(n, f))
         /\ \A m \in {"QUAD", "INTRA"} \cup ({"HORZ", "VERT", "TRIH", "TRIV"} \cap n.legal) :
              Holds(Queue(n, f), m)
         /\ f.reuse => Holds(Queue(n, f), "RECO_CACHED")
<1> DEFINE quad1 == ~f.qtFirst
           quad2 == f.qtFirst
           triv == "TRIV" \in n.legal   trih == "TRIH" \in n.legal
           vert == "VERT" \in n.legal   horz == "HORZ" \in n.legal
           always == TRUE
           q1 == Put(<<>>, quad1, "QUAD")
           q2 == Put(q1, triv, "TRIV")
           q3 == Put(q2, trih, "TRIH")
           q4 == Put(q3, vert, "VERT")
           q5 == Put(q4, horz, "HORZ")
           q6 == Put(q5, quad2, "QUAD")
           q7 == Put(q6, always, "POST_DONT_SPLIT")
           q8 == Put(q7, f.reuse, "RECO_CACHED")
           q9 == Put(q8, always, "INTRA")
<1>1. Queue(n, f) = q9
  BY DEF Queue, Put
<1>2. /\ quad1 \in BOOLEAN /\ quad2 \in BOOLEAN /\ f.reuse \in BOOLEAN
      /\ triv \in BOOLEAN /\ trih \in BOOLEAN /\ vert \in BOOLEAN /\ horz \in BOOLEAN
      /\ always \in BOOLEAN /\ always /\ quad1 = ~quad2 /\ quad1 = ~f.qtFirst /\ quad2 = f.qtFirst
  BY DEF Facts
<1>3. {"QUAD", "TRIV", "TRIH", "VERT", "HORZ", "POST_DONT_SPLIT", "RECO_CACHED", "INTRA"} \subseteq Modes
  BY DEF Modes, Splits, Unsplit
<1>4. {"QUAD", "TRIV", "TRIH", "VERT", "HORZ", "POST_DONT_SPLIT"} \cap Unsplit = {}
  BY DEF Unsplit
<1>5. Stacked(f, <<>>, 0) /\ StoresAfter(<<>>)
  BY DEF Stacked, InTurn, StoresAfter
<1>6. \A k \in 0..9 : k \in Nat
  OBVIOUS
<1> HIDE DEF always, quad1, quad2, triv, trih, vert, horz
<1>10. Raised(f, <<>>, q1, 1, quad1, "QUAD")
  <2>1. Stacked(f, <<>>, 0) /\ StoresAfter(<<>>) /\ 0 \in Nat /\ 1 \in Nat /\ 0 < 1
    BY <1>5 DEF Raised
  <2>2. quad1 => Turn(f, "QUAD") = 0
    BY <1>2, TurnFacts
  <2>3. quad1 /\ "QUAD" \in Unsplit => Holds(<<>>, "POST_DONT_SPLIT")
    BY <1>4
  <2>4. quad1 \in BOOLEAN /\ "QUAD" \in Modes
    BY <1>2, <1>3
  <2> HIDE DEF q1
  <2>5. Raised(f, <<>>, Put(<<>>, quad1, "QUAD"), 1, quad1, "QUAD")
    BY <2>1, <2>2, <2>3, <2>4, PutOnTop
  <2> QED BY <2>5 DEF q1
<1> HIDE DEF q1
<1>11. Raised(f, q1, q2, 2, triv, "TRIV")
  BY <1>2, <1>3, <1>4, <1>10, PutOnTop, TurnFacts DEF Raised
<1> HIDE DEF q2
<1>12. Raised(f, q2, q3, 3, trih, "TRIH")
  BY <1>2, <1>3, <1>4, <1>11, PutOnTop, TurnFacts DEF Raised
<1> HIDE DEF q3
<1>13. Raised(f, q3, q4, 4, vert, "VERT")
  BY <1>2, <1>3, <1>4, <1>12, PutOnTop, TurnFacts DEF Raised
<1> HIDE DEF q4
<1>14. Raised(f, q4, q5, 5, horz, "HORZ")
  <2>1. Stacked(f, q4, 4) /\ StoresAfter(q4) /\ 4 \in Nat /\ 5 \in Nat /\ 4 < 5
    BY <1>13 DEF Raised
  <2>2. horz => Turn(f, "HORZ") = 4
    BY <1>2, TurnFacts
  <2>3. horz /\ "HORZ" \in Unsplit => Holds(q4, "POST_DONT_SPLIT")
    BY <1>4
  <2>4. horz \in BOOLEAN /\ "HORZ" \in Modes
    BY <1>2, <1>3
  <2> HIDE DEF q5
  <2>5. Raised(f, q4, Put(q4, horz, "HORZ"), 5, horz, "HORZ")
    BY <2>1, <2>2, <2>3, <2>4, PutOnTop
  <2> QED BY <2>5 DEF q5
<1> HIDE DEF q5
<1>15. Raised(f, q5, q6, 6, quad2, "QUAD")
  <2>1. Stacked(f, q5, 5) /\ StoresAfter(q5) /\ 5 \in Nat /\ 6 \in Nat /\ 5 < 6
    BY <1>14 DEF Raised
  <2>2. quad2 => Turn(f, "QUAD") = 5
    BY <1>2, TurnFacts
  <2>3. quad2 /\ "QUAD" \in Unsplit => Holds(q5, "POST_DONT_SPLIT")
    BY <1>4
  <2>4. quad2 \in BOOLEAN /\ "QUAD" \in Modes
    BY <1>2, <1>3
  <2> HIDE DEF q6
  <2>5. Raised(f, q5, Put(q5, quad2, "QUAD"), 6, quad2, "QUAD")
    BY <2>1, <2>2, <2>3, <2>4, PutOnTop
  <2> QED BY <2>5 DEF q6
<1> HIDE DEF q6
<1>16. Raised(f, q6, q7, 7, always, "POST_DONT_SPLIT")
  <2>1. Stacked(f, q6, 6) /\ StoresAfter(q6) /\ 6 \in Nat /\ 7 \in Nat /\ 6 < 7
    BY <1>15 DEF Raised
  <2>2. always => Turn(f, "POST_DONT_SPLIT") = 6
    BY <1>2, TurnFacts
  <2>3. always /\ "POST_DONT_SPLIT" \in Unsplit => Holds(q6, "POST_DONT_SPLIT")
    BY <1>4
  <2>4. always \in BOOLEAN /\ "POST_DONT_SPLIT" \in Modes
    BY <1>2, <1>3
  <2> HIDE DEF q7
  <2>5. Raised(f, q6, Put(q6, always, "POST_DONT_SPLIT"), 7, always, "POST_DONT_SPLIT")
    BY <2>1, <2>2, <2>3, <2>4, PutOnTop
  <2> QED BY <2>5 DEF q7
<1> HIDE DEF q7
<1>17. Raised(f, q7, q8, 8, f.reuse, "RECO_CACHED")
  BY <1>2, <1>3, <1>16, PutOnTop, TurnFacts DEF Raised
<1> HIDE DEF q8
<1>18. Raised(f, q8, q9, 9, always, "INTRA")
  <2>1. Stacked(f, q8, 8) /\ StoresAfter(q8) /\ 8 \in Nat /\ 9 \in Nat /\ 8 < 9
    BY <1>17 DEF Raised
  <2>2. always => Turn(f, "INTRA") = 8
    BY <1>2, TurnFacts
  <2>3. always /\ "INTRA" \in Unsplit => Holds(q8, "POST_DONT_SPLIT")
    BY <1>2, <1>16, <1>17 DEF Raised
  <2>4. always \in BOOLEAN /\ "INTRA" \in Modes
    BY <1>2, <1>3
  <2> HIDE DEF q9
  <2>5. Raised(f, q8, Put(q8, always, "INTRA"), 9, always, "INTRA")
    BY <2>1, <2>2, <2>3, <2>4, PutOnTop
  <2> QED BY <2>5 DEF q9
<1> HIDE DEF q9
<1>19. Holds(q9, "INTRA") /\ (f.reuse => Holds(q9, "RECO_CACHED"))
  BY <1>2, <1>17, <1>18 DEF Raised
<1>20. /\ triv => Holds(q9, "TRIV")
       /\ trih => Holds(q9, "TRIH")
       /\ vert => Holds(q9, "VERT")
       /\ horz => Holds(q9, "HORZ")
       /\ Holds(q9, "QUAD")
  BY <1>2, <1>10, <1>11, <1>12, <1>13, <1>14, <1>15, <1>16, <1>17, <1>18 DEF Raised
<1> QED BY <1>1, <1>18, <1>19, <1>20 DEF Raised, Stacked, triv, trih, vert, horz

(* The mode on top has its turn after the ones below it. *)
LEMMA PoppedOrder ==
  ASSUME IInv, OrderInv, modes # <<>>
  PROVE  /\ InTurn(facts, Popped) /\ StoresAfter(Popped)
         /\ \A i \in 1..Len(Popped) : Turn(facts, Popped[i]) < Turn(facts, Mode)
         /\ \A x : Holds(modes, x) <=> Holds(Popped, x) \/ x = Mode
         /\ Mode \in Modes /\ Holds(modes, Mode)
         /\ \A i \in 1..Len(Popped) : Popped[i] = modes[i] /\ i \in 1..Len(modes)
<1>1. modes \in Seq(Modes) /\ Len(modes) \in Nat \ {0} /\ Len(modes) \in 1..Len(modes)
  BY DEF IInv, TypeOK
<1> DEFINE n == Len(modes) - 1
<1>2. n \in Nat /\ n < Len(modes) /\ Len(modes) = n + 1
  BY <1>1
<1>3. Popped \in Seq(Modes) /\ Len(Popped) = n /\ \A i \in 1..n : Popped[i] = modes[i]
  BY <1>1 DEF Popped
<1>4. Mode = modes[n + 1] /\ Mode \in Modes /\ n + 1 \in 1..Len(modes)
  BY <1>1 DEF Mode
<1> HIDE DEF n
<1>5. InTurn(facts, Popped)
  BY <1>2, <1>3 DEF OrderInv, InTurn
<1>6. StoresAfter(Popped)
  <2> SUFFICES ASSUME NEW i \in 1..n, Popped[i] \in Unsplit
               PROVE  \E j \in 1..(i - 1) : Popped[j] = "POST_DONT_SPLIT"
    BY <1>3 DEF StoresAfter
  <2>1. PICK j \in 1..(i - 1) : modes[j] = "POST_DONT_SPLIT"
    BY <1>2, <1>3 DEF OrderInv, StoresAfter
  <2> QED BY <1>2, <1>3, <2>1
<1>7. \A i \in 1..Len(Popped) : Turn(facts, Popped[i]) < Turn(facts, Mode)
  BY <1>2, <1>3, <1>4 DEF OrderInv, InTurn
<1>8. ASSUME NEW x PROVE Holds(modes, x) <=> Holds(Popped, x) \/ x = Mode
  <2>1. \A i \in 1..Len(modes) : i \in 1..n \/ i = n + 1
    BY <1>2
  <2>2. \A i \in 1..n : i \in 1..Len(modes)
    BY <1>2
  <2> QED BY <1>3, <1>4, <2>1, <2>2 DEF Holds
<1>9. Holds(modes, Mode)
  BY <1>4 DEF Holds
<1>10. \A i \in 1..Len(Popped) : Popped[i] = modes[i] /\ i \in 1..Len(modes)
  BY <1>2, <1>3
<1> QED BY <1>4, <1>5, <1>6, <1>7, <1>8, <1>9, <1>10

(* Nothing but unsplit modes are tested while POST_DONT_SPLIT is queued. *)
LEMMA UnsplitBeforePost ==
  ASSUME IInv, OrderInv, Holds(modes, "POST_DONT_SPLIT")
  PROVE  tested \cap Splits = {}
<1>1. PICK i \in 1..Len(modes) : modes[i] = "POST_DONT_SPLIT"
  BY DEF Holds
<1>2. ASSUME NEW m \in tested PROVE m \notin Splits
  <2>1. Turn(facts, "POST_DONT_SPLIT") < Turn(facts, m)
    BY <1>1 DEF OrderInv, TestedBefore
  <2>2. m \in Modes /\ "POST_DONT_SPLIT" \in Modes
    BY DEF IInv, TypeOK, Modes
  <2>3. Turn(facts, m) \in Nat /\ Turn(facts, "POST_DONT_SPLIT") \in Nat
    BY <2>2, TurnFacts
  <2>4. Turn(facts, m) > Turn(facts, "POST_DONT_SPLIT")
    BY <2>1, <2>3
  <2>5. m \in Unsplit
    BY <2>2, <2>4, TurnFacts
  <2> QED BY <2>5 DEF Unsplit, Splits
<1> QED BY <1>2

(* The intra mode is only tested where tryMode comes to its own rules. *)
LEMMA IntraAccepted ==
  ASSUME Accepted("INTRA")
  PROVE  node.implicit = "DONT" /\ ~ForcedQt(node)
<1>1. "INTRA" \notin Splits /\ ClassOf("INTRA") = "DONT" /\ "INTRA" # "QUAD" /\ "INTRA" # "RECO_CACHED"
  BY DEF ClassOf, Splits
<1>2. node.implicit = "DONT"
  <2> SUFFICES ASSUME node.implicit # "DONT" PROVE FALSE
    OBVIOUS
  <2>1. CommonRule("INTRA") = "refuse"
    BY <1>1 DEF CommonRule, Before, MandatoryRule
  <2> QED BY <1>1, <2>1 DEF Accepted
<1>3. ~ForcedQt(node)
  <2> SUFFICES ASSUME ForcedQt(node) PROVE FALSE
    OBVIOUS
  <2>1. CommonRule("INTRA") = "refuse"
    BY <1>1, <1>2 DEF CommonRule, Before, MandatoryRule, PolicyRule, ReuseRule, DepthRule
  <2> QED BY <1>1, <2>1 DEF Accepted
<1> QED BY <1>2, <1>3

(* The queue starts in order, *)
LEMMA InitOrder == Init => OrderInv
<1> SUFFICES ASSUME Init PROVE OrderInv
  OBVIOUS
<1>1. InTurn(facts, modes) /\ StoresAfter(modes) /\ TestedBefore
  BY DEF Init, InTurn, StoresAfter, TestedBefore
<1>2. IntraAsked /\ UnsplitKept
  BY DEF Init, IntraAsked, UnsplitKept, None
<1> QED BY <1>1, <1>2 DEF Init, OrderInv

(* and initCULevel leaves it so; *)
LEMMA InitCULevelOrder ==
  ASSUME IInv, OrderInv, InitCULevel
  PROVE  OrderInv'
<1>1. /\ tested = {} /\ tested' = {} /\ modes' = Queue(node, facts) /\ facts' = facts
      /\ best' = best /\ phase' = "try" /\ facts \in Facts
  BY DEF InitCULevel, OrderInv, IInv, TypeOK
<1>2. InTurn(facts, modes)' /\ StoresAfter(modes)'
  <2>1. InTurn(facts, Queue(node, facts)) /\ StoresAfter(Queue(node, facts))
    BY <1>1, QueueOrder
  <2> QED BY <1>1, <2>1 DEF InTurn, Turn, StoresAfter
<1>3. TestedBefore' /\ IntraAsked' /\ UnsplitKept'
  BY <1>1 DEF OrderInv, TestedBefore, IntraAsked, UnsplitKept
<1> QED BY <1>1, <1>2, <1>3 DEF OrderInv

(* accepting a mode changes nothing about it; *)
LEMMA AcceptOrder ==
  ASSUME IInv, OrderInv, Accept
  PROVE  OrderInv'
<1>1. /\ UNCHANGED <<node, facts, modes, tested, best, stored, splitCost>> /\ phase' = "test"
      /\ Accepted(Mode)
  BY DEF Accept
<1>2. InTurn(facts, modes)' /\ StoresAfter(modes)'
  BY <1>1 DEF OrderInv, InTurn, StoresAfter
<1>5. TestedBefore'
  BY <1>1 DEF OrderInv, TestedBefore
<1>3. UnsplitKept'
  BY <1>1 DEF OrderInv, UnsplitKept, Holds
<1>4. IntraAsked'
  BY <1>1, IntraAccepted DEF OrderInv, IntraAsked, ForcedQt, Mode
<1> QED BY <1>1, <1>2, <1>3, <1>4, <1>5 DEF OrderInv

(* a mode that leaves the queue, tested or not, leaves what comes after it. *)
LEMMA PoppedKeepsOrder ==
  ASSUME IInv, OrderInv, modes # <<>>, modes' = Popped, facts' = facts,
         tested' = tested \/ tested' = tested \cup {Mode}
  PROVE  InTurn(facts, modes)' /\ StoresAfter(modes)' /\ TestedBefore'
<1>1. InTurn(facts, modes)' /\ StoresAfter(modes)'
  BY PoppedOrder DEF InTurn, StoresAfter, Turn
<1>2. ASSUME NEW m \in tested', NEW i \in 1..Len(modes')
      PROVE  Turn(facts, modes'[i]) < Turn(facts, m)
  <2>1. CASE m \in tested
    BY <2>1, PoppedOrder DEF OrderInv, TestedBefore
  <2>2. CASE m = Mode
    BY <2>2, PoppedOrder
  <2> QED BY <2>1, <2>2
<1> QED BY <1>1, <1>2 DEF TestedBefore, Turn

(* POST_DONT_SPLIT, when it is refused, stores the unsplit coding. *)
LEMMA RefuseOrder ==
  ASSUME IInv, OrderInv, Refuse
  PROVE  OrderInv'
<1>1. /\ UNCHANGED <<node, facts, tested, best, splitCost, phase>> /\ phase = "try"
      /\ modes # <<>> /\ modes' = Popped
      /\ stored' = IF /\ CommonRule(Mode) = "ask" /\ Mode = "POST_DONT_SPLIT"
                      /\ best # None /\ best.split = "DONT" THEN best ELSE stored
  BY DEF Refuse
<1>2. IntraAsked'
  BY <1>1 DEF OrderInv, IntraAsked, ForcedQt
<1>3. UnsplitKept'
  <2>1. ASSUME "INTRA" \in tested, ~Holds(Popped, "POST_DONT_SPLIT")
        PROVE  stored' # None /\ stored'.split = "DONT" /\ stored'.cost = splitCost["DONT"]
    <3>1. CASE Mode = "POST_DONT_SPLIT"
      <4>1. node.implicit = "DONT" /\ ~ForcedQt(node)
        BY <2>1 DEF OrderInv, IntraAsked
      <4>2. MandatoryRule(Mode) = "ask" /\ PolicyRule(Mode) = "ask" /\ ReuseRule(Mode) = "ask"
            /\ DepthRule(Mode) = "ask"
        BY <3>1, <4>1 DEF MandatoryRule, PolicyRule, ReuseRule, DepthRule
      <4>3. CommonRule(Mode) = "ask"
        BY <4>2 DEF CommonRule, Before
      <4>4. tested \cap Splits = {}
        BY <1>1, <3>1, PoppedOrder, UnsplitBeforePost
      <4>5. best # None /\ best.split = "DONT" /\ best.cost = splitCost["DONT"]
        BY <2>1, <4>4 DEF OrderInv, UnsplitKept
      <4> QED BY <1>1, <3>1, <4>3, <4>5
    <3>2. CASE Mode # "POST_DONT_SPLIT"
      <4>1. ~Holds(modes, "POST_DONT_SPLIT") /\ stored' = stored
        BY <1>1, <2>1, <3>2, PoppedOrder
      <4> QED BY <2>1, <4>1 DEF OrderInv, UnsplitKept
    <3> QED BY <3>1, <3>2
  <2> QED BY <1>1, <2>1 DEF OrderInv, UnsplitKept
<1> QED BY <1>1, <1>2, <1>3, PoppedKeepsOrder DEF OrderInv

(* An unsplit mode is tested before, *)
LEMMA TestUnsplitOrder ==
  ASSUME IInv, OrderInv, TestUnsplit
  PROVE  OrderInv'
<1>1. /\ phase = "test" /\ Mode \in Unsplit /\ phase' = "try" /\ modes' = Popped
      /\ tested' = tested \cup {Mode} /\ UNCHANGED <<node, facts, stored>>
      /\ splitCost' = [splitCost EXCEPT !["DONT"] = best'.cost]
  BY DEF TestUnsplit, Tested
<1>2. modes # <<>>
  BY <1>1 DEF IInv, TestAdmissible
<1>3. PICK cost \in 1..MaxCost, cbf \in BOOLEAN :
        best' = Cheaper(best, [cost |-> cost, split |-> "DONT", bt |-> node.bt,
                               lastBt |-> node.bt, cbf |-> cbf])
  BY DEF TestUnsplit
<1> DEFINE b == [cost |-> cost, split |-> "DONT", bt |-> node.bt, lastBt |-> node.bt, cbf |-> cbf]
<1>4. b \in Coding /\ b.split = "DONT" /\ b.cost \in 1..MaxCost
  BY CostType DEF IInv, TypeOK, Node, Coding, Classes
<1> HIDE DEF b
<1>5. best' = Cheaper(best, b)
  BY <1>3 DEF b
<1>6. Holds(modes, "POST_DONT_SPLIT") /\ Holds(Popped, "POST_DONT_SPLIT")
  <2>1. Len(modes) \in Nat \ {0}
    BY <1>2 DEF IInv, TypeOK
  <2>2. modes[Len(modes)] \in Unsplit
    BY <1>1 DEF Mode
  <2>3. PICK j \in 1..(Len(modes) - 1) : modes[j] = "POST_DONT_SPLIT"
    BY <2>1, <2>2 DEF OrderInv, StoresAfter
  <2>4. Holds(modes, "POST_DONT_SPLIT")
    BY <2>1, <2>3 DEF Holds
  <2>5. Mode # "POST_DONT_SPLIT"
    BY <1>1 DEF Unsplit
  <2> QED BY <1>2, <2>4, <2>5, PoppedOrder
<1>7. tested \cap Splits = {} /\ best.split = "DONT"
  BY <1>6, UnsplitBeforePost DEF OrderInv, UnsplitKept
<1>8. best'.split = "DONT" /\ best'.cost <= b.cost /\ best' \in Coding
  BY <1>4, <1>5, <1>7, CheaperLeast DEF IInv, TypeOK
<1>9. best' # None
  <2>1. best'.cost < NoCost
    BY <1>4, <1>8, BoundsAssumption DEF NoCost, Coding
  <2> QED BY <2>1, CostType DEF None
<1>10. splitCost'["DONT"] = best'.cost
  BY <1>1 DEF IInv, TypeOK
<1>11. UnsplitKept'
  BY <1>1, <1>6, <1>8, <1>9, <1>10 DEF UnsplitKept
<1>12. IntraAsked'
  BY <1>1 DEF OrderInv, IntraAsked, ForcedQt
<1> QED BY <1>1, <1>2, <1>11, <1>12, PoppedKeepsOrder DEF OrderInv

(* a split after it. *)
LEMMA TestSplitOrder ==
  ASSUME IInv, OrderInv, TestSplit \/ GiveUpSplit
  PROVE  OrderInv'
<1>1. /\ phase = "test" /\ Mode \in Splits /\ phase' # "init" /\ phase' # "test" /\ modes' = Popped
      /\ tested' = tested \cup {Mode} /\ UNCHANGED <<node, facts, stored>>
  BY DEF TestSplit, GiveUpSplit, Tested
<1>2. splitCost'["DONT"] = splitCost["DONT"]
  <2>1. Mode # "DONT"
    BY <1>1 DEF Splits
  <2> QED BY <2>1 DEF TestSplit, GiveUpSplit, IInv, TypeOK
<1>3. modes # <<>>
  BY <1>1 DEF IInv, TestAdmissible
<1>4. Mode # "POST_DONT_SPLIT" /\ Mode # "INTRA"
  BY <1>1 DEF Splits
<1>5. Holds(modes', "POST_DONT_SPLIT") <=> Holds(modes, "POST_DONT_SPLIT")
  BY <1>1, <1>3, <1>4, PoppedOrder
<1>6. UnsplitKept'
  BY <1>1, <1>2, <1>4, <1>5 DEF OrderInv, UnsplitKept
<1>7. IntraAsked'
  BY <1>1, <1>4 DEF OrderInv, IntraAsked, ForcedQt
<1> QED BY <1>1, <1>3, <1>6, <1>7, PoppedKeepsOrder DEF OrderInv

(* The order is kept. *)
LEMMA NextOrder == IInv /\ OrderInv /\ [Next]_vars => OrderInv'
<1> SUFFICES ASSUME IInv, OrderInv, [Next]_vars PROVE OrderInv'
  OBVIOUS
<1>1. CASE Finish \/ UNCHANGED vars
  <2>1. /\ UNCHANGED <<node, facts, modes, tested, best, stored, splitCost>>
        /\ phase' = phase \/ phase' = "done"
    BY <1>1 DEF Finish, vars
  <2>2. InTurn(facts, modes)' /\ StoresAfter(modes)' /\ TestedBefore' /\ UnsplitKept'
    BY <2>1 DEF OrderInv, InTurn, StoresAfter, TestedBefore, UnsplitKept, Turn, Holds
  <2>3. IntraAsked'
    BY <2>1 DEF OrderInv, IntraAsked, ForcedQt, Mode
  <2> QED BY <2>1, <2>2, <2>3 DEF OrderInv
<1> QED BY <1>1, InitCULevelOrder, AcceptOrder, RefuseOrder, TestUnsplitOrder, TestSplitOrder DEF Next

(* The modes have their turns in order throughout the search. *)
THEOREM OrderInvariance == Spec => []OrderInv
  BY InitOrder, NextOrder, Invariance, PTL DEF Spec

(* A ternary split is tested only when the turn of both binary splits is   *)
(* over, so that its skip rules read costs and marks that are final.       *)
THEOREM BinaryIsFirst == Spec => []BinaryFirst
<1>1. IInv /\ OrderInv => BinaryFirst
  <2> SUFFICES ASSUME OrderInv, tested \cap {"TRIH", "TRIV"} # {}, NEW i \in 1..Len(modes)
               PROVE  modes[i] \notin {"HORZ", "VERT"}
    BY DEF BinaryFirst
  <2>1. PICK t \in tested : t \in {"TRIH", "TRIV"}
    OBVIOUS
  <2>2. Turn(facts, modes[i]) < Turn(facts, t)
    BY DEF OrderInv, TestedBefore
  <2> QED BY <2>1, <2>2, TurnFacts
<1> QED BY <1>1, Invariance, OrderInvariance, PTL

(* Before a split is tested, POST_DONT_SPLIT has put the intra coding of   *)
(* the unit, if it was tested, into the cache, at the cost the ternary rule *)
(* reads for the unsplit unit.                                             *)
THEOREM StoredIsFirst == Spec => []StoredFirst
<1>1. IInv /\ OrderInv => StoredFirst
  BY UnsplitBeforePost DEF OrderInv, UnsplitKept, StoredFirst
<1> QED BY <1>1, Invariance, OrderInvariance, PTL

-----------------------------------------------------------------------------
(* A mode that can be coded waits in the queue *)

(* A new coding is better than none. *)
LEMMA CheaperIsCoding ==
  ASSUME IInv, NEW b \in Coding, b.cost \in 1..MaxCost
  PROVE  Cheaper(best, b) # None
<1>1. best \in Coding /\ Cheaper(best, b).cost <= b.cost
  BY CheaperLeast DEF IInv, TypeOK
<1>2. Cheaper(best, b).cost < NoCost
  <2>1. Cheaper(best, b).cost \in Nat
    BY <1>1, CheaperLeast, CostType DEF Coding
  <2> QED BY <1>1, <2>1, BoundsAssumption DEF NoCost
<1> QED BY <1>2, CostType DEF None

(* Each test that codes the unit leaves a coding. *)
LEMMA TestedIsCoded ==
  ASSUME IInv, TestUnsplit \/ TestSplit
  PROVE  best' # None
<1>1. CASE TestUnsplit
  <2>1. PICK cost \in 1..MaxCost, cbf \in BOOLEAN :
          best' = Cheaper(best, [cost |-> cost, split |-> "DONT", bt |-> node.bt,
                                 lastBt |-> node.bt, cbf |-> cbf])
    BY <1>1 DEF TestUnsplit
  <2> DEFINE b == [cost |-> cost, split |-> "DONT", bt |-> node.bt, lastBt |-> node.bt, cbf |-> cbf]
  <2>2. b \in Coding /\ b.cost \in 1..MaxCost
    BY CostType DEF IInv, TypeOK, Node, Coding, Classes
  <2> HIDE DEF b
  <2>3. best' = Cheaper(best, b)
    BY <2>1 DEF b
  <2> QED BY <2>2, <2>3, CheaperIsCoding
<1>2. CASE TestSplit
  <2>1. PICK cost \in 1..MaxCost, more \in 0..1, lastMore \in 0..1, cbf \in BOOLEAN :
          best' = Cheaper(best, [cost |-> cost, split |-> Mode, bt |-> PartBt(Mode) + more,
                                 lastBt |-> PartBt(Mode) + lastMore, cbf |-> cbf])
    BY <1>2 DEF TestSplit
  <2> DEFINE b == [cost |-> cost, split |-> Mode, bt |-> PartBt(Mode) + more,
                   lastBt |-> PartBt(Mode) + lastMore, cbf |-> cbf]
  <2>2. Mode \in Splits /\ PartBt(Mode) \in Nat
    <3>1. Mode \in Splits
      BY <1>2 DEF TestSplit
    <3>2. PartBt(Mode) \in Nat
      BY DEF IInv, TypeOK, Node, PartBt
    <3> QED BY <3>1, <3>2
  <2>3. b \in Coding /\ b.cost \in 1..MaxCost
    BY <2>2, CostType DEF Coding, Classes
  <2> HIDE DEF b
  <2>4. best' = Cheaper(best, b)
    BY <2>1 DEF b
  <2> QED BY <2>3, <2>4, CheaperIsCoding
<1> QED BY <1>1, <1>2

(* The rules of tryMode read the unit, the facts and what is rejected; those for the *)
(* unsplit modes read nothing else.                                                  *)
LEMMA RulesStable ==
  ASSUME UNCHANGED <<node, facts, rejected>>, NEW m
  PROVE  /\ CommonRule(m)' = CommonRule(m)
         /\ Certain(m)' = Certain(m)
         /\ m \in Unsplit => Accepted(m)' = Accepted(m)
         /\ StaysUnsplit' = StaysUnsplit
<1>1. CommonRule(m)' = CommonRule(m)
  BY DEF CommonRule, Before, MandatoryRule, PolicyRule, ReuseRule, DepthRule, ForcedQt, ClassOf
<1>2. Certain(m)' = Certain(m) /\ StaysUnsplit' = StaysUnsplit
  BY <1>1 DEF Certain, StaysUnsplit, ForcedQt
<1>3. m \in Unsplit => Accepted(m)' = Accepted(m)
  BY <1>1 DEF Accepted, Unsplit, Splits
<1> QED BY <1>1, <1>2, <1>3

(* A unit that may stay unsplit can be coded unsplit, anew or from the cache. *)
LEMMA UnsplitAccepted ==
  node \in Nodes /\ StaysUnsplit =>
    /\ facts.reuse => Accepted("RECO_CACHED") /\ Certain("RECO_CACHED")
    /\ ~facts.reuse => Accepted("INTRA") /\ Certain("INTRA")
<1> SUFFICES ASSUME node \in Nodes, StaysUnsplit
             PROVE  /\ facts.reuse => Accepted("RECO_CACHED") /\ Certain("RECO_CACHED")
                    /\ ~facts.reuse => Accepted("INTRA") /\ Certain("INTRA")
  OBVIOUS
<1>1. node.implicit = "DONT" /\ ~node.big
  BY NodesAssumption DEF StaysUnsplit
<1>2. /\ ClassOf("INTRA") = "DONT" /\ ClassOf("RECO_CACHED") = "DONT"
      /\ "DONT" \notin rejected /\ ~ForcedQt(node)
  BY DEF ClassOf, Splits, StaysUnsplit
<1>3. \A m \in {"INTRA", "RECO_CACHED"} : MandatoryRule(m) = "ask" /\ PolicyRule(m) = "ask"
  BY <1>1, <1>2 DEF MandatoryRule, PolicyRule
<1>4. CASE facts.reuse
  <2>1. CommonRule("RECO_CACHED") = "accept"
    BY <1>3, <1>4 DEF CommonRule, Before, ReuseRule
  <2> QED BY <1>4, <2>1 DEF Accepted, Certain
<1>5. CASE ~facts.reuse
  <2>1. CommonRule("INTRA") = "ask"
    BY <1>2, <1>3, <1>5 DEF CommonRule, Before, ReuseRule, DepthRule
  <2> QED BY <1>1, <1>5, <2>1 DEF Accepted, Certain
<1> QED BY <1>4, <1>5

(* and so it can after a step. *)
LEMMA UnsplitAcceptedNext ==
  (node \in Nodes /\ StaysUnsplit =>
    /\ facts.reuse => Accepted("RECO_CACHED") /\ Certain("RECO_CACHED")
    /\ ~facts.reuse => Accepted("INTRA") /\ Certain("INTRA"))'
  BY UnsplitAccepted, PTL

(* A mode that stays in the queue when the one on top leaves it. *)
LEMMA StillQueued ==
  ASSUME IInv, OrderInv, modes # <<>>, NEW i \in 1..Len(modes), modes[i] # Mode
  PROVE  \E j \in 1..Len(Popped) : Popped[j] = modes[i]
<1>1. Holds(modes, modes[i])
  BY DEF Holds
<1>2. Holds(Popped, modes[i])
  BY <1>1, PoppedOrder
<1> QED BY <1>2 DEF Holds

(* Nothing is coded when the search begins. *)
LEMMA InitWaits == Init => WaitInv
  BY DEF Init, WaitInv, UnsplitWaits, Searching

(* As long as a unit that may stay unsplit has no coding, a mode that codes  *)
(* it unsplit waits.                                                       *)
LEMMA NextWaits == IInv /\ OrderInv /\ WaitInv /\ [Next]_vars => WaitInv'
<1> SUFFICES ASSUME IInv, OrderInv, WaitInv, [Next]_vars PROVE WaitInv'
  OBVIOUS
<1>1. CASE InitCULevel
  <2>1. /\ UNCHANGED <<node, facts, best>> /\ phase' = "try" /\ modes' = Queue(node, facts)
        /\ node \in Nodes /\ facts \in Facts
    BY <1>1 DEF InitCULevel, WaitInv, IInv, TypeOK
  <2>2. UnsplitWaits'
    <3> SUFFICES ASSUME StaysUnsplit'
                 PROVE  (\E i \in 1..Len(modes) : modes[i] \in Unsplit /\ Accepted(modes[i]))'
      BY DEF UnsplitWaits
    <3>1. (/\ facts.reuse => Accepted("RECO_CACHED")
           /\ ~facts.reuse => Accepted("INTRA"))'
      BY <2>1, UnsplitAcceptedNext
    <3>2. (facts.reuse => Holds(modes', "RECO_CACHED")) /\ Holds(modes', "INTRA")
      BY <2>1, QueueOrder
    <3> QED BY <2>1, <3>1, <3>2 DEF Holds, Unsplit
  <2> QED BY <2>1, <2>2 DEF WaitInv
<1>2. CASE Refuse
  <2>1. /\ UNCHANGED <<node, facts, best, rejected, phase>> /\ phase = "try" /\ modes # <<>>
        /\ modes' = Popped /\ ~Accepted(Mode)
    BY <1>2 DEF Refuse
  <2>2. UnsplitWaits'
    <3> SUFFICES ASSUME best = None, StaysUnsplit
                 PROVE  (\E i \in 1..Len(modes) : modes[i] \in Unsplit /\ Accepted(modes[i]))'
      BY <2>1, RulesStable DEF UnsplitWaits
    <3>1. PICK i \in 1..Len(modes) : modes[i] \in Unsplit /\ Accepted(modes[i])
      BY <2>1 DEF WaitInv, UnsplitWaits, Searching
    <3>2. PICK j \in 1..Len(modes') : modes'[j] = modes[i]
      BY <2>1, <3>1, StillQueued
    <3> DEFINE m == modes'[j]
    <3>4. m \in Unsplit /\ Accepted(m)
      BY <3>1, <3>2
    <3> HIDE DEF m
    <3>5. \A x \in Unsplit : Accepted(x) => Accepted(x)'
      BY <2>1, RulesStable
    <3> QED BY <3>2, <3>4, <3>5 DEF m
  <2> QED BY <2>1, <2>2 DEF WaitInv
<1>3. CASE GiveUpSplit
  <2>1. /\ UNCHANGED <<node, facts, best, rejected>> /\ phase' \in {"try", "abort"} /\ Mode \in Splits
        /\ modes' = Popped /\ phase = "test" /\ modes # <<>>
    BY <1>3 DEF GiveUpSplit, Tested, IInv, TestAdmissible
  <2>2. UnsplitWaits'
    <3> SUFFICES ASSUME best = None, StaysUnsplit
                 PROVE  (\E i \in 1..Len(modes) : modes[i] \in Unsplit /\ Accepted(modes[i]))'
      BY <2>1, RulesStable DEF UnsplitWaits
    <3>1. PICK i \in 1..Len(modes) : modes[i] \in Unsplit /\ Accepted(modes[i])
      BY <2>1 DEF WaitInv, UnsplitWaits, Searching
    <3>2. modes[i] # Mode
      BY <2>1, <3>1 DEF Unsplit, Splits
    <3>3. PICK j \in 1..Len(modes') : modes'[j] = modes[i]
      BY <2>1, <3>2, StillQueued
    <3> DEFINE m == modes'[j]
    <3>4. m \in Unsplit /\ Accepted(m)
      BY <3>1, <3>3
    <3> HIDE DEF m
    <3>5. \A x \in Unsplit : Accepted(x) => Accepted(x)'
      BY <2>1, RulesStable
    <3> QED BY <3>3, <3>4, <3>5 DEF m
  <2> QED BY <2>1, <2>2 DEF WaitInv
<1>4. CASE TestUnsplit \/ TestSplit
  <2>1. best' # None /\ node' = node /\ phase' = "try"
    BY <1>4, TestedIsCoded DEF TestUnsplit, TestSplit, Tested
  <2> QED BY <2>1 DEF WaitInv, UnsplitWaits
<1>5. CASE Accept \/ Finish \/ UNCHANGED vars
  <2>1. /\ UNCHANGED <<node, facts, modes, best, rejected, splitCost>>
        /\ phase' = phase \/ (phase = "try" /\ phase' \in {"test", "done"})
        /\ phase' = "done" => phase = "done" \/ modes = <<>>
    BY <1>5 DEF Accept, Finish, vars
  <2>2. \A x \in Unsplit : Accepted(x) => Accepted(x)'
    BY <2>1, RulesStable
  <2>3. StaysUnsplit' = StaysUnsplit
    BY <2>1, RulesStable
  <2>4. UnsplitWaits'
    BY <2>1, <2>2, <2>3 DEF WaitInv, UnsplitWaits, Searching
  <2> QED BY <2>1, <2>4 DEF WaitInv
<1> QED BY <1>1, <1>2, <1>3, <1>4, <1>5 DEF Next

(* Until a unit that may stay unsplit is coded, an unsplit mode waits in its *)
(* queue that tryMode cannot refuse. Of other units nothing is said: the   *)
(* texture rule may leave them without a mode.                             *)
THEOREM WaitInvariance == Spec => []WaitInv
  BY InitWaits, NextWaits, Invariance, OrderInvariance, PTL DEF Spec

(* A search ends without a coding only where the unit must be split or the *)
(* policy rejected leaving it unsplit, whatever the other heuristics of    *)
(* tryMode refused and however many splits failed.                         *)
THEOREM NoSplitIsEnough == Spec => []NoSplitSuffices
<1>1. IInv /\ WaitInv => NoSplitSuffices
  <2> SUFFICES ASSUME IInv, WaitInv, phase = "done", best = None, StaysUnsplit PROVE FALSE
    BY DEF NoSplitSuffices, StaysUnsplit
  <2>1. modes = <<>> /\ \E i \in 1..Len(modes) : modes[i] \in Unsplit
    BY DEF WaitInv, UnsplitWaits, Searching
  <2> QED BY <2>1
<1> QED BY <1>1, Invariance, WaitInvariance, PTL

(* While there is no coding, none of the heuristics of tryMode refuses a   *)
(* mode that the common rules leave: each of them compares with a coding.  *)
LEMMA CertainAccepted ==
  ASSUME IInv, ContentBased = FALSE, best = None, Untouched, "QUAD" \notin did, NEW m, Certain(m)
  PROVE  Accepted(m)
<1>1. CASE CommonRule(m) = "ask" /\ m \in node.legal \cap Splits
  <2>1. ~ContentRefuses(m) /\ ~QtPointless /\ ~QtWentDeep
    BY DEF ContentRefuses, QtPointless, QtWentDeep
  <2>2. ASSUME m \in {"TRIH", "TRIV"} PROVE ~TriPointless(m) /\ ~SkipTree(m)
    <3>1. m \in tri /\ ~TriPointless(m)
      BY <2>2 DEF Untouched, TriPointless
    <3>2. splitCost[Along(m)] = NoCost
      BY DEF Along, Untouched, IInv, TypeOK
    <3> QED BY <3>1, <3>2 DEF SkipTree
  <2> QED BY <1>1, <2>1, <2>2 DEF Accepted, SplitRefused
<1> QED BY <1>1 DEF Certain, Accepted

(* initCULevel queues a mode that is certain to be accepted: the split that *)
(* is demanded, the unsplit coding, or a split the policy leaves.          *)
LEMMA SomethingCertain ==
  ASSUME node \in Nodes, facts \in Facts, NEW reached \in SUBSET Classes,
         rejected = IF Eligible(node) THEN Rejected(LegalClasses(node), reached) ELSE {}
  PROVE  \E m : Certain(m) /\ Holds(Queue(node, facts), m)
<1>0. node \in Node /\ node.legal # {} /\ node.legal \subseteq Classes /\ node.implicit \in Classes
  BY NodesAssumption DEF Node
<1>1. CASE node.implicit # "DONT" /\ "QUAD" \in node.legal
  <2>1. CommonRule("QUAD") = "accept"
    BY <1>1 DEF CommonRule, Before, MandatoryRule
  <2> QED BY <2>1, QueueOrder DEF Certain
<1>2. CASE node.implicit # "DONT" /\ "QUAD" \notin node.legal
  <2>1. node.legal = {node.implicit}
    BY <1>0, <1>2, NodesAssumption
  <2>2. node.implicit \in {"HORZ", "VERT", "TRIH", "TRIV"} \cap node.legal
    BY <1>0, <1>2, <2>1 DEF Classes, Splits
  <2>3. CommonRule(node.implicit) = "accept"
    BY <1>2, <2>2 DEF CommonRule, Before, MandatoryRule, ClassOf, Splits
  <2> QED BY <2>2, <2>3, QueueOrder DEF Certain
<1>3. CASE node.implicit = "DONT" /\ ForcedQt(node)
  <2>1. MandatoryRule("QUAD") = "ask" /\ PolicyRule("QUAD") = "ask" /\ ReuseRule("QUAD") = "ask"
    BY <1>3 DEF MandatoryRule, PolicyRule, ReuseRule
  <2>2. CommonRule("QUAD") = "accept"
    BY <1>3, <2>1 DEF CommonRule, Before, DepthRule
  <2> QED BY <2>2, QueueOrder DEF Certain
<1>4. CASE node.implicit = "DONT" /\ ~ForcedQt(node) /\ "DONT" \notin rejected
  <2>1. StaysUnsplit
    BY <1>4, NodesAssumption DEF StaysUnsplit
  <2>2. facts.reuse \in BOOLEAN
    BY DEF Facts
  <2> QED BY <2>1, <2>2, UnsplitAccepted, QueueOrder
<1>5. CASE node.implicit = "DONT" /\ ~ForcedQt(node) /\ "DONT" \in rejected
  <2>1. rejected = Classes \ Allowed(LegalClasses(node), reached)
    BY <1>5 DEF Rejected
  <2>2. "DONT" \in LegalClasses(node)
    BY <1>5, NodesAssumption DEF LegalClasses
  <2>3. /\ Allowed(LegalClasses(node), reached) # {}
        /\ Allowed(LegalClasses(node), reached) \subseteq LegalClasses(node)
    BY <2>2 DEF Allowed
  <2>4. PICK s \in LegalClasses(node) : s \in Allowed(LegalClasses(node), reached)
    BY <2>3
  <2>5. s \in node.legal /\ (s = "QUAD" => ~(node.maxDepth <= node.qt))
    BY <2>4 DEF LegalClasses
  <2>6. s \in Splits /\ s \notin rejected /\ ClassOf(s) = s
    BY <1>0, <1>5, <2>1, <2>4, <2>5 DEF Classes, ClassOf
  <2>7. s \notin {"INTRA", "RECO_CACHED"}
    BY <2>6 DEF Splits
  <2>8. MandatoryRule(s) = "ask" /\ PolicyRule(s) = "ask" /\ ReuseRule(s) = "ask" /\ DepthRule(s) = "ask"
    BY <1>5, <2>5, <2>6, <2>7 DEF MandatoryRule, PolicyRule, ReuseRule, DepthRule
  <2>9. Certain(s)
    BY <2>5, <2>6, <2>8 DEF Certain, CommonRule, Before
  <2>10. s = "QUAD" \/ s \in {"HORZ", "VERT", "TRIH", "TRIV"} \cap node.legal
    BY <2>5, <2>6 DEF Splits
  <2> QED BY <2>9, <2>10, QueueOrder
<1> QED BY <1>1, <1>2, <1>3, <1>4, <1>5

(* The same after a step. *)
LEMMA SomethingCertainNext ==
  (node \in Nodes /\ facts \in Facts
   /\ (\E reached \in SUBSET Classes :
         rejected = IF Eligible(node) THEN Rejected(LegalClasses(node), reached) ELSE {})
   => \E m : Certain(m) /\ Holds(Queue(node, facts), m))'
<1>1. node \in Nodes /\ facts \in Facts
      /\ (\E reached \in SUBSET Classes :
            rejected = IF Eligible(node) THEN Rejected(LegalClasses(node), reached) ELSE {})
      => \E m : Certain(m) /\ Holds(Queue(node, facts), m)
  BY SomethingCertain
<1> QED BY <1>1, PTL

(* Without ContentBasedFastQtbt and while parts can be coded, a mode that  *)
(* is certain to be accepted waits for as long as there is no coding.      *)
LEMMA NextCodingWaits ==
  ASSUME ContentBased = FALSE, PartMayFail = FALSE
  PROVE  IInv /\ OrderInv /\ WaitInv /\ CodingWaits /\ [Next]_vars => CodingWaits'
<1> SUFFICES ASSUME IInv, OrderInv, WaitInv, CodingWaits, [Next]_vars PROVE CodingWaits'
  OBVIOUS
<1>1. CASE InitCULevel
  <2>1. /\ UNCHANGED <<node, facts, best, splitCost>> /\ phase = "init" /\ tri' = {"TRIH", "TRIV"}
        /\ modes' = Queue(node, facts) /\ node \in Nodes /\ facts \in Facts
        /\ did' \subseteq {"HORZ", "VERT"}
    BY <1>1 DEF InitCULevel, WaitInv, IInv, TypeOK, DidAtStart
  <2>2. Untouched'
    BY <2>1 DEF Untouched, WaitInv
  <2>3. (\E reached \in SUBSET Classes :
           rejected = IF Eligible(node) THEN Rejected(LegalClasses(node), reached) ELSE {})'
    BY <1>1 DEF InitCULevel, Eligible, ForcedQt, LegalClasses
  <2>4. (\E m : Certain(m) /\ Holds(Queue(node, facts), m))'
    BY <2>1, <2>3, SomethingCertainNext
  <2>5. (\E i \in 1..Len(modes) : Certain(modes[i]))'
    BY <2>1, <2>4 DEF Holds
  <2> QED BY <2>1, <2>2, <2>5 DEF CodingWaits
<1>2. CASE Refuse
  <2>1. /\ UNCHANGED <<node, facts, best, rejected, phase, tri, splitCost>> /\ phase = "try"
        /\ modes # <<>> /\ modes' = Popped /\ ~Accepted(Mode) /\ did' \subseteq did
    BY <1>2 DEF Refuse
  <2> SUFFICES ASSUME best = None PROVE CodingWaits'
    BY <2>1 DEF CodingWaits
  <2>2. Untouched /\ "QUAD" \notin did
    BY <2>1 DEF CodingWaits, Searching
  <2>3. PICK i \in 1..Len(modes) : Certain(modes[i])
    BY <2>1 DEF CodingWaits, Searching
  <2>4. modes[i] # Mode
    BY <2>1, <2>2, <2>3, CertainAccepted
  <2>5. PICK j \in 1..Len(modes') : modes'[j] = modes[i]
    BY <2>1, <2>4, StillQueued
  <2>6. \A x : Certain(x) => Certain(x)'
    BY <2>1, RulesStable
  <2> DEFINE m == modes'[j]
  <2>7. Certain(m)
    BY <2>3, <2>5
  <2> HIDE DEF m
  <2>8. (\E k \in 1..Len(modes) : Certain(modes[k]))'
    BY <2>5, <2>6, <2>7 DEF m
  <2> QED BY <2>1, <2>2, <2>8 DEF CodingWaits, Untouched
<1>3. CASE GiveUpSplit
  BY <1>3 DEF GiveUpSplit, CodingWaits
<1>4. CASE TestUnsplit \/ TestSplit
  BY <1>4, TestedIsCoded DEF CodingWaits
<1>5. CASE Accept
  BY <1>5 DEF Accept, CodingWaits, Searching, Untouched
<1>6. CASE Finish \/ UNCHANGED vars
  <2>1. /\ UNCHANGED <<node, facts, modes, best, rejected, splitCost, tri, did>>
        /\ phase' = phase \/ (phase = "try" /\ phase' = "done")
    BY <1>6 DEF Finish, vars
  <2>2. \A x : Certain(x) => Certain(x)'
    BY <2>1, RulesStable
  <2> QED BY <2>1, <2>2 DEF CodingWaits, Searching, Untouched
<1> QED BY <1>1, <1>2, <1>3, <1>4, <1>5, <1>6 DEF Next

(* Without ContentBasedFastQtbt, and as long as the parts of its splits can *)
(* be coded, the search of a unit ends with a coding, whatever the policy  *)
(* rejected and whichever heuristics of tryMode applied.                   *)
THEOREM SearchEncodes ==
  ASSUME ContentBased = FALSE, PartMayFail = FALSE
  PROVE  Spec => []Encoded
<1>1. Init => CodingWaits
  BY DEF Init, CodingWaits, Searching
<1>2. IInv /\ OrderInv /\ WaitInv /\ CodingWaits /\ [Next]_vars => CodingWaits'
  BY NextCodingWaits
<1>3. WaitInv /\ CodingWaits => Encoded
  <2> SUFFICES ASSUME WaitInv, CodingWaits, phase = "done", best = None PROVE FALSE
    BY DEF Encoded
  <2>1. modes = <<>> /\ \E i \in 1..Len(modes) : Certain(modes[i])
    BY DEF WaitInv, CodingWaits, Searching
  <2> QED BY <2>1
<1> QED BY <1>1, <1>2, <1>3, Invariance, OrderInvariance, WaitInvariance, PTL DEF Spec

-----------------------------------------------------------------------------
(* The marks of the binary splits *)

(* A marked binary split whose turn comes is tested or loses its mark. *)
LEMMA NextMarks ==
  ASSUME ContentBased = FALSE
  PROVE  IInv /\ OrderInv /\ WaitInv /\ ~ForcedQt(node) /\ MarksInv /\ [Next]_vars => MarksInv'
<1> SUFFICES ASSUME IInv, OrderInv, WaitInv, ~ForcedQt(node), MarksInv, [Next]_vars PROVE MarksInv'
  OBVIOUS
<1> DEFINE Accounted(s, q, t) == s \in t \/ Holds(q, s)
<1>0. ASSUME phase' # "init", \A s \in did' \cap {"HORZ", "VERT"} : Accounted(s, modes', tested'),
             did' \cap {"HORZ", "VERT"} \cap rejected' = {}
      PROVE  MarksInv'
  BY <1>0 DEF MarksInv, DidHonest, Holds
<1>00. phase # "init" => \A s \in did \cap {"HORZ", "VERT"} : Accounted(s, modes, tested) /\ s \notin rejected
  BY DEF MarksInv, DidHonest, Holds
<1>1. CASE InitCULevel
  <2>1. /\ phase' = "try" /\ modes' = Queue(node, facts) /\ facts \in Facts
        /\ did' = (node.legal \cap {"HORZ", "VERT"}) \ rejected'
    BY <1>1 DEF InitCULevel, IInv, TypeOK, DidAtStart
  <2> QED BY <1>0, <2>1, QueueOrder
<1>2. CASE Refuse
  <2>1. /\ UNCHANGED <<node, facts, rejected, phase, tested>> /\ phase = "try" /\ modes # <<>>
        /\ modes' = Popped /\ ~Accepted(Mode) /\ did' \subseteq did
        /\ CommonRule(Mode) = "ask" /\ Mode \in Splits /\ Mode # "QUAD" /\ QtWentDeep /\ ~ContentRefuses(Mode)
             => did' = did \ {Mode}
    BY <1>2 DEF Refuse
  <2>2. ASSUME Mode \in did \cap {"HORZ", "VERT"} PROVE did' = did \ {Mode}
    <3>1. Mode \in Splits \ {"QUAD"} /\ ClassOf(Mode) = Mode /\ Mode \notin rejected
      BY <1>00, <2>1, <2>2 DEF Splits, ClassOf
    <3>2. Mode \in node.legal
      <4>1. modes \in Seq(Fit(node))
        BY DEF IInv, QueueLegal
      <4>2. Mode \in Fit(node)
        BY <2>1, <4>1, PoppedFits
      <4> QED BY <3>1, <4>2 DEF Fit
    <3>3. node.implicit = "DONT"
      <4> SUFFICES ASSUME node.implicit # "DONT" PROVE FALSE
        OBVIOUS
      <4>1. Mode = node.implicit
        BY <3>1, <3>2, NodesAssumption DEF WaitInv
      <4>2. CommonRule(Mode) = "accept"
        BY <3>1, <4>1 DEF CommonRule, Before, MandatoryRule
      <4> QED BY <2>1, <4>2 DEF Accepted
    <3>4. /\ MandatoryRule(Mode) = "ask" /\ PolicyRule(Mode) = "ask" /\ ReuseRule(Mode) = "ask"
          /\ DepthRule(Mode) = "ask"
      BY <2>2, <3>1, <3>3 DEF MandatoryRule, PolicyRule, ReuseRule, DepthRule
    <3>5. CommonRule(Mode) = "ask"
      BY <3>4 DEF CommonRule, Before
    <3>6. ~ContentRefuses(Mode) /\ SplitRefused(Mode)
      BY <2>1, <3>1, <3>5 DEF ContentRefuses, Accepted
    <3>7. QtWentDeep
      BY <2>2, <3>2, <3>6 DEF SplitRefused
    <3> QED BY <2>1, <3>1, <3>5, <3>6, <3>7
  <2>3. ASSUME NEW s \in did' \cap {"HORZ", "VERT"} PROVE Accounted(s, modes', tested')
    <3>1. s # Mode /\ s \in did
      BY <2>1, <2>2, <2>3
    <3>2. Accounted(s, modes, tested)
      BY <1>00, <2>1, <2>3, <3>1
    <3> QED BY <2>1, <3>1, <3>2, PoppedOrder
  <2> QED BY <1>0, <1>00, <2>1, <2>3
<1>3. CASE TestUnsplit \/ TestSplit \/ GiveUpSplit
  <2>1. /\ UNCHANGED <<did, rejected>> /\ phase = "test" /\ phase' \in {"try", "abort"}
        /\ modes' = Popped /\ tested' = tested \cup {Mode}
    BY <1>3 DEF TestUnsplit, TestSplit, GiveUpSplit, Tested
  <2>2. modes # <<>>
    BY <2>1 DEF IInv, TestAdmissible
  <2>3. \A s \in did' \cap {"HORZ", "VERT"} : Accounted(s, modes', tested')
    BY <1>00, <2>1, <2>2, PoppedOrder
  <2> QED BY <1>0, <1>00, <2>1, <2>3
<1>4. CASE Accept \/ Finish
  <2>1. /\ UNCHANGED <<modes, tested, rejected>> /\ phase = "try" /\ phase' \in {"test", "done"}
        /\ did' \subseteq did \cup {"QUAD"}
    BY <1>4 DEF Accept, Finish
  <2> QED BY <1>0, <1>00, <2>1
<1>5. CASE UNCHANGED vars
  BY <1>5 DEF vars, MarksInv, DidHonest
<1> QED BY <1>1, <1>2, <1>3, <1>4, <1>5 DEF Next

(* Without ContentBasedFastQtbt, a DID mark left on a binary split whose   *)
(* turn is over means that it was tested.  Where a quad split is forced,   *)
(* every other split is refused with its mark left, and no rule reads it.  *)
THEOREM MarksAreHonest ==
  ASSUME ContentBased = FALSE
  PROVE  Spec => [](~ForcedQt(node) => DidHonest)
<1> DEFINE M == ~ForcedQt(node) => MarksInv
<1>1. Init => M
  BY DEF Init, MarksInv, DidHonest
<1>2. IInv /\ OrderInv /\ WaitInv /\ M /\ [Next]_vars => M'
  <2> SUFFICES ASSUME IInv, OrderInv, WaitInv, M, [Next]_vars, ~ForcedQt(node)' PROVE MarksInv'
    OBVIOUS
  <2>1. ~ForcedQt(node)
    BY DEF Next, vars, InitCULevel, Accept, Refuse, Finish, TestUnsplit, GiveUpSplit, TestSplit,
           Tested, ForcedQt
  <2> QED BY <2>1, NextMarks
<1>3. M => (~ForcedQt(node) => DidHonest)
  BY DEF MarksInv
<1> HIDE DEF M
<1> QED BY <1>1, <1>2, <1>3, Invariance, OrderInvariance, WaitInvariance, PTL DEF Spec
=============================================================================
