------------------------- MODULE TrainingDataProofs -------------------------
(* A dump that a reader takes is whole, and the costs that training loads   *)
(* are those of its samples, for any lists of videos, any number of parts   *)
(* and any number of restarts.                                              *)
EXTENDS TrainingData, TLAPS, FiniteSetTheorems, NaturalsInduction, WellFoundedInduction

(* The files and the place of one batch, in the invariant and after a step. *)
LEMMA BatchType ==
  ASSUME DumpInv, NEW b \in DOMAIN Lists
  PROVE  /\ batch[b] \in [step : Steps, nth : Nat, lines : Nat]
         /\ batch[b].nth \in DOMAIN Lists[b]
         /\ Video(b) \in Range(Lists[b])
<1>1. batch[b] \in [step : Steps, nth : Nat, lines : Nat] /\ batch[b].nth \in DOMAIN Lists[b]
  BY DEF DumpInv, DumpsTyped
<1> QED BY <1>1 DEF Video, Range

(* Batches that run side by side are at different videos. *)
LEMMA VideosApart ==
  ASSUME DumpInv, NEW b \in DOMAIN Lists, NEW c \in DOMAIN Lists, b # c
  PROVE  Video(b) # Video(c)
BY BatchType, VideosAssumption

(* A batch begins with the first video of its list. *)
LEMMA FirstVideo ==
  ASSUME NEW b \in DOMAIN Lists
  PROVE  1 \in DOMAIN Lists[b] /\ Len(Lists[b]) \in Nat /\ DOMAIN Lists[b] = 1..Len(Lists[b])
<1>1. Lists[b] \in Seq(Range(Lists[b])) /\ Lists[b] # <<>>
  BY VideosAssumption
<1> QED BY <1>1

(* A dump begins empty, and can take one row more until it is whole. *)
LEMMA OneRowMore ==
  /\ <<>> \in Begun
  /\ \A dump \in Begun : dump # WholeDump => SubSeq(WholeDump, 1, Len(dump) + 1) \in Begun
<1>1. Leaves + 1 \in Nat /\ \A i \in 1..(Leaves + 1) : (IF i <= Leaves THEN i ELSE 0) \in Nodes
  BY ListsAssumption DEF Nodes
<1>2. WholeDump \in [1..(Leaves + 1) -> Nodes]
  BY <1>1 DEF WholeDump
<1>3. WholeDump \in Seq(Nodes) /\ Len(WholeDump) = Leaves + 1
  BY <1>1, <1>2
<1>4. SubSeq(WholeDump, 1, Leaves + 1) = WholeDump
  BY <1>1, <1>3
<1>5. <<>> \in Begun
  <2>1. SubSeq(WholeDump, 1, 0) = <<>> /\ 0 \in 0..(Leaves + 1)
    BY <1>1, <1>3
  <2> QED BY <2>1 DEF Begun
<1>6. ASSUME NEW dump \in Begun, dump # WholeDump
      PROVE  SubSeq(WholeDump, 1, Len(dump) + 1) \in Begun
  <2>1. PICK n \in 0..(Leaves + 1) : dump = SubSeq(WholeDump, 1, n)
    BY DEF Begun
  <2>2. n + 1 \in 0..(Leaves + 1)
    BY <1>1, <1>4, <1>6, <2>1
  <2>3. Len(dump) = n
    BY <1>1, <1>3, <2>1
  <2> QED BY <2>2, <2>3 DEF Begun
<1> QED BY <1>5, <1>6

(* Nothing is marked and no batch has begun. *)
LEMMA InitDumps == Init => DumpInv
<1> SUFFICES ASSUME Init PROVE DumpInv
  OBVIOUS
<1>1. \A b \in DOMAIN Lists : batch[b] = Stopped
  BY DEF Init
<1>2. DumpsTyped
  <2>1. dumps \in [DOMAIN dumps -> Begun]
    BY DEF Init, None
  <2> QED BY <1>1, <2>1, FirstVideo DEF Init, DumpsTyped, Begun, Stopped, Steps
<1>3. MarkedWhole
  BY DEF Init, MarkedWhole
<1>4. ASSUME NEW b \in DOMAIN Lists PROVE MarkInTurn(b)
  <2>1. batch[b].step = "stopped"
    BY <1>1 DEF Stopped
  <2> QED BY <2>1 DEF MarkInTurn, At
<1> QED BY <1>2, <1>3, <1>4 DEF DumpInv

(* A batch that goes to a step where nothing is asked of its video, and leaves the files *)
(* alone, keeps the invariant: Start, Stop, DecodeLeaf, NextVideo and EndEncode.         *)
LEMMA PlaceOnly ==
  ASSUME DumpInv, NEW b \in DOMAIN Lists,
         NEW place \in [step : {"stopped", "clear", "decode"}, nth : Nat, lines : Nat],
         place.nth \in DOMAIN Lists[b],
         batch' = [batch EXCEPT ![b] = place], UNCHANGED <<dumps, done>>
  PROVE  DumpInv'
<1>1. \A c \in DOMAIN Lists : batch'[c] = IF c = b THEN place ELSE batch[c]
  BY DEF DumpInv, DumpsTyped
<1>2. DumpsTyped'
  <2>1. place \in [step : Steps, nth : Nat, lines : Nat]
    BY DEF Steps
  <2> QED BY <1>1, <2>1 DEF DumpInv, DumpsTyped
<1>3. MarkedWhole'
  BY DEF DumpInv, MarkedWhole, WholeDump
<1>4. ASSUME NEW c \in DOMAIN Lists PROVE MarkInTurn(c)'
  <2>1. CASE c = b
    <3>1. batch'[c].step \in {"stopped", "clear", "decode"}
      BY <1>1, <2>1
    <3> QED BY <3>1 DEF MarkInTurn, At
  <2>2. CASE c # b
    <3>1. batch'[c] = batch[c] /\ Video(c)' = Video(c)
      BY <1>1, <2>2 DEF Video
    <3> QED BY <3>1 DEF DumpInv, MarkInTurn, At, WholeDump
  <2> QED BY <2>1, <2>2
<1> QED BY <1>2, <1>3, <1>4 DEF DumpInv

(* rm -f of the dump *)
LEMMA ClearDumpKeeps ==
  ASSUME DumpInv, NEW b \in DOMAIN Lists, ClearDump(b)
  PROVE  DumpInv'
<1>1. /\ batch' = [batch EXCEPT ![b].step = "clear mark"] /\ done' = done
      /\ dumps' = [v \in DOMAIN dumps \ {Video(b)} |-> dumps[v]]
  BY DEF ClearDump, Goto
<1>2. DumpsTyped'
  BY <1>1 DEF DumpInv, DumpsTyped, Steps
<1>3. MarkedWhole'
  BY <1>1 DEF DumpInv, MarkedWhole, WholeDump
<1>4. ASSUME NEW c \in DOMAIN Lists PROVE MarkInTurn(c)'
  <2>1. CASE c = b
    BY <1>1, <2>1 DEF DumpInv, DumpsTyped, MarkInTurn, At, Video
  <2>2. CASE c # b
    <3>1. Video(c)' = Video(c) /\ Video(c) # Video(b) /\ batch'[c] = batch[c]
      BY <1>1, <2>2, VideosApart DEF DumpInv, DumpsTyped, Video
    <3> QED BY <1>1, <3>1 DEF DumpInv, MarkInTurn, At, WholeDump
  <2> QED BY <2>1, <2>2
<1> QED BY <1>2, <1>3, <1>4 DEF DumpInv

(* and of the mark *)
LEMMA ClearMarkKeeps ==
  ASSUME DumpInv, NEW b \in DOMAIN Lists, ClearMark(b)
  PROVE  DumpInv'
<1>1. batch' = [batch EXCEPT ![b].step = "open"] /\ dumps' = dumps /\ done' = done \ {Video(b)}
  BY DEF ClearMark, Goto, MarkCleared
<1>2. DumpsTyped'
  BY <1>1 DEF DumpInv, DumpsTyped, Steps
<1>3. MarkedWhole'
  BY <1>1 DEF DumpInv, MarkedWhole, WholeDump
<1>4. ASSUME NEW c \in DOMAIN Lists PROVE MarkInTurn(c)'
  <2>1. CASE c = b
    BY <1>1, <2>1 DEF DumpInv, DumpsTyped, MarkInTurn, At, Video
  <2>2. CASE c # b
    <3>1. Video(c)' = Video(c) /\ Video(c) # Video(b) /\ batch'[c] = batch[c]
      BY <1>1, <2>2, VideosApart DEF DumpInv, DumpsTyped, Video
    <3> QED BY <1>1, <3>1 DEF DumpInv, MarkInTurn, At, WholeDump
  <2> QED BY <2>1, <2>2
<1> QED BY <1>2, <1>3, <1>4 DEF DumpInv

(* The encoder opens a dump that is not marked, *)
LEMMA OpenDumpKeeps ==
  ASSUME DumpInv, NEW b \in DOMAIN Lists, OpenDump(b)
  PROVE  DumpInv'
<1>1. /\ batch' = [batch EXCEPT ![b].step = "encode"] /\ done' = done
      /\ dumps' = [v \in DOMAIN dumps \cup {Video(b)} |-> IF v = Video(b) THEN <<>> ELSE dumps[v]]
  BY DEF OpenDump, Goto
<1>2. Video(b) \notin done
  BY DEF OpenDump, DumpInv, MarkInTurn
<1>3. DumpsTyped'
  <2>1. \A v \in DOMAIN dumps' : dumps'[v] \in Begun
    BY <1>1, OneRowMore DEF DumpInv, DumpsTyped, Begun
  <2> QED BY <1>1, <2>1 DEF DumpInv, DumpsTyped, Begun, WholeDump, Steps
<1>4. MarkedWhole'
  BY <1>1, <1>2 DEF DumpInv, MarkedWhole, WholeDump
<1>5. ASSUME NEW c \in DOMAIN Lists PROVE MarkInTurn(c)'
  <2>1. CASE c = b
    BY <1>1, <1>2, <2>1 DEF DumpInv, DumpsTyped, MarkInTurn, At, Video
  <2>2. CASE c # b
    <3>1. Video(c)' = Video(c) /\ Video(c) # Video(b) /\ batch'[c] = batch[c]
      BY <1>1, <2>2, VideosApart DEF DumpInv, DumpsTyped, Video
    <3> QED BY <1>1, <3>1 DEF DumpInv, MarkInTurn, At, WholeDump
  <2> QED BY <2>1, <2>2
<1> QED BY <1>3, <1>4, <1>5 DEF DumpInv

(* writes to it *)
LEMMA EncodeNodeKeeps ==
  ASSUME DumpInv, NEW b \in DOMAIN Lists, EncodeNode(b)
  PROVE  DumpInv'
<1> DEFINE more == SubSeq(WholeDump, 1, Len(dumps[Video(b)]) + 1)
<1>1. batch' = batch /\ done' = done /\ dumps' = [dumps EXCEPT ![Video(b)] = more]
  BY DEF EncodeNode
<1>2. Video(b) \notin done /\ Video(b) \in DOMAIN dumps /\ At(b, "encode")
  BY DEF EncodeNode, DumpInv, MarkInTurn
<1>3. DumpsTyped'
  <2>1. dumps \in [DOMAIN dumps -> Begun]
    BY DEF DumpInv, DumpsTyped, Begun
  <2>2. more \in Begun
    BY <1>2, <2>1, OneRowMore DEF EncodeNode
  <2> HIDE DEF more
  <2>3. dumps' \in [DOMAIN dumps -> Begun] /\ DOMAIN dumps' = DOMAIN dumps
    BY <1>1, <2>1, <2>2
  <2> QED BY <1>1, <2>3 DEF DumpInv, DumpsTyped, Begun, WholeDump
<1>4. MarkedWhole'
  BY <1>1, <1>2 DEF DumpInv, MarkedWhole, WholeDump
<1>5. ASSUME NEW c \in DOMAIN Lists PROVE MarkInTurn(c)'
  <2>1. CASE c = b
    BY <1>1, <1>2, <2>1 DEF DumpInv, MarkInTurn, At, Video
  <2>2. CASE c # b
    <3>1. Video(c)' = Video(c) /\ Video(c) # Video(b)
      BY <1>1, <2>2, VideosApart DEF Video
    <3> QED BY <1>1, <3>1 DEF DumpInv, MarkInTurn, At, WholeDump
  <2> QED BY <2>1, <2>2
<1> QED BY <1>3, <1>4, <1>5 DEF DumpInv

(* and closes it when it is whole; *)
LEMMA EndEncodeKeeps ==
  ASSUME DumpInv, NEW b \in DOMAIN Lists, EndEncode(b)
  PROVE  DumpInv'
<1>1. batch' = [batch EXCEPT ![b].step = "mark"] /\ dumps' = dumps /\ done' = done
  BY DEF EndEncode, Goto, files
<1>2. DumpsTyped'
  BY <1>1 DEF DumpInv, DumpsTyped, Steps
<1>3. MarkedWhole'
  BY <1>1 DEF DumpInv, MarkedWhole, WholeDump
<1>4. ASSUME NEW c \in DOMAIN Lists PROVE MarkInTurn(c)'
  <2>1. CASE c = b
    <3>1. At(b, "encode") /\ dumps[Video(b)] = WholeDump /\ MarkInTurn(b)
      BY DEF EndEncode, DumpInv
    <3>2. batch'[b].step = "mark" /\ batch'[b].nth = batch[b].nth
      BY <1>1 DEF DumpInv, DumpsTyped
    <3>3. Video(b)' = Video(b)
      BY <3>2 DEF Video
    <3>4. Video(b) \in DOMAIN dumps
      BY <3>1 DEF MarkInTurn
    <3> QED BY <1>1, <2>1, <3>1, <3>2, <3>3, <3>4 DEF MarkInTurn, At, WholeDump
  <2>2. CASE c # b
    BY <1>1, <2>2 DEF DumpInv, DumpsTyped, MarkInTurn, At, Video, WholeDump
  <2> QED BY <2>1, <2>2
<1> QED BY <1>2, <1>3, <1>4 DEF DumpInv

(* only then it is marked. *)
LEMMA MarkDoneKeeps ==
  ASSUME DumpInv, NEW b \in DOMAIN Lists, MarkDone(b)
  PROVE  DumpInv'
<1>1. batch' = [batch EXCEPT ![b].step = "decode"] /\ dumps' = dumps /\ done' = done \cup {Video(b)}
  BY DEF MarkDone, Goto
<1>2. DumpsTyped'
  BY <1>1 DEF DumpInv, DumpsTyped, Steps
<1>3. dumps[Video(b)] = WholeDump
  BY DEF MarkDone, DumpInv, MarkInTurn
<1>4. MarkedWhole'
  BY <1>1, <1>3 DEF DumpInv, MarkedWhole, WholeDump
<1>5. ASSUME NEW c \in DOMAIN Lists PROVE MarkInTurn(c)'
  <2>1. CASE c = b
    BY <1>1, <2>1 DEF DumpInv, DumpsTyped, MarkInTurn, At, Video
  <2>2. CASE c # b
    <3>1. Video(c)' = Video(c) /\ Video(c) # Video(b) /\ batch'[c] = batch[c]
      BY <1>1, <2>2, VideosApart DEF DumpInv, DumpsTyped, Video
    <3> QED BY <1>1, <3>1 DEF DumpInv, MarkInTurn, At, WholeDump
  <2> QED BY <2>1, <2>2
<1> QED BY <1>2, <1>4, <1>5 DEF DumpInv

(* Every step of a batch keeps the invariant. *)
LEMMA BatchKeeps ==
  ASSUME DumpInv, NEW b \in DOMAIN Lists, BatchStep(b)
  PROVE  DumpInv'
<1>1. CASE Start(b) \/ Stop(b)
  <2>1. PICK step \in {"stopped", "clear"} : batch' = [batch EXCEPT ![b] = [Stopped EXCEPT !.step = step]]
    BY <1>1 DEF Start, Stop, Stopped
  <2>2. UNCHANGED <<dumps, done>>
    BY <1>1 DEF Start, Stop, files
  <2> DEFINE place == [Stopped EXCEPT !.step = step]
  <2>3. place \in [step : {"stopped", "clear", "decode"}, nth : Nat, lines : Nat] /\ place.nth = 1
    BY DEF Stopped
  <2> HIDE DEF place
  <2>4. batch' = [batch EXCEPT ![b] = place]
    BY <2>1 DEF place
  <2> QED BY <2>2, <2>3, <2>4, FirstVideo, PlaceOnly
<1>2. CASE DecodeLeaf(b)
  <2> DEFINE place == [batch[b] EXCEPT !.lines = @ + 1]
  <2>1. UNCHANGED <<dumps, done>> /\ batch' = [batch EXCEPT ![b] = place] /\ batch[b].step = "decode"
    BY <1>2 DEF DecodeLeaf, At
  <2>2. /\ place \in [step : {"stopped", "clear", "decode"}, nth : Nat, lines : Nat]
        /\ place.nth \in DOMAIN Lists[b]
    BY <2>1, BatchType
  <2> HIDE DEF place
  <2> QED BY <2>1, <2>2, PlaceOnly
<1>3. CASE NextVideo(b)
  <2> DEFINE place == IF batch[b].nth = Len(Lists[b]) THEN Stopped
                      ELSE [step |-> "clear", nth |-> batch[b].nth + 1, lines |-> 0]
  <2>1. UNCHANGED <<dumps, done>> /\ batch' = [batch EXCEPT ![b] = place]
    BY <1>3 DEF NextVideo, files
  <2>2. /\ place \in [step : {"stopped", "clear", "decode"}, nth : Nat, lines : Nat]
        /\ place.nth \in DOMAIN Lists[b]
    BY BatchType, FirstVideo DEF Stopped
  <2> HIDE DEF place
  <2> QED BY <2>1, <2>2, PlaceOnly
<1> QED BY <1>1, <1>2, <1>3, ClearDumpKeeps, ClearMarkKeeps, OpenDumpKeeps, EncodeNodeKeeps,
           EndEncodeKeeps, MarkDoneKeeps DEF BatchStep

(* The conversions only read the dumps. *)
LEMMA NextDumps == DumpInv /\ [Next]_vars => DumpInv'
<1> SUFFICES ASSUME DumpInv, [Next]_vars PROVE DumpInv'
  OBVIOUS
<1>1. ASSUME UNCHANGED <<batch, dumps, done>> PROVE DumpInv'
  BY <1>1 DEF DumpInv, DumpsTyped, MarkedWhole, MarkInTurn, At, Video, WholeDump
<1>2. ASSUME NEW v \in Videos, ReadDump(v) PROVE DumpInv'
  BY <1>1, <1>2 DEF ReadDump, files
<1>3. CASE StartTree \/ FillNodes \/ SaveSamples \/ KillJob \/ StartCosts \/ SaveRows \/ SaveSizes
  BY <1>1, <1>3 DEF StartTree, FillNodes, SaveSamples, KillJob, StartCosts, SaveRows, SaveSizes, files
<1>4. CASE UNCHANGED vars
  BY <1>1, <1>4 DEF vars
<1> QED BY <1>2, <1>3, <1>4, BatchKeeps DEF Next

(* Marks and dumps stay together, *)
THEOREM DumpsInvariance == Spec => []DumpInv
  BY InitDumps, NextDumps, PTL DEF Spec

(* so that createDataset.py, which takes a dump by its mark and its size,   *)
(* never reads one that run.sh left unfinished, whatever is killed.         *)
THEOREM DumpsAreWhole == Spec => []TakenWhole
<1>1. DumpInv => TakenWhole
  BY DEF DumpInv, MarkedWhole, TakenWhole, Discovered
<1> QED BY <1>1, DumpsInvariance, PTL

(***************************************************************************)
(* Induction up to a bound                                                 *)
(***************************************************************************)

(* The naturals are well-founded.                                           *)
LEMMA LeastNatural ==
  ASSUME NEW S \in SUBSET Nat, S # {}
  PROVE  \E m \in S : \A n \in S : m <= n
<1>1. PICK m \in S : \A n \in S : <<n, m>> \notin OpToRel(<, Nat)
  BY WFMin, NatLessThanWellFounded
<1>2. \A n \in S : ~(n < m)
  BY <1>1 DEF OpToRel
<1> QED BY <1>2

Reaches(S, n) == 0 \in S /\ \A i \in 0..(n - 1) : i \in S => i + 1 \in S

(* What holds at 0 and goes on from each number below n holds up to n.      *)
LEMMA UpTo ==
  ASSUME NEW n \in Nat, NEW S, Reaches(S, n)
  PROVE  \A i \in 0..n : i \in S
<1> DEFINE T == {i \in 0..n : i \notin S}
<1> SUFFICES ASSUME T # {} PROVE FALSE
  OBVIOUS
<1>1. T \in SUBSET Nat
  OBVIOUS
<1>2. PICK m \in T : \A i \in T : m <= i
  <2> HIDE DEF T
  <2> QED BY <1>1, LeastNatural
<1>3. m \in 1..n /\ m - 1 \in 0..(n - 1) /\ (m - 1) + 1 = m
  BY DEF Reaches
<1>4. m - 1 \in T
  BY <1>3 DEF Reaches
<1> QED BY <1>2, <1>3, <1>4

LEMMA ArrayIsSeq ==
  ASSUME NEW S, NEW n \in Nat, NEW f \in [1..n -> S]
  PROVE  f \in Seq(S) /\ Len(f) = n /\ DOMAIN f = 1..n
OBVIOUS

(***************************************************************************)
(* The nodes of a group                                                    *)
(***************************************************************************)

Rising(seq) == \A i, j \in DOMAIN seq : i < j => seq[i] < seq[j]

LEMMA NodesFinite ==
  ASSUME NEW S \in SUBSET Nodes
  PROVE  IsFiniteSet(S) /\ Cardinality(S) \in Nat
<1>1. IsFiniteSet(Nodes)
  BY FS_Interval, ListsAssumption DEF Nodes
<1>2. IsFiniteSet(S)
  BY <1>1, FS_Subset
<1> QED BY <1>2, FS_CardinalityType

(* Every set of nodes can be put in order.                                  *)
LEMMA OrderExists ==
  ASSUME NEW S \in SUBSET Nodes
  PROVE  \E seq \in [1..Cardinality(S) -> S] : Rising(seq)
<1> DEFINE Good(T) == \E seq \in [1..Cardinality(T) -> T] : Rising(seq)
           Bad == {n \in Nat : \E T \in SUBSET Nodes : Cardinality(T) = n /\ ~Good(T)}
<1> SUFFICES ASSUME ~Good(S) PROVE FALSE
  OBVIOUS
<1> HIDE DEF Good
<1>1. Cardinality(S) \in Bad
  BY NodesFinite
<1> HIDE DEF Bad
<1>2. PICK m \in Bad : \A n \in Bad : m <= n
  BY <1>1, LeastNatural DEF Bad
<1>3. PICK T \in SUBSET Nodes : m \in Nat /\ Cardinality(T) = m /\ ~Good(T)
  BY <1>2 DEF Bad
<1>4. CASE T = {}
  <2>1. m = 0
    BY <1>3, <1>4, FS_EmptySet
  <2> DEFINE seq == [i \in 1..0 |-> 0]
  <2>2. seq \in [1..Cardinality(T) -> T] /\ Rising(seq)
    BY <1>3, <1>4, <2>1 DEF Rising
  <2> QED BY <1>3, <2>2 DEF Good
<1>5. CASE T # {}
  <2>1. T \in SUBSET Nat
    BY ListsAssumption DEF Nodes
  <2>2. PICK x \in T : \A q \in T : x <= q
    BY <1>5, <2>1, LeastNatural
  <2> DEFINE U == T \ {x}
  <2>3. U \in SUBSET Nodes /\ \A q \in U : x < q /\ q \in T
    BY <2>1, <2>2
  <2>4. m - 1 \in Nat /\ Cardinality(U) = m - 1
    <3>1. IsFiniteSet(T)
      BY NodesFinite
    <3>2. Cardinality(T) # 0
      BY <1>5, <3>1, FS_EmptySet
    <3>3. Cardinality(T \ {x}) = Cardinality(T) - 1
      BY <2>2, <3>1, FS_RemoveElement
    <3> QED BY <1>3, <3>2, <3>3
  <2> HIDE DEF U
  <2>5. Good(U)
    <3>1. m - 1 \notin Bad
      BY <1>2, <1>3
    <3> QED BY <2>3, <2>4, <3>1 DEF Bad
  <2>6. PICK seq \in [1..(m - 1) -> U] : Rising(seq)
    BY <2>4, <2>5 DEF Good
  <2> DEFINE e == [i \in 1..m |-> IF i = 1 THEN x ELSE seq[i - 1]]
  <2>7. \A i \in 1..m : i # 1 => i - 1 \in 1..(m - 1) /\ seq[i - 1] \in U
    BY <1>3, <2>6
  <2>8. e \in [1..m -> T]
    BY <2>2, <2>3, <2>7
  <2>9. ASSUME NEW i \in 1..m, NEW j \in 1..m, i < j
        PROVE  e[i] < e[j]
    <3>1. j # 1 /\ j - 1 \in 1..(m - 1) /\ e[j] = seq[j - 1] /\ seq[j - 1] \in U
      BY <1>3, <2>7, <2>9
    <3>2. CASE i = 1
      BY <2>3, <3>1, <3>2
    <3>3. CASE i # 1
      <4>1. i - 1 \in 1..(m - 1) /\ i - 1 < j - 1 /\ e[i] = seq[i - 1]
        BY <1>3, <2>7, <2>9, <3>3
      <4> QED BY <2>6, <3>1, <4>1 DEF Rising
    <3> QED BY <3>2, <3>3
  <2>10. Rising(e)
    <3>1. DOMAIN e = 1..m
      OBVIOUS
    <3> HIDE DEF e
    <3> QED BY <2>9, <3>1 DEF Rising
  <2> HIDE DEF e
  <2> QED BY <1>3, <2>8, <2>10 DEF Good
<1> QED BY <1>4, <1>5

(* A group has one node more than it has leaves, and begins with node 0.    *)
LEMMA GroupNodes ==
  ASSUME NEW group, group.leaves \in SUBSET Nodes
  PROVE  /\ Len(NodesOf(group)) = Cardinality(group.leaves) + 1
         /\ Len(NodesOf(group)) \in Nat \ {0}
         /\ NodesOf(group)[1] = 0
<1> DEFINE S == group.leaves
           seq == InOrder(S)
           n == Cardinality(S)
<1>1. n \in Nat
  BY NodesFinite
<1>2. seq \in [1..n -> S]
  <2>1. seq = CHOOSE q \in [1..n -> S] : Rising(q)
    BY DEF InOrder, Rising
  <2>2. \E q \in [1..n -> S] : Rising(q)
    BY OrderExists
  <2> HIDE DEF seq, n
  <2> QED BY <2>1, <2>2
<1> HIDE DEF seq, n, S
<1>3. seq \in Seq(S) /\ Len(seq) = n
  BY <1>1, <1>2
<1>4. Len(<<0>> \o seq) = n + 1 /\ (<<0>> \o seq)[1] = 0
  BY <1>1, <1>3
<1> QED BY <1>1, <1>4 DEF NodesOf, seq, n, S

(***************************************************************************)
(* Where the nodes of each sample end                                      *)
(***************************************************************************)

SizesOK(samples, n) == n \in Nat /\ \A s \in 1..n : samples[s].size \in Nat \ {0}
IsEnds(ends, samples, n) ==
  ends = [s \in 0..n |-> IF s = 0 THEN 0 ELSE ends[s - 1] + samples[s].size]

LEMMA EndsExist ==
  ASSUME NEW samples, NEW n \in Nat
  PROVE  \E ends : IsEnds(ends, samples, n)
<1> DEFINE S == {m \in 0..n : \E ends : IsEnds(ends, samples, m)}
<1>1. 0 \in S
  <2>1. IsEnds([s \in 0..0 |-> 0], samples, 0)
    BY DEF IsEnds
  <2> QED BY <2>1
<1>2. ASSUME NEW m \in 0..(n - 1), m \in S PROVE m + 1 \in S
  <2>1. PICK v : IsEnds(v, samples, m)
    BY <1>2
  <2> DEFINE w == [s \in 0..(m + 1) |-> IF s <= m THEN v[s] ELSE v[m] + samples[m + 1].size]
  <2>2. IsEnds(w, samples, m + 1)
    <3>1. \A s \in 0..m : v[s] = IF s = 0 THEN 0 ELSE v[s - 1] + samples[s].size
      BY <2>1 DEF IsEnds
    <3>2. \A s \in 0..(m + 1) : w[s] = IF s = 0 THEN 0 ELSE w[s - 1] + samples[s].size
      BY <3>1
    <3>3. w = [s \in 0..(m + 1) |-> w[s]]
      OBVIOUS
    <3> HIDE DEF w
    <3> QED BY <3>2, <3>3 DEF IsEnds
  <2> HIDE DEF w
  <2> QED BY <2>2
<1> HIDE DEF S
<1>3. Reaches(S, n)
  BY <1>1, <1>2 DEF Reaches
<1>4. n \in S
  BY <1>3, UpTo
<1> QED BY <1>4 DEF S

(* The first sample begins at 0, the others where the one before ends.      *)
LEMMA EndsOf ==
  ASSUME NEW samples, Len(samples) \in Nat
  PROVE  /\ Ends(samples)[0] = 0
         /\ \A s \in 1..Len(samples) : Ends(samples)[s] = Ends(samples)[s - 1] + samples[s].size
<1> DEFINE e == CHOOSE v : IsEnds(v, samples, Len(samples))
<1>1. IsEnds(e, samples, Len(samples))
  BY EndsExist
<1>2. Ends(samples) = e
  BY DEF Ends, IsEnds
<1> HIDE DEF e
<1>3. \A s \in 0..Len(samples) : e[s] = IF s = 0 THEN 0 ELSE e[s - 1] + samples[s].size
  BY <1>1 DEF IsEnds
<1> QED BY <1>2, <1>3

(* They end where others end that are as large.                             *)
LEMMA EndsAgree ==
  ASSUME NEW samples, NEW others, NEW n \in Nat, Len(samples) \in Nat, Len(others) \in Nat,
         n <= Len(samples), n <= Len(others), \A s \in 1..n : samples[s].size = others[s].size
  PROVE  Ends(samples)[n] = Ends(others)[n]
<1> DEFINE e == Ends(samples)
           f == Ends(others)
           S == {s \in 0..n : e[s] = f[s]}
<1>1. /\ e[0] = 0 /\ \A s \in 1..n : e[s] = e[s - 1] + samples[s].size
      /\ f[0] = 0 /\ \A s \in 1..n : f[s] = f[s - 1] + others[s].size
  BY EndsOf
<1> HIDE DEF e, f
<1>2. 0 \in S
  BY <1>1
<1>3. ASSUME NEW s \in 0..(n - 1), s \in S PROVE s + 1 \in S
  <2>1. s + 1 \in 1..n /\ s + 1 \in 0..n /\ (s + 1) - 1 = s
    OBVIOUS
  <2>2. e[s + 1] = e[s] + samples[s + 1].size /\ f[s + 1] = f[s] + others[s + 1].size
    BY <1>1, <2>1
  <2>3. e[s] = f[s] /\ samples[s + 1].size = others[s + 1].size
    BY <1>3, <2>1
  <2>4. e[s + 1] = f[s + 1]
    BY <2>2, <2>3
  <2> QED BY <2>1, <2>4
<1> HIDE DEF S
<1>4. Reaches(S, n)
  BY <1>2, <1>3 DEF Reaches
<1>5. n \in S
  BY <1>4, UpTo
<1> QED BY <1>5 DEF S, e, f

(* Each ends behind all before it.                                          *)
LEMMA EndsRise ==
  ASSUME NEW samples, SizesOK(samples, Len(samples))
  PROVE  /\ \A s \in 0..Len(samples) : Ends(samples)[s] \in Nat
         /\ \A s \in 0..Len(samples) : \A t \in 0..(s - 1) : Ends(samples)[t] < Ends(samples)[s]
<1> DEFINE e == Ends(samples)
           n == Len(samples)
           S == {s \in 0..n : e[s] \in Nat /\ \A t \in 0..(s - 1) : e[t] \in Nat /\ e[t] < e[s]}
<1>1. n \in Nat /\ e[0] = 0 /\ \A s \in 1..n : e[s] = e[s - 1] + samples[s].size
  BY EndsOf DEF SizesOK
<1>2. \A s \in 1..n : samples[s].size \in Nat \ {0}
  BY DEF SizesOK
<1> HIDE DEF e, n
<1>3. 0 \in S
  BY <1>1
<1>4. ASSUME NEW s \in 0..(n - 1), s \in S PROVE s + 1 \in S
  <2>1. s + 1 \in 1..n /\ s + 1 \in 0..n /\ (s + 1) - 1 = s
    BY <1>1
  <2>2. e[s + 1] = e[s] + samples[s + 1].size /\ samples[s + 1].size \in Nat \ {0}
    BY <1>1, <1>2, <2>1
  <2>3. e[s] \in Nat /\ \A t \in 0..(s - 1) : e[t] \in Nat /\ e[t] < e[s]
    BY <1>4
  <2>4. e[s + 1] \in Nat /\ e[s] < e[s + 1]
    BY <2>2, <2>3
  <2>5. \A t \in 0..((s + 1) - 1) : t = s \/ t \in 0..(s - 1)
    OBVIOUS
  <2>6. \A t \in 0..((s + 1) - 1) : e[t] \in Nat /\ e[t] < e[s + 1]
    BY <2>3, <2>4, <2>5
  <2> QED BY <2>1, <2>4, <2>6
<1> HIDE DEF S
<1>5. Reaches(S, n)
  BY <1>3, <1>4 DEF Reaches
<1>6. \A s \in 0..n : s \in S
  BY <1>1, <1>5, UpTo
<1> QED BY <1>6 DEF S, e, n

(* The node behind the end of one sample is the first of the next one.      *)
First(samples, s) == Ends(samples)[s - 1] + 1

LEMMA FirstIsOf ==
  ASSUME NEW samples, SizesOK(samples, Len(samples)), DOMAIN samples = 1..Len(samples), NEW s \in DOMAIN samples
  PROVE  /\ First(samples, s) \in 1..Total(samples)
         /\ SampleOf(samples, First(samples, s)) = s
<1> DEFINE e == Ends(samples)
           n == Len(samples)
           i == First(samples, s)
<1>1. n \in Nat /\ DOMAIN samples = 1..n /\ s \in 1..n /\ s - 1 \in 0..n /\ s \in 0..n /\ n \in 0..n
  BY DEF SizesOK
<1>2. \A t \in 0..n : e[t] \in Nat
  BY EndsRise
<1>3. \A t \in 0..n : \A u \in 0..(t - 1) : e[u] < e[t]
  BY EndsRise
<1>4. SampleOf(samples, i) = CHOOSE t \in DOMAIN samples : e[t - 1] < i /\ i <= e[t]
  BY DEF SampleOf
<1>5. i = e[s - 1] + 1 /\ Total(samples) = e[n]
  BY DEF First, Total
<1> HIDE DEF e, n, i
<1>6. e[s - 1] < i /\ i <= e[s]
  <2>1. e[s - 1] < e[s]
    BY <1>1, <1>3
  <2> QED BY <1>1, <1>2, <1>5, <2>1
<1>7. i \in 1..Total(samples)
  <2>1. s = n \/ s \in 0..(n - 1)
    BY <1>1
  <2>2. e[s] <= e[n]
    BY <1>1, <1>2, <1>3, <2>1
  <2> QED BY <1>1, <1>2, <1>5, <1>6, <2>2
<1>8. ASSUME NEW t \in DOMAIN samples, e[t - 1] < i, i <= e[t] PROVE t = s
  <2>1. t \in 1..n /\ t - 1 \in 0..n /\ t \in 0..n
    BY <1>1
  <2>2. CASE t < s
    <3>1. t = s - 1 \/ t \in 0..((s - 1) - 1)
      BY <1>1, <2>1, <2>2
    <3>2. e[t] <= e[s - 1]
      BY <1>1, <1>2, <1>3, <3>1
    <3> QED BY <1>1, <1>2, <1>5, <1>8, <2>1, <3>2
  <2>3. CASE s < t
    <3>1. s = t - 1 \/ s \in 0..((t - 1) - 1)
      BY <1>1, <2>1, <2>3
    <3>2. e[s] <= e[t - 1]
      BY <1>1, <1>2, <1>3, <2>1, <3>1
    <3> QED BY <1>1, <1>2, <1>6, <1>7, <1>8, <2>1, <3>2
  <2> QED BY <1>1, <2>1, <2>2, <2>3
<1>9. SampleOf(samples, i) = s
  BY <1>4, <1>6, <1>8
<1> QED BY <1>7, <1>9 DEF i

(***************************************************************************)
(* Labels and the groups they make up                                      *)
(***************************************************************************)

Lines == [video : Videos, leaf : Nodes]
Group == [video : Videos, leaves : SUBSET Nodes]
GroupSeqs == Seq(Group)
Count(groups) == Total(Samples(groups))

(* g: the groups after 0, 1, ... n lines                                    *)
IsGrouping(g, lines, n) == g = [i \in 0..n |-> IF i = 0 THEN <<>> ELSE AddLine(g[i - 1], lines[i])]
IsGrouped(g, lines, n) == g[0] = <<>> /\ \A i \in 1..n : g[i] = AddLine(g[i - 1], lines[i])

LEMMA GroupingExists ==
  ASSUME NEW lines, NEW n \in Nat
  PROVE  \E g : IsGrouping(g, lines, n)
<1> DEFINE S == {m \in 0..n : \E g : IsGrouping(g, lines, m)}
<1>1. 0 \in S
  <2>1. IsGrouping([i \in 0..0 |-> <<>>], lines, 0)
    BY DEF IsGrouping
  <2> QED BY <2>1
<1>2. ASSUME NEW m \in 0..(n - 1), m \in S PROVE m + 1 \in S
  <2>1. PICK v : IsGrouping(v, lines, m)
    BY <1>2
  <2> DEFINE w == [i \in 0..(m + 1) |-> IF i <= m THEN v[i] ELSE AddLine(v[m], lines[m + 1])]
  <2>2. IsGrouping(w, lines, m + 1)
    <3>1. \A i \in 0..m : v[i] = IF i = 0 THEN <<>> ELSE AddLine(v[i - 1], lines[i])
      BY <2>1 DEF IsGrouping
    <3>2. \A i \in 0..(m + 1) : w[i] = IF i = 0 THEN <<>> ELSE AddLine(w[i - 1], lines[i])
      BY <3>1
    <3>3. w = [i \in 0..(m + 1) |-> w[i]]
      OBVIOUS
    <3> HIDE DEF w
    <3> QED BY <3>2, <3>3 DEF IsGrouping
  <2> HIDE DEF w
  <2> QED BY <2>2
<1> HIDE DEF S
<1>3. Reaches(S, n)
  BY <1>1, <1>2 DEF Reaches
<1>4. n \in S
  BY <1>3, UpTo
<1> QED BY <1>4 DEF S

LEMMA GroupedRun ==
  ASSUME NEW lines, Len(lines) \in Nat
  PROVE  \E g : IsGrouped(g, lines, Len(lines)) /\ GroupsOf(lines) = g[Len(lines)]
<1> DEFINE g == CHOOSE v : IsGrouping(v, lines, Len(lines))
<1>1. IsGrouping(g, lines, Len(lines))
  BY GroupingExists
<1>2. GroupsOf(lines) = g[Len(lines)]
  BY DEF GroupsOf, IsGrouping
<1>3. IsGrouped(g, lines, Len(lines))
  <2> HIDE DEF g
  <2>1. \A i \in 0..Len(lines) : g[i] = IF i = 0 THEN <<>> ELSE AddLine(g[i - 1], lines[i])
    BY <1>1 DEF IsGrouping
  <2> QED BY <2>1 DEF IsGrouped
<1> QED BY <1>2, <1>3

LEMMA GroupingsAgree ==
  ASSUME NEW s, NEW t, NEW n \in Nat, NEW c, NEW d, IsGrouped(c, s, n), IsGrouped(d, t, n),
         \A i \in 1..n : s[i] = t[i]
  PROVE  c[n] = d[n]
<1> DEFINE S == {i \in 0..n : c[i] = d[i]}
<1>1. 0 \in S
  BY DEF IsGrouped
<1>2. ASSUME NEW i \in 0..(n - 1), i \in S PROVE i + 1 \in S
  <2>1. i + 1 \in 1..n /\ i + 1 \in 0..n /\ (i + 1) - 1 = i
    OBVIOUS
  <2>2. c[i + 1] = AddLine(c[i], s[i + 1]) /\ d[i + 1] = AddLine(d[i], t[i + 1])
    BY <2>1 DEF IsGrouped
  <2>3. c[i] = d[i] /\ s[i + 1] = t[i + 1]
    BY <1>2, <2>1
  <2>4. c[i + 1] = d[i + 1]
    BY <2>2, <2>3
  <2> QED BY <2>1, <2>4
<1> HIDE DEF S
<1>3. Reaches(S, n)
  BY <1>1, <1>2 DEF Reaches
<1>4. n \in S
  BY <1>3, UpTo
<1> QED BY <1>4 DEF S

(* Without a line there is no group,                                        *)
LEMMA NoGroups == GroupsOf(<<>>) = <<>>
<1>1. PICK g : IsGrouped(g, <<>>, Len(<<>>)) /\ GroupsOf(<<>>) = g[Len(<<>>)]
  BY GroupedRun
<1> QED BY <1>1 DEF IsGrouped

(* and a line more is added to the groups before it.                        *)
LEMMA GroupsAppend ==
  ASSUME NEW S, NEW lines \in Seq(S), NEW line \in S
  PROVE  GroupsOf(Append(lines, line)) = AddLine(GroupsOf(lines), line)
<1> DEFINE t == Append(lines, line)
           n == Len(lines)
<1>1. n \in Nat /\ Len(t) = n + 1 /\ t[n + 1] = line /\ \A i \in 1..n : t[i] = lines[i]
  OBVIOUS
<1> HIDE DEF t, n
<1>2. PICK c : IsGrouped(c, t, n + 1) /\ GroupsOf(t) = c[n + 1]
  BY <1>1, GroupedRun
<1>3. PICK d : IsGrouped(d, lines, n) /\ GroupsOf(lines) = d[n]
  BY <1>1, GroupedRun DEF n
<1>4. IsGrouped(c, t, n) /\ c[n + 1] = AddLine(c[n], t[n + 1])
  <2>1. n + 1 \in 1..(n + 1) /\ (n + 1) - 1 = n /\ \A i \in 1..n : i \in 1..(n + 1)
    BY <1>1
  <2> QED BY <1>2, <2>1 DEF IsGrouped
<1>5. c[n] = d[n]
  BY <1>1, <1>3, <1>4, GroupingsAgree
<1> QED BY <1>1, <1>2, <1>3, <1>4, <1>5 DEF t

(* The samples of groups: one for each, of at least two nodes or one.       *)
LEMMA SamplesOf ==
  ASSUME NEW groups \in GroupSeqs
  PROVE  /\ Len(groups) \in Nat /\ Len(Samples(groups)) = Len(groups)
         /\ DOMAIN Samples(groups) = 1..Len(groups) /\ DOMAIN groups = 1..Len(groups)
         /\ \A s \in 1..Len(groups) :
              /\ Samples(groups)[s].video = groups[s].video
              /\ Samples(groups)[s].size = Cardinality(groups[s].leaves) + 1
         /\ SizesOK(Samples(groups), Len(groups))
<1> DEFINE n == Len(groups)
           f == Samples(groups)
           T == [video : Videos, size : Nat \ {0}]
<1>1. n \in Nat /\ DOMAIN groups = 1..n /\ \A s \in 1..n : groups[s] \in Group
  BY DEF GroupSeqs
<1>2. \A s \in 1..n : groups[s].video \in Videos /\ groups[s].leaves \in SUBSET Nodes
  BY <1>1 DEF Group
<1>3. \A s \in 1..n : Len(NodesOf(groups[s])) = Cardinality(groups[s].leaves) + 1
                      /\ Len(NodesOf(groups[s])) \in Nat \ {0}
  BY <1>2, GroupNodes
<1>4. f = [s \in 1..n |-> [video |-> groups[s].video, size |-> Len(NodesOf(groups[s]))]]
  BY <1>1 DEF Samples
<1> HIDE DEF n, f
<1>5. f \in [1..n -> T]
  BY <1>2, <1>3, <1>4
<1>6. f \in Seq(T) /\ Len(f) = n /\ DOMAIN f = 1..n
  <2> HIDE DEF T
  <2> QED BY <1>1, <1>5, ArrayIsSeq
<1>7. \A s \in 1..n : f[s].video = groups[s].video /\ f[s].size = Cardinality(groups[s].leaves) + 1
  BY <1>3, <1>4
<1>8. SizesOK(f, n)
  BY <1>1, <1>3, <1>4 DEF SizesOK
<1> QED BY <1>1, <1>6, <1>7, <1>8 DEF n, f

LEMMA CountNat ==
  ASSUME NEW groups \in GroupSeqs
  PROVE  Count(groups) \in Nat
<1>1. Len(Samples(groups)) \in Nat /\ SizesOK(Samples(groups), Len(Samples(groups)))
  BY SamplesOf
<1>2. Len(Samples(groups)) \in 0..Len(Samples(groups))
  BY <1>1
<1> QED BY <1>1, <1>2, EndsRise DEF Count, Total

(* Groups as they were some lines ago have fewer nodes, if they are others: *)
(* lines only add nodes.                                                    *)
Newer(old, new) == old = new \/ Count(old) < Count(new)

LEMMA NewerStill ==
  ASSUME NEW a \in GroupSeqs, NEW b \in GroupSeqs, NEW c \in GroupSeqs, Newer(a, b), Newer(b, c)
  PROVE  Newer(a, c)
BY CountNat DEF Newer

(* More groups with the same sizes have more nodes.                         *)
LEMMA NewGroup ==
  ASSUME NEW groups \in GroupSeqs, NEW group \in Group
  PROVE  Append(groups, group) \in GroupSeqs /\ Count(groups) < Count(Append(groups, group))
<1>1. PICK more : more = Append(groups, group)
  OBVIOUS
<1>2. PICK n : n = Len(groups)
  OBVIOUS
<1>3. /\ more \in GroupSeqs /\ n \in Nat /\ Len(more) = n + 1
      /\ \A s \in 1..n : more[s] = groups[s]
  BY <1>1, <1>2 DEF GroupSeqs
<1>4. PICK a : a = Samples(groups)
  OBVIOUS
<1>5. PICK b : b = Samples(more)
  OBVIOUS
<1>6. Len(a) = n /\ Len(b) = n + 1 /\ SizesOK(a, n) /\ SizesOK(b, n + 1)
  BY <1>2, <1>3, <1>4, <1>5, SamplesOf
<1>7. \A s \in 1..n : a[s].size = b[s].size
  <2>1. \A s \in 1..n : s \in 1..(n + 1) /\ groups[s].leaves = more[s].leaves
    BY <1>3
  <2> QED BY <1>2, <1>3, <1>4, <1>5, <2>1, SamplesOf
<1>8. Ends(a)[n] = Ends(b)[n]
  <2>1. n <= Len(a) /\ n <= Len(b) /\ Len(a) \in Nat /\ Len(b) \in Nat
    BY <1>3, <1>6
  <2> QED BY <1>3, <1>7, <2>1, EndsAgree
<1>9. Ends(b)[n] < Ends(b)[n + 1]
  <2>1. n + 1 \in 0..(n + 1) /\ n \in 0..((n + 1) - 1)
    BY <1>3
  <2> QED BY <1>6, <2>1, EndsRise
<1>10. Count(groups) = Ends(a)[n] /\ Count(more) = Ends(b)[n + 1]
  BY <1>4, <1>5, <1>6 DEF Count, Total
<1> QED BY <1>1, <1>3, <1>8, <1>9, <1>10

(* A leaf more in the last group is one node more.                          *)
LEMMA NewLeaf ==
  ASSUME NEW groups \in GroupSeqs, groups # <<>>, NEW leaf \in Nodes, leaf \notin Last(groups).leaves,
         NEW more,
         more = [groups EXCEPT ![Len(groups)] = [Last(groups) EXCEPT !.leaves = @ \cup {leaf}]]
  PROVE  more \in GroupSeqs /\ Count(groups) < Count(more)
<1>1. PICK n : n = Len(groups)
  OBVIOUS
<1>2. n \in Nat \ {0} /\ Last(groups) = groups[n]
  BY <1>1 DEF GroupSeqs, Last
<1>3. groups[n] \in Group
  BY <1>1, <1>2 DEF GroupSeqs
<1>4. PICK last : last = [groups[n] EXCEPT !.leaves = @ \cup {leaf}]
  OBVIOUS
<1>5. last \in Group /\ last.leaves = groups[n].leaves \cup {leaf}
  BY <1>3, <1>4 DEF Group
<1>6. more = [groups EXCEPT ![n] = last]
  BY <1>1, <1>2, <1>4
<1>7. more \in GroupSeqs /\ Len(more) = n /\ more[n] = last
  <2>1. groups \in [1..n -> Group] /\ n \in 1..n
    BY <1>1, <1>2 DEF GroupSeqs
  <2>2. more \in [1..n -> Group] /\ more[n] = last
    BY <1>5, <1>6, <2>1
  <2>3. more \in Seq(Group) /\ Len(more) = n
    <3>1. n \in Nat /\ more \in [1..n -> Group]
      BY <1>2, <2>2
    <3> QED BY <3>1, ArrayIsSeq
  <2> QED BY <2>2, <2>3 DEF GroupSeqs
<1>8. \A s \in 1..(n - 1) : more[s] = groups[s]
  BY <1>1, <1>2, <1>6 DEF GroupSeqs
<1>9. PICK a : a = Samples(groups)
  OBVIOUS
<1>10. PICK b : b = Samples(more)
  OBVIOUS
<1>11. Len(a) = n /\ Len(b) = n /\ SizesOK(a, n) /\ SizesOK(b, n)
  BY <1>1, <1>7, <1>9, <1>10, SamplesOf
<1>12. Ends(a)[n - 1] = Ends(b)[n - 1]
  <2>1. PICK m : m = n - 1
    OBVIOUS
  <2>2. m \in Nat /\ m <= n /\ \A s \in 1..m : s \in 1..n
    BY <1>2, <2>1
  <2>3. ASSUME NEW s \in 1..m PROVE a[s].size = b[s].size
    <3>1. s \in 1..n
      BY <2>2
    <3>2. a[s].size = Cardinality(groups[s].leaves) + 1
      BY <1>1, <1>9, <3>1, SamplesOf
    <3>3. b[s].size = Cardinality(more[s].leaves) + 1
      BY <1>7, <1>10, <3>1, SamplesOf
    <3>4. more[s] = groups[s]
      BY <1>8, <2>1
    <3> QED BY <3>2, <3>3, <3>4
  <2>4. m <= Len(a) /\ m <= Len(b) /\ Len(a) \in Nat /\ Len(b) \in Nat
    BY <1>2, <1>11, <2>2
  <2>5. Ends(a)[m] = Ends(b)[m]
    BY <2>2, <2>3, <2>4, EndsAgree
  <2> QED BY <2>1, <2>5
<1>13. b[n].size = a[n].size + 1
  <2>1. Cardinality(groups[n].leaves \cup {leaf}) = Cardinality(groups[n].leaves) + 1
    <3>1. IsFiniteSet(groups[n].leaves) /\ leaf \notin groups[n].leaves
      <4>1. groups[n].leaves \in SUBSET Nodes /\ leaf \notin groups[n].leaves
        BY <1>2, <1>3 DEF Group
      <4> QED BY <4>1, NodesFinite
    <3> QED BY <3>1, FS_AddElement
  <2>2. n \in 1..n
    BY <1>2
  <2>3. a[n].size = Cardinality(groups[n].leaves) + 1 /\ b[n].size = Cardinality(last.leaves) + 1
    BY <1>1, <1>7, <1>9, <1>10, <2>2, SamplesOf
  <2> QED BY <1>5, <2>1, <2>3
<1>14. /\ Ends(a)[n] = Ends(a)[n - 1] + a[n].size /\ Ends(b)[n] = Ends(b)[n - 1] + b[n].size
       /\ Ends(a)[n - 1] \in Nat /\ a[n].size \in Nat
  <2>1. n \in 1..n /\ n - 1 \in 0..n /\ n \in Nat
    BY <1>2
  <2>2. a[n].size \in Nat
    BY <1>11, <2>1 DEF SizesOK
  <2>3. Ends(a)[n - 1] \in Nat
    BY <1>11, <2>1, EndsRise
  <2> QED BY <1>11, <2>1, <2>2, <2>3, EndsOf
<1>15. Count(groups) = Ends(a)[n] /\ Count(more) = Ends(b)[n]
  BY <1>9, <1>10, <1>11 DEF Count, Total
<1>16. Ends(a)[n] < Ends(b)[n]
  BY <1>12, <1>13, <1>14
<1> QED BY <1>7, <1>15, <1>16

(* So every line makes the groups newer.                                    *)
LEMMA LineAdded ==
  ASSUME NEW groups \in GroupSeqs, NEW line \in Lines
  PROVE  AddLine(groups, line) \in GroupSeqs /\ Newer(groups, AddLine(groups, line))
<1>1. line.video \in Videos /\ line.leaf \in Nodes
  BY DEF Lines
<1>2. CASE ~(groups # <<>> /\ Last(groups).video = line.video)
  <2>1. [video |-> line.video, leaves |-> {line.leaf}] \in Group
    BY <1>1 DEF Group
  <2>2. AddLine(groups, line) = Append(groups, [video |-> line.video, leaves |-> {line.leaf}])
    BY <1>2 DEF AddLine
  <2> QED BY <2>1, <2>2, NewGroup DEF Newer
<1>3. CASE groups # <<>> /\ Last(groups).video = line.video
  <2>1. AddLine(groups, line) =
          [groups EXCEPT ![Len(groups)] = [Last(groups) EXCEPT !.leaves = @ \cup {line.leaf}]]
    BY <1>3 DEF AddLine, ReplaceAt
  <2>2. CASE line.leaf \in Last(groups).leaves
    <3>1. Len(groups) \in 1..Len(groups) /\ Last(groups) = groups[Len(groups)]
      BY <1>3 DEF GroupSeqs, Last
    <3>2. Last(groups) \in Group
      BY <3>1 DEF GroupSeqs
    <3>3. Last(groups).leaves \cup {line.leaf} = Last(groups).leaves
      BY <2>2
    <3>4. [Last(groups) EXCEPT !.leaves = @ \cup {line.leaf}] = Last(groups)
      BY <3>2, <3>3 DEF Group
    <3>5. [groups EXCEPT ![Len(groups)] = Last(groups)] = groups
      BY <3>1 DEF GroupSeqs
    <3>6. AddLine(groups, line) = groups
      BY <2>1, <3>4, <3>5
    <3> QED BY <3>6 DEF Newer
  <2>3. CASE line.leaf \notin Last(groups).leaves
    BY <1>1, <1>3, <2>1, <2>3, NewLeaf DEF Newer
  <2> QED BY <2>2, <2>3
<1> QED BY <1>2, <1>3

(***************************************************************************)
(* The files of a dataset                                                  *)
(***************************************************************************)

(* Each of the three files is of the groups at some time: the costs of the oldest, the    *)
(* samples of the same or newer ones, the array of nodes of the newest. Groups that       *)
(* differ differ in the number of their nodes, which the readers compare.                 *)
AgesOK(groups, costs, samples, nodes) ==
  Newer(costs, samples) /\ Newer(samples, nodes) /\ Newer(nodes, groups)
OneEach(groups) == \A s, t \in DOMAIN groups : groups[s].video = groups[t].video => s = t
OwnVideo(row, samples, i) == row # NoRow /\ row[1] = samples[SampleOf(samples, i)].video

(* The array is blank or complete                                           *)
NodesOK(array, nodes) == array = TreeNodes(nodes) \/ array = [i \in 1..Count(nodes) |-> BlankNode]
TreeOK(t, samples, nodes) ==
  NodesOK(t.nodes, nodes) /\ t = [nodes |-> t.nodes, samples |-> Samples(samples)]
CacheOK(c, costs) ==
  /\ c = [rows |-> c.rows, sizes |-> c.sizes] /\ c.rows = [i \in 1..Count(costs) |-> c.rows[i]]
  /\ OneEach(costs)
  /\ \A i \in 1..Count(costs) : OwnVideo(c.rows[i], Samples(costs), i)

(* The rows of a conversion are those of the cache it found, or come from   *)
(* dumps: those have no blank node                                          *)
FromDump(row, keys, i) == row = NoRow \/ (i \in DOMAIN keys /\ row = keys[i] /\ keys[i][2] # BlankNode)
RowsOK(rows, keys, c, n) ==
  rows = [i \in 1..n |-> rows[i]] /\ (rows = c.rows \/ \A i \in 1..n : FromDump(rows[i], keys, i))
Converting(j, doing, keys) ==
  j = [doing |-> doing, left |-> j.left, keys |-> keys, rows |-> j.rows, sizes |-> j.sizes]
JobOK(j, t, c, samples, nodes) ==
  \/ j = Idle
  \/ j = [doing |-> "tree", groups |-> nodes]
  \/ j = [doing |-> "samples", groups |-> nodes] /\ t.nodes = TreeNodes(nodes)
  \/ /\ Converting(j, "read", Keys(t.nodes, Samples(samples)))
     /\ KeysAccepted(j.keys) /\ RowsOK(j.rows, j.keys, c, Count(nodes)) /\ Count(samples) <= Count(nodes)
  \/ Converting(j, "sizes", j.keys)

DataOK(costs, samples, nodes) ==
  /\ AgesOK(GroupsOf(labels), costs, samples, nodes)
  /\ TreeOK(tree, samples, nodes) /\ CacheOK(cache, costs) /\ JobOK(job, tree, cache, samples, nodes)
DataInv ==
  /\ labels \in Seq(Lines) /\ GroupsOf(labels) \in GroupSeqs
  /\ \E costs, samples, nodes \in GroupSeqs : DataOK(costs, samples, nodes)

(* The array of the nodes of groups has node 0 first for each sample.       *)
LEMMA TreeNodesOf ==
  ASSUME NEW groups \in GroupSeqs
  PROVE  /\ TreeNodes(groups) = [i \in 1..Count(groups) |-> TreeNodes(groups)[i]]
         /\ \A s \in DOMAIN groups : TreeNodes(groups)[First(Samples(groups), s)] = 0
<1> DEFINE f == TreeNodes(groups)
<1>1. PICK p : p = Samples(groups)
  OBVIOUS
<1>2. f = [i \in 1..Total(p) |-> NodesOf(groups[SampleOf(p, i)])[i - Ends(p)[SampleOf(p, i) - 1]]]
  BY <1>1 DEF TreeNodes
<1> HIDE DEF f
<1>3. f = [i \in 1..Count(groups) |-> f[i]]
  BY <1>1, <1>2 DEF Count
<1>4. ASSUME NEW s \in DOMAIN groups PROVE f[First(p, s)] = 0
  <2>1. s \in DOMAIN p /\ DOMAIN p = 1..Len(p) /\ SizesOK(p, Len(p)) /\ s \in 1..Len(groups)
    BY <1>1, SamplesOf
  <2>2. PICK i : i = First(p, s)
    OBVIOUS
  <2>3. i \in 1..Total(p) /\ SampleOf(p, i) = s
    BY <2>1, <2>2, FirstIsOf
  <2>4. f[i] = NodesOf(groups[s])[i - Ends(p)[s - 1]]
    BY <1>2, <2>3
  <2>5. i - Ends(p)[s - 1] = 1
    <3>1. s - 1 \in 0..Len(p)
      BY <2>1 DEF SizesOK
    <3>2. Ends(p)[s - 1] \in Nat
      BY <2>1, <3>1, EndsRise
    <3> QED BY <2>2, <3>2 DEF First
  <2>6. groups[s].leaves \in SUBSET Nodes
    <3>1. groups[s] \in Group
      BY <2>1 DEF GroupSeqs
    <3> QED BY <3>1 DEF Group
  <2> QED BY <2>2, <2>4, <2>5, <2>6, GroupNodes
<1> QED BY <1>1, <1>3, <1>4 DEF f

LEMMA NodesLength ==
  ASSUME NEW groups \in GroupSeqs, NEW array, NodesOK(array, groups)
  PROVE  Len(array) = Count(groups) /\ DOMAIN array = 1..Count(groups)
<1>1. Count(groups) \in Nat
  BY CountNat
<1>2. array = [i \in 1..Count(groups) |-> array[i]]
  BY TreeNodesOf DEF NodesOK
<1>3. array \in [1..Count(groups) -> {array[i] : i \in 1..Count(groups)}]
  BY <1>2
<1> QED BY <1>1, <1>3, ArrayIsSeq

(* If every node of the array has a row from a dump, the array is of the samples, and     *)
(* complete; and as the keys are different, no video has two samples.                     *)
LEMMA AllFromDumps ==
  ASSUME NEW samples \in GroupSeqs, NEW nodes \in GroupSeqs, NEW array, NodesOK(array, nodes),
         Newer(samples, nodes), NEW keys, keys = Keys(array, Samples(samples)), KeysAccepted(keys),
         NEW rows, \A i \in 1..Count(nodes) : rows[i] # NoRow /\ FromDump(rows[i], keys, i)
  PROVE  /\ samples = nodes /\ OneEach(samples)
         /\ \A i \in 1..Count(samples) : OwnVideo(rows[i], Samples(samples), i)
<1>1. PICK p : p = Samples(samples)
  OBVIOUS
<1>2. DOMAIN keys = 1..Count(samples)
  BY <1>1 DEF Keys, Count
<1>3. \A i \in 1..Count(samples) : keys[i] = <<p[SampleOf(p, i)].video, array[i]>>
  BY <1>1 DEF Keys, Count
<1>4. \A i \in 1..Count(nodes) : i \in 1..Count(samples) /\ rows[i] = keys[i] /\ keys[i][2] # BlankNode
  BY <1>2 DEF FromDump
<1>5. Count(samples) \in Nat /\ Count(nodes) \in Nat
  BY CountNat
<1>6. samples = nodes
  <2>1. ~(Count(samples) < Count(nodes))
    BY <1>4, <1>5
  <2> QED BY <2>1 DEF Newer
<1>7. ASSUME NEW i \in 1..Count(samples) PROVE OwnVideo(rows[i], Samples(samples), i)
  <2>1. rows[i] = <<p[SampleOf(p, i)].video, array[i]>>
    BY <1>3, <1>4, <1>6
  <2>2. rows[i] # NoRow
    BY <1>6
  <2> QED BY <1>1, <2>1, <2>2 DEF OwnVideo
<1>8. ASSUME NEW s \in DOMAIN samples
      PROVE  /\ First(p, s) \in 1..Count(samples) /\ SampleOf(p, First(p, s)) = s
             /\ keys[First(p, s)] = <<samples[s].video, 0>>
  <2>1. s \in DOMAIN p /\ DOMAIN p = 1..Len(p) /\ SizesOK(p, Len(p)) /\ p[s].video = samples[s].video
    BY <1>1, SamplesOf
  <2>2. PICK i : i = First(p, s)
    OBVIOUS
  <2>3. i \in 1..Total(p) /\ SampleOf(p, i) = s
    BY <2>1, <2>2, FirstIsOf
  <2>4. i \in 1..Count(samples)
    BY <1>1, <2>3 DEF Count
  <2>5. keys[i] = <<samples[s].video, array[i]>>
    BY <1>3, <2>1, <2>3, <2>4
  <2>6. array[i] # BlankNode
    <3>1. keys[i][2] # BlankNode
      BY <1>4, <1>6, <2>4
    <3> QED BY <2>5, <3>1
  <2>7. array = TreeNodes(samples)
    <3>1. array # [k \in 1..Count(nodes) |-> BlankNode]
      BY <1>6, <2>4, <2>6
    <3> QED BY <1>6, <3>1 DEF NodesOK
  <2>8. array[i] = 0
    BY <1>1, <2>2, <2>7, TreeNodesOf
  <2> QED BY <2>2, <2>3, <2>4, <2>5, <2>8
<1>9. OneEach(samples)
  <2> SUFFICES ASSUME NEW s \in DOMAIN samples, NEW t \in DOMAIN samples, samples[s].video = samples[t].video
               PROVE  s = t
    BY DEF OneEach
  <2>1. First(p, s) \in DOMAIN keys /\ First(p, t) \in DOMAIN keys
    BY <1>2, <1>8
  <2>2. keys[First(p, s)] = keys[First(p, t)]
    BY <1>8
  <2>3. First(p, s) = First(p, t)
    BY <2>1, <2>2 DEF KeysAccepted, IsInjective
  <2> QED BY <1>8, <2>3
<1> QED BY <1>6, <1>7, <1>9

(* At first there is no label, and no file.                                 *)
LEMMA InitData == Init => DataInv
<1> SUFFICES ASSUME Init PROVE DataInv
  OBVIOUS
<1>1. PICK none : none = <<>>
  OBVIOUS
<1>2. none \in GroupSeqs /\ DOMAIN none = {}
  BY <1>1 DEF GroupSeqs
<1>3. labels \in Seq(Lines) /\ GroupsOf(labels) = none
  BY <1>1, NoGroups DEF Init
<1>4. Samples(none) = <<>>
  BY <1>1 DEF Samples
<1>5. Count(none) = 0
  <2>1. Len(<<>>) = 0 /\ Len(<<>>) \in Nat
    OBVIOUS
  <2>2. Ends(<<>>)[0] = 0
    BY <2>1, EndsOf
  <2> QED BY <1>4, <2>1, <2>2 DEF Count, Total
<1>6. \A f : <<>> = [i \in 1..Count(none) |-> f[i]]
  BY <1>5
<1>7. tree = [nodes |-> <<>>, samples |-> <<>>] /\ cache = [rows |-> <<>>, sizes |-> <<>>] /\ job = Idle
  BY DEF Init, None
<1>8. TreeOK(tree, none, none)
  <2>1. TreeNodes(none) = [i \in 1..Count(none) |-> TreeNodes(none)[i]]
    BY <1>2, TreeNodesOf
  <2>2. NodesOK(<<>>, none)
    BY <1>6, <2>1 DEF NodesOK
  <2> QED BY <1>4, <1>7, <2>2 DEF TreeOK
<1>9. CacheOK(cache, none)
  <2>1. <<>> = [i \in 1..Count(none) |-> <<>>[i]]
    BY <1>5
  <2> QED BY <1>2, <1>5, <1>7, <2>1 DEF CacheOK, OneEach
<1>10. AgesOK(none, none, none, none) /\ JobOK(job, tree, cache, none, none)
  BY <1>7 DEF AgesOK, Newer, JobOK
<1> QED BY <1>2, <1>3, <1>8, <1>9, <1>10 DEF DataInv, DataOK

(* Labels may grow while the files stay: they get older.                    *)
LEMMA LabelsGrow ==
  ASSUME DataInv, NEW line \in Lines, labels' = Append(labels, line), UNCHANGED <<tree, cache, job>>
  PROVE  DataInv'
<1>1. labels' \in Seq(Lines)
  BY DEF DataInv
<1>2. GroupsOf(labels') = AddLine(GroupsOf(labels), line)
  BY GroupsAppend DEF DataInv
<1>3. GroupsOf(labels') \in GroupSeqs /\ Newer(GroupsOf(labels), GroupsOf(labels'))
  BY <1>2, LineAdded DEF DataInv
<1>4. PICK costs \in GroupSeqs, samples \in GroupSeqs, nodes \in GroupSeqs : DataOK(costs, samples, nodes)
  BY DEF DataInv
<1>5. Newer(nodes, GroupsOf(labels'))
  BY <1>3, <1>4, NewerStill DEF DataInv, DataOK, AgesOK
<1>6. DataOK(costs, samples, nodes)'
  BY <1>4, <1>5 DEF DataOK, AgesOK
<1> QED BY <1>1, <1>3, <1>6 DEF DataInv

LEMMA SameData ==
  ASSUME DataInv, UNCHANGED <<labels, tree, cache, job>>
  PROVE  DataInv'
BY DEF DataInv, DataOK

(* A step that leaves the labels alone has to say what the files are of now *)
LEMMA FilesMade ==
  ASSUME DataInv, labels' = labels, NEW costs \in GroupSeqs, NEW samples \in GroupSeqs, NEW nodes \in GroupSeqs,
         AgesOK(GroupsOf(labels), costs, samples, nodes), TreeOK(tree', samples, nodes),
         CacheOK(cache', costs), JobOK(job', tree', cache', samples, nodes)
  PROVE  DataInv'
<1>1. DataOK(costs, samples, nodes)'
  BY DEF DataOK
<1> QED BY <1>1 DEF DataInv

(* Only the decoder writes labels, one line of a video in its list.         *)
LEMMA BatchData ==
  ASSUME DumpInv, DataInv, NEW b \in DOMAIN Lists, BatchStep(b)
  PROVE  DataInv'
<1>1. CASE DecodeLeaf(b)
  <2> DEFINE line == [video |-> Video(b), leaf |-> batch[b].lines + 1]
  <2>1. labels' = Append(labels, line) /\ UNCHANGED <<tree, cache, job>> /\ batch[b].lines < Leaves
    BY <1>1 DEF DecodeLeaf, dataset
  <2>2. Video(b) \in Videos
    BY BatchType DEF Videos
  <2>3. batch[b].lines + 1 \in Nodes
    <3>1. batch[b].lines \in Nat
      BY BatchType
    <3> QED BY <2>1, <3>1, ListsAssumption DEF Nodes
  <2>4. line \in Lines
    BY <2>2, <2>3 DEF Lines
  <2> HIDE DEF line
  <2> QED BY <2>1, <2>4, LabelsGrow
<1>2. CASE ~DecodeLeaf(b)
  <2>1. UNCHANGED <<labels, tree, cache, job>>
    BY <1>2 DEF BatchStep, Start, Stop, ClearDump, ClearMark, OpenDump, EncodeNode, EndEncode, MarkDone,
                NextVideo, files, dataset
  <2> QED BY <2>1, SameData
<1> QED BY <1>1, <1>2

(***************************************************************************)
(* The conversions                                                         *)
(***************************************************************************)

(* The array of nodes gets its size: it is of the groups of now.            *)
LEMMA StartTreeData ==
  ASSUME DataInv, StartTree
  PROVE  DataInv'
<1>1. PICK costs \in GroupSeqs, samples \in GroupSeqs, nodes \in GroupSeqs : DataOK(costs, samples, nodes)
  BY DEF DataInv
<1>2. PICK groups : groups = GroupsOf(labels)
  OBVIOUS
<1>3. /\ groups \in GroupSeqs /\ labels' = labels /\ cache' = cache
      /\ job' = [doing |-> "tree", groups |-> groups]
      /\ tree' = [tree EXCEPT !.nodes = [i \in DOMAIN TreeNodes(groups) |-> BlankNode]]
  BY <1>2 DEF StartTree, DataInv, files
<1>4. DOMAIN TreeNodes(groups) = 1..Count(groups)
  BY <1>3, TreeNodesOf
<1>5. AgesOK(groups, costs, samples, groups)
  BY <1>1, <1>2, <1>3, NewerStill DEF DataOK, AgesOK, Newer
<1>6. TreeOK(tree', samples, groups)
  <2>1. PICK blank : blank = [i \in 1..Count(groups) |-> BlankNode]
    OBVIOUS
  <2>2. tree = [nodes |-> tree.nodes, samples |-> Samples(samples)] /\ tree' = [tree EXCEPT !.nodes = blank]
    BY <1>1, <1>3, <1>4, <2>1 DEF DataOK, TreeOK
  <2>3. tree' = [nodes |-> blank, samples |-> Samples(samples)]
    BY <2>2
  <2>4. NodesOK(blank, groups)
    BY <2>1 DEF NodesOK
  <2> QED BY <2>3, <2>4 DEF TreeOK
<1>7. JobOK(job', tree', cache', samples, groups)
  BY <1>3 DEF JobOK
<1> QED BY <1>1, <1>2, <1>3, <1>5, <1>6, <1>7, FilesMade DEF DataOK

(* It gets its contents,                                                    *)
LEMMA FillNodesData ==
  ASSUME DataInv, FillNodes
  PROVE  DataInv'
<1>1. PICK costs \in GroupSeqs, samples \in GroupSeqs, nodes \in GroupSeqs : DataOK(costs, samples, nodes)
  BY DEF DataInv
<1>2. job = [doing |-> "tree", groups |-> nodes]
  BY <1>1 DEF FillNodes, DataOK, JobOK, Idle, Converting
<1>3. /\ labels' = labels /\ cache' = cache /\ job' = [doing |-> "samples", groups |-> nodes]
      /\ tree' = [tree EXCEPT !.nodes = TreeNodes(nodes)]
  BY <1>2 DEF FillNodes, files
<1>4. TreeOK(tree', samples, nodes) /\ tree'.nodes = TreeNodes(nodes)
  BY <1>1, <1>3 DEF DataOK, TreeOK, NodesOK
<1>5. JobOK(job', tree', cache', samples, nodes)
  BY <1>3, <1>4 DEF JobOK
<1> QED BY <1>1, <1>3, <1>4, <1>5, FilesMade DEF DataOK

(* and then the samples are written.                                        *)
LEMMA SaveSamplesData ==
  ASSUME DataInv, SaveSamples
  PROVE  DataInv'
<1>1. PICK costs \in GroupSeqs, samples \in GroupSeqs, nodes \in GroupSeqs : DataOK(costs, samples, nodes)
  BY DEF DataInv
<1>2. job = [doing |-> "samples", groups |-> nodes]
  BY <1>1 DEF SaveSamples, DataOK, JobOK, Idle, Converting
<1>3. /\ labels' = labels /\ cache' = cache /\ job' = Idle
      /\ tree' = [tree EXCEPT !.samples = Samples(nodes)]
  BY <1>2 DEF SaveSamples, files
<1>4. TreeOK(tree', nodes, nodes)
  BY <1>1, <1>3 DEF DataOK, TreeOK
<1>5. AgesOK(GroupsOf(labels), costs, nodes, nodes)
  BY <1>1, NewerStill DEF DataOK, AgesOK, Newer
<1>6. JobOK(job', tree', cache', nodes, nodes)
  BY <1>3 DEF JobOK
<1> QED BY <1>1, <1>3, <1>4, <1>5, <1>6, FilesMade DEF DataOK

LEMMA KillJobData ==
  ASSUME DataInv, KillJob
  PROVE  DataInv'
<1>1. PICK costs \in GroupSeqs, samples \in GroupSeqs, nodes \in GroupSeqs : DataOK(costs, samples, nodes)
  BY DEF DataInv
<1>2. UNCHANGED <<labels, tree, cache>> /\ job' = Idle
  BY DEF KillJob, files
<1> QED BY <1>1, <1>2, FilesMade DEF DataOK, JobOK

(* A conversion of costs begins with the cache or with blank rows,          *)
LEMMA StartCostsData ==
  ASSUME DataInv, StartCosts
  PROVE  DataInv'
<1>1. PICK costs \in GroupSeqs, samples \in GroupSeqs, nodes \in GroupSeqs : DataOK(costs, samples, nodes)
  BY DEF DataInv
<1>2. PICK keys : keys = Keys(tree.nodes, tree.samples)
  OBVIOUS
<1>3. PICK rows : rows = Inherited(tree.nodes)
  OBVIOUS
<1>4. /\ UNCHANGED <<labels, tree, cache>> /\ KeysAccepted(keys) /\ Len(rows) = Len(tree.nodes)
      /\ Total(tree.samples) <= Len(tree.nodes)
      /\ job' = [doing |-> "read", left |-> Discovered, keys |-> keys, rows |-> rows,
                 sizes |-> Sizes(tree.samples)]
  BY <1>2, <1>3 DEF StartCosts, files
<1>5. TreeOK(tree, samples, nodes) /\ CacheOK(cache, costs) /\ NodesOK(tree.nodes, nodes)
      /\ tree.samples = Samples(samples)
  BY <1>1 DEF DataOK, TreeOK
<1>6. Len(tree.nodes) = Count(nodes) /\ DOMAIN tree.nodes = 1..Count(nodes)
  BY <1>5, NodesLength
<1>7. RowsOK(rows, keys, cache, Count(nodes))
  <2>1. CASE rows = cache.rows
    <3>1. Len(rows) = Count(costs)
      <4>1. cache.rows \in [1..Count(costs) -> {cache.rows[i] : i \in 1..Count(costs)}]
        BY <1>5 DEF CacheOK
      <4> QED BY <2>1, <4>1, CountNat, ArrayIsSeq
    <3>2. Count(costs) = Count(nodes)
      BY <1>4, <1>6, <3>1
    <3> QED BY <1>5, <2>1, <3>2 DEF CacheOK, RowsOK
  <2>2. CASE rows = BlankRows(tree.nodes)
    <3>1. rows = [i \in 1..Count(nodes) |-> NoRow]
      BY <1>6, <2>2 DEF BlankRows
    <3>2. \A i \in 1..Count(nodes) : FromDump(rows[i], keys, i)
      BY <3>1 DEF FromDump
    <3> QED BY <3>1, <3>2 DEF RowsOK
  <2> QED BY <1>3, <2>1, <2>2 DEF Inherited
<1>8. JobOK(job', tree', cache', samples, nodes)
  <2>1. Converting(job', "read", Keys(tree.nodes, Samples(samples)))
    BY <1>2, <1>4, <1>5 DEF Converting
  <2>2. job'.keys = keys /\ job'.rows = rows /\ Count(samples) <= Count(nodes)
    BY <1>4, <1>5, <1>6 DEF Count
  <2> QED BY <1>4, <1>7, <2>1, <2>2 DEF JobOK
<1> QED BY <1>1, <1>4, <1>8, FilesMade DEF DataOK

(* and takes the nodes of a dump that are in the tree: none of them twice.  *)
LEMMA DumpNodes ==
  ASSUME DumpInv, NEW v \in DOMAIN dumps, NEW n \in Range(dumps[v])
  PROVE  n # BlankNode
<1>1. dumps[v] \in Begun
  BY DEF DumpInv, DumpsTyped
<1>2. PICK m \in 0..(Leaves + 1) : dumps[v] = SubSeq(WholeDump, 1, m)
  BY <1>1 DEF Begun
<1>3. Leaves \in Nat /\ Leaves + 1 \in Nat
  BY ListsAssumption
<1>4. WholeDump \in [1..(Leaves + 1) -> Nat]
  BY <1>3 DEF WholeDump
<1>5. WholeDump \in Seq(Nat) /\ Len(WholeDump) = Leaves + 1
  BY <1>3, <1>4, ArrayIsSeq
<1>6. \A i \in DOMAIN dumps[v] : dumps[v][i] \in Nat
  BY <1>2, <1>3, <1>5
<1> QED BY <1>6 DEF Range, BlankNode

LEMMA ReadDumpData ==
  ASSUME DumpInv, DataInv, NEW v \in Videos, ReadDump(v)
  PROVE  DataInv'
<1>1. PICK costs \in GroupSeqs, samples \in GroupSeqs, nodes \in GroupSeqs : DataOK(costs, samples, nodes)
  BY DEF DataInv
<1>2. PICK keys : keys = Keys(tree.nodes, Samples(samples))
  OBVIOUS
<1>3. PICK n : n = Count(nodes)
  OBVIOUS
<1>4. /\ Converting(job, "read", keys) /\ KeysAccepted(job.keys) /\ RowsOK(job.rows, job.keys, cache, n)
      /\ Count(samples) <= n
  BY <1>1, <1>2, <1>3 DEF ReadDump, DataOK, JobOK, Idle, Converting
<1>5. job.keys = keys /\ job.doing = "read"
  BY <1>4 DEF Converting
<1>6. PICK hit : hit = {i \in DOMAIN keys : keys[i] \in FinalRows(v)}
  OBVIOUS
<1>7. PICK rows : rows = [i \in DOMAIN job.rows |-> IF i \in hit THEN keys[i] ELSE job.rows[i]]
  OBVIOUS
<1>8. /\ UNCHANGED <<labels, tree, cache>> /\ v \in DOMAIN dumps
      /\ \A i \in hit : job.rows[i] = NoRow
      /\ job' = [job EXCEPT !.left = @ \ {v}, !.rows = rows]
  BY <1>5, <1>6, <1>7 DEF ReadDump, files
<1>9. job.rows = [i \in 1..n |-> job.rows[i]]
  BY <1>4 DEF RowsOK
<1>10. rows = [i \in 1..n |-> IF i \in hit THEN keys[i] ELSE job.rows[i]]
  BY <1>7, <1>9
<1>11. RowsOK(rows, keys, cache, n)
  <2>1. ASSUME NEW i \in hit PROVE i \in DOMAIN keys /\ keys[i][2] # BlankNode
    <3>1. PICK m \in Range(dumps[v]) : keys[i] = <<v, m>>
      BY <1>6 DEF FinalRows
    <3>2. m # BlankNode
      BY <1>8, <3>1, DumpNodes
    <3> QED BY <1>6, <3>1, <3>2
  <2>2. CASE job.rows = cache.rows
    <3>1. \A i \in 1..Count(costs) : cache.rows[i] # NoRow
      BY <1>1 DEF DataOK, CacheOK, OwnVideo
    <3>2. DOMAIN cache.rows = 1..Count(costs) /\ DOMAIN job.rows = 1..n
      BY <1>1, <1>9 DEF DataOK, CacheOK
    <3>3. \A i \in 1..n : i \notin hit
      BY <1>8, <2>2, <3>1, <3>2
    <3>4. rows = job.rows
      BY <1>9, <1>10, <3>3
    <3> QED BY <1>9, <2>2, <3>4 DEF RowsOK
  <2>3. CASE \A i \in 1..n : FromDump(job.rows[i], keys, i)
    <3>1. \A i \in 1..n : FromDump(rows[i], keys, i)
      BY <1>10, <2>1, <2>3 DEF FromDump
    <3> QED BY <1>10, <3>1 DEF RowsOK
  <2> QED BY <1>4, <1>5, <2>2, <2>3 DEF RowsOK
<1>12. JobOK(job', tree', cache', samples, nodes)
  <2>1. Converting(job', "read", keys) /\ job'.keys = keys /\ job'.rows = rows
    <3>1. PICK left, old, sizes :
            job = [doing |-> "read", left |-> left, keys |-> keys, rows |-> old, sizes |-> sizes]
      BY <1>4 DEF Converting
    <3>2. job' = [doing |-> "read", left |-> left \ {v}, keys |-> keys, rows |-> rows, sizes |-> sizes]
      BY <1>8, <3>1
    <3> QED BY <3>2 DEF Converting
  <2> QED BY <1>2, <1>3, <1>4, <1>5, <1>8, <1>11, <2>1 DEF JobOK
<1> QED BY <1>1, <1>8, <1>12, FilesMade DEF DataOK

(* The rows are saved when no node is without one.                          *)
LEMMA SaveRowsData ==
  ASSUME DataInv, SaveRows
  PROVE  DataInv'
<1>1. PICK costs \in GroupSeqs, samples \in GroupSeqs, nodes \in GroupSeqs : DataOK(costs, samples, nodes)
  BY DEF DataInv
<1>2. PICK keys : keys = Keys(tree.nodes, Samples(samples))
  OBVIOUS
<1>3. PICK n : n = Count(nodes)
  OBVIOUS
<1>4. /\ Converting(job, "read", keys) /\ KeysAccepted(job.keys) /\ RowsOK(job.rows, job.keys, cache, n)
  BY <1>1, <1>2, <1>3 DEF SaveRows, DataOK, JobOK, Idle, Converting
<1>5. job.keys = keys
  BY <1>4 DEF Converting
<1>6. PICK rows : rows = job.rows
  OBVIOUS
<1>7. /\ UNCHANGED <<labels, tree>> /\ NoRow \notin Range(rows)
      /\ cache' = [cache EXCEPT !.rows = rows] /\ job' = [job EXCEPT !.doing = "sizes"]
  BY <1>6 DEF SaveRows, files
<1>8. rows = [i \in 1..n |-> rows[i]]
  BY <1>4, <1>6 DEF RowsOK
<1>9. cache'.rows = rows /\ cache' = [rows |-> cache'.rows, sizes |-> cache'.sizes]
  BY <1>1, <1>7 DEF DataOK, CacheOK
<1>10. JobOK(job', tree', cache', samples, nodes)
  BY <1>4, <1>7 DEF Converting, JobOK
<1>11. CASE rows = cache.rows
  <2>1. CacheOK(cache', costs)
    BY <1>1, <1>9, <1>11 DEF DataOK, CacheOK
  <2> QED BY <1>1, <1>7, <1>10, <2>1, FilesMade DEF DataOK
<1>12. CASE \A i \in 1..n : FromDump(rows[i], keys, i)
  <2>1. \A i \in 1..Count(nodes) : rows[i] # NoRow /\ FromDump(rows[i], keys, i)
    BY <1>3, <1>7, <1>8, <1>12 DEF Range
  <2>2. NodesOK(tree.nodes, nodes) /\ Newer(samples, nodes) /\ KeysAccepted(keys)
    BY <1>1, <1>4, <1>5 DEF DataOK, TreeOK, AgesOK
  <2>3. /\ samples = nodes /\ OneEach(samples)
        /\ \A i \in 1..Count(samples) : OwnVideo(rows[i], Samples(samples), i)
    BY <1>2, <2>1, <2>2, AllFromDumps
  <2>4. CacheOK(cache', samples)
    BY <1>3, <1>8, <1>9, <2>3 DEF CacheOK
  <2>5. AgesOK(GroupsOf(labels), samples, samples, nodes)
    BY <1>1 DEF DataOK, AgesOK, Newer
  <2> QED BY <1>1, <1>7, <1>10, <2>4, <2>5, FilesMade DEF DataOK
<1> QED BY <1>4, <1>5, <1>6, <1>11, <1>12 DEF RowsOK

LEMMA SaveSizesData ==
  ASSUME DataInv, SaveSizes
  PROVE  DataInv'
<1>1. PICK costs \in GroupSeqs, samples \in GroupSeqs, nodes \in GroupSeqs : DataOK(costs, samples, nodes)
  BY DEF DataInv
<1>2. UNCHANGED <<labels, tree>> /\ cache' = [cache EXCEPT !.sizes = job.sizes] /\ job' = Idle
  BY DEF SaveSizes, files
<1>3. CacheOK(cache, costs)
  BY <1>1 DEF DataOK
<1>4. cache'.rows = cache.rows /\ cache' = [rows |-> cache'.rows, sizes |-> cache'.sizes]
  BY <1>2, <1>3 DEF CacheOK
<1>5. CacheOK(cache', costs)
  BY <1>3, <1>4 DEF CacheOK
<1> QED BY <1>1, <1>2, <1>5, FilesMade DEF DataOK, JobOK

LEMMA NextData == DumpInv /\ DataInv /\ [Next]_vars => DataInv'
<1> SUFFICES ASSUME DumpInv, DataInv, [Next]_vars PROVE DataInv'
  OBVIOUS
<1>1. CASE UNCHANGED vars
  BY <1>1, SameData DEF vars
<1>2. CASE Next
  BY <1>2, BatchData, StartTreeData, FillNodesData, SaveSamplesData, KillJobData, StartCostsData, ReadDumpData,
     SaveRowsData, SaveSizesData DEF Next
<1> QED BY <1>1, <1>2

(* Every file of a dataset is of the labels at some time, the costs never   *)
(* of newer ones than the tree,                                             *)
THEOREM DataInvariance == Spec => []DataInv
<1>1. Init => DumpInv /\ DataInv
  BY InitDumps, InitData
<1>2. DumpInv /\ DataInv /\ [Next]_vars => DumpInv' /\ DataInv'
  BY NextDumps, NextData
<1> QED BY <1>1, <1>2, PTL DEF Spec

(* and as many rows as nodes are rows of these nodes: training loads no     *)
(* costs of another video, and no sample twice, whatever is killed.         *)
THEOREM CostsAreOfSamples == Spec => []CostsMatchSamples
<1>1. DataInv => CostsMatchSamples
  <2> SUFFICES ASSUME DataInv, Loadable PROVE CostsMatchSamples!2
    BY DEF CostsMatchSamples
  <2>1. PICK costs \in GroupSeqs, samples \in GroupSeqs, nodes \in GroupSeqs : DataOK(costs, samples, nodes)
    BY DEF DataInv
  <2>2. Len(tree.nodes) = Count(nodes) /\ tree.samples = Samples(samples)
    BY <2>1, NodesLength DEF DataOK, TreeOK
  <2>3. DOMAIN cache.rows = 1..Count(costs) /\ Len(cache.rows) = Count(costs)
    <3>1. cache.rows \in [1..Count(costs) -> {cache.rows[i] : i \in 1..Count(costs)}]
      BY <2>1 DEF DataOK, CacheOK
    <3> QED BY <3>1, CountNat, ArrayIsSeq
  <2>4. costs = samples
    <3>1. Count(costs) = Count(nodes)
      BY <2>2, <2>3 DEF Loadable
    <3>2. Count(costs) \in Nat /\ Count(samples) \in Nat /\ Count(nodes) \in Nat
      BY CountNat
    <3> QED BY <2>1, <3>1, <3>2 DEF DataOK, AgesOK, Newer
  <2>5. OneEach(samples) /\ \A i \in DOMAIN cache.rows : OwnVideo(cache.rows[i], Samples(samples), i)
    BY <2>1, <2>3, <2>4 DEF DataOK, CacheOK
  <2>6. \A s, t \in DOMAIN tree.samples : tree.samples[s].video = tree.samples[t].video => s = t
    <3>1. /\ DOMAIN tree.samples = DOMAIN samples
          /\ \A s \in DOMAIN samples : tree.samples[s].video = samples[s].video
      BY <2>2, SamplesOf
    <3> QED BY <2>5, <3>1 DEF OneEach
  <2> QED BY <2>2, <2>5, <2>6 DEF OwnVideo
<1> QED BY <1>1, DataInvariance, PTL
=============================================================================
