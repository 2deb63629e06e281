----------------------------- MODULE CuRecursion -----------------------------
(* The recursion of EncCu::xCompressCU over the units of a CTU, with the    *)
(* two records it keeps on the way: the cache of unsplit codings            *)
(* (BestEncInfoCache) and the table of tested modes (DumpRdoCost), and the  *)
(* reader that finds the coded tree in that table again                     *)
(* (script/ThSearch_RdoCost.py, network/src/createDataset.py).              *)
(* Which modes are tested, which one is best and which units cannot be      *)
(* coded is left open: ModeCtrl says how that is decided.                   *)
EXTENDS CuAreas, SplitClasses, SequencesExt

CONSTANTS Ctu,          \* the area of the CTU
          Offered(_)    \* the splits the mode control may test on an area, in their order

(* Area a lies in area b *)
Inside(a, b) == b.x <= a.x /\ b.y <= a.y /\ a.x + a.w <= b.x + b.w /\ a.y + a.h <= b.y + b.h

(* The areas in the CTU that have samples *)
Areas ==
  {a \in [x : Ctu.x..(Ctu.x + Ctu.w), y : Ctu.y..(Ctu.y + Ctu.h), w : 1..Ctu.w, h : 1..Ctu.h] :
     Inside(a, Ctu)}

(* initCULevel queues a split at most once; canSplit allows none that leaves a part     *)
(* without samples, and sizes are powers of two                                         *)
ASSUME CtuAssumption == Ctu \in [x : Nat, y : Nat, w : Nat \ {0}, h : Nat \ {0}]
ASSUME OfferedAssumption ==
  \A a \in Areas :
    /\ Offered(a) \in Seq(Splits)
    /\ \A i, j \in 1..Len(Offered(a)) : i # j => Offered(a)[i] # Offered(a)[j]
    /\ \A i \in 1..Len(Offered(a)) :
         LET s == Offered(a)[i]
             q == SubAreas(a, s)
         IN /\ \A k \in 1..Len(q) : q[k].w > 0 /\ q[k].h > 0
            /\ s = "TRIH" => a.h % 4 = 0
            /\ s = "TRIV" => a.w % 4 = 0

VARIABLES frames,       \* the units being coded, from the CTU down: the partitioning stack
          returned,     \* what xCompressCU has just returned: its coded units, or NoResult
          cache,        \* m_bestEncInfo: the unsplit coding stored last for an area
          nextNodeId,
          rows,         \* the lines of the RDO cost file
          coded         \* the coded units of the CTU at the end of the search
vars == <<frames, returned, cache, nextNodeId, rows, coded>>

(* No unit has the origin -1                                                *)
NoResult == {[area |-> Ctu, series |-> <<>>, origin |-> -1]}
Empty == <<>>

Top == frames[Len(frames)]
WithTop(f) == [frames EXCEPT ![Len(frames)] = f]

(***************************************************************************)
(* The cache of unsplit codings                                            *)
(***************************************************************************)

(* How many splits two series share from the CTU on                         *)
SharedSplits(s, t) ==
  CHOOSE n \in 0..Len(s) : /\ n <= Len(t) /\ SubSeq(s, 1, n) = SubSeq(t, 1, n)
                           /\ n = Len(s) \/ n = Len(t) \/ s[n + 1] # t[n + 1]

StartsAt(a, b) == a.x = b.x /\ a.y = b.y

(* Mutant: the same area is enough                                          *)
SameNbHoodAnywhere(series, stack, path, area) == SharedSplits(path, series) >= 0

(* isTheSameNbHood: the unit starts where the area starts that both ways of *)
(* reaching it have in common, so nothing was coded between the two         *)
SameNbHood(series, stack, path, area) == StartsAt(area, stack[SharedSplits(path, series) + 1].area)

IsValid(stack) ==
  LET unit == stack[Len(stack)]
  IN unit.area \in DOMAIN cache /\ SameNbHood(cache[unit.area].series, stack, unit.path, unit.area)

(* The units coded before this one, in the splits being tested: the samples *)
(* and contexts it is predicted from                                        *)
CodedBefore == UNION {frames[k].parts : k \in 1..(Len(frames) - 1)}

(***************************************************************************)
(* The recorder of tested modes                                            *)
(***************************************************************************)

(* The split at this depth of the unit that covers the corner of the area   *)
Selected(best, area, depth) ==
  IF best = {} THEN "NONE"
  ELSE LET cu == CHOOSE c \in best : StartsAt(c.area, area)
       IN IF Len(cu.series) > depth THEN cu.series[depth + 1] ELSE "NS"

Row(f) == [id |-> f.id, parent |-> f.parent, via |-> f.via, area |-> f.area, completed |-> f.completed,
           selected |-> Selected(f.best, f.area, Len(f.path))]

(* The reader goes through the file backwards, a parent before its children *)
Keep(kept, row) ==
  IF row.parent = -1 \/ \E p \in kept : p.id = row.parent /\ p.selected = row.via
  THEN kept \cup {row} ELSE kept

SelectedRows ==
  LET kept[i \in 0..Len(rows)] == IF i = 0 THEN {} ELSE Keep(kept[i - 1], rows[Len(rows) + 1 - i])
  IN kept[Len(rows)]

(***************************************************************************)
(* xCompressCU                                                             *)
(***************************************************************************)

(* A unit at its entry: its modes are no split, then the splits on offer    *)
Frame(id, parent, via, area, path) ==
  [id |-> id, parent |-> parent, via |-> via, area |-> area, path |-> path,
   modes |-> <<"NS", "STORE">> \o Offered(area), trying |-> "NONE", left |-> Empty, parts |-> {},
   best |-> {}, completed |-> {}]

Init ==
  /\ frames = <<Frame(0, -1, "NONE", Ctu, Empty)>> /\ nextNodeId = 1
  /\ returned = NoResult /\ cache = Empty /\ rows = Empty /\ coded = NoResult

(* The modes are gone through only while no part is being waited for        *)
Popping(mode) == frames # Empty /\ Top.trying = "NONE" /\ Top.modes # Empty /\ Head(Top.modes) = mode

Reusing == IsValid(frames)

(* What is unsplit is one unit, reached by the splits of the stack: a       *)
(* reused one takes them over in setCUData. origin: who coded it            *)
Unsplit(f, origin) == [area |-> f.area, series |-> f.path, origin |-> origin]

(* Mutant: a reused unit keeps the splits it was stored with                *)
ReusedUnitAsStored(f, entry) == Unsplit([f EXCEPT !.path = entry.series], entry.origin)

ReusedUnit(f, entry) == Unsplit(f, entry.origin)

(* Mutant: a reused coding is counted as the mode that reuses it, which has *)
(* no column                                                                *)
TakeUnsplitAsReused(unit) ==
  frames' = WithTop([Top EXCEPT !.modes = Tail(@), !.best = {unit},
                                !.completed = IF Reusing THEN @ ELSE @ \cup {"NS"}])

TakeUnsplit(unit) ==
  frames' = WithTop([Top EXCEPT !.modes = Tail(@), !.best = {unit}, !.completed = @ \cup {"NS"}])

(* ETM_RECO_CACHED: the stored coding, counted as the mode it was coded in  *)
ReuseCached ==
  /\ Popping("NS") /\ Reusing
  /\ TakeUnsplit(ReusedUnit(Top, cache[Top.area]))
  /\ UNCHANGED <<returned, cache, nextNodeId, rows, coded>>

CodeUnsplit ==
  /\ Popping("NS") /\ ~Reusing
  /\ TakeUnsplit(Unsplit(Top, Top.id))
  /\ UNCHANGED <<returned, cache, nextNodeId, rows, coded>>

(* No split is refused, or no coding of it is found                         *)
LeaveSplit ==
  /\ Popping("NS")
  /\ frames' = WithTop([Top EXCEPT !.modes = Tail(@)])
  /\ UNCHANGED <<returned, cache, nextNodeId, rows, coded>>

(* ETM_POST_DONT_SPLIT: setFromCs                                           *)
StoreUnsplit ==
  /\ Popping("STORE")
  /\ frames' = WithTop([Top EXCEPT !.modes = Tail(@)])
  /\ cache' = IF Top.best = {} THEN cache
              ELSE LET cu == CHOOSE c \in Top.best : TRUE
                       entry == [series |-> cu.series, origin |-> cu.origin, before |-> CodedBefore]
                   IN [a \in DOMAIN cache \cup {Top.area} |-> IF a = Top.area THEN entry ELSE cache[a]]
  /\ UNCHANGED <<returned, nextNodeId, rows, coded>>

RefuseSplit ==
  /\ \E s \in Splits : Popping(s)
  /\ frames' = WithTop([Top EXCEPT !.modes = Tail(@)])
  /\ UNCHANGED <<returned, cache, nextNodeId, rows, coded>>

(* The next part of the split being tested is entered                       *)
Entering(f) ==
  /\ frames' = Append(WithTop([f EXCEPT !.left = Tail(@)]),
                      Frame(nextNodeId, f.id, f.trying, Head(f.left), Append(f.path, f.trying)))
  /\ nextNodeId' = nextNodeId + 1

TestSplit ==
  /\ \E s \in Splits :
       /\ Popping(s)
       /\ Entering([Top EXCEPT !.modes = Tail(@), !.trying = s, !.left = SubAreas(Top.area, s), !.parts = {}])
  /\ UNCHANGED <<returned, cache, rows, coded>>

(* No mode is left: the recorder writes its row and the unit returns        *)
Return ==
  /\ frames # Empty /\ Top.trying = "NONE" /\ Top.modes = Empty
  /\ Top.path # Empty /\ Top.via = "QUAD" => Top.best # {}
  /\ Len(frames) = 1 => Top.best # {}
  /\ rows' = Append(rows, Row(Top))
  /\ frames' = Front(frames)
  /\ IF Len(frames) = 1 THEN coded' = Top.best /\ UNCHANGED returned
                        ELSE returned' = Top.best /\ UNCHANGED coded
  /\ UNCHANGED <<cache, nextNodeId>>

(***************************************************************************)
(* xCheckModeSplit, after each part                                        *)
(***************************************************************************)

Resumes == frames # Empty /\ returned # NoResult

(* A part without a coding ends the test of the split                       *)
AbortSplit ==
  /\ Resumes /\ returned = {}
  /\ frames' = WithTop([Top EXCEPT !.trying = "NONE", !.left = Empty, !.parts = {}])
  /\ returned' = NoResult
  /\ UNCHANGED <<cache, nextNodeId, rows, coded>>

NextPart ==
  /\ Resumes /\ returned # {} /\ Top.left # Empty
  /\ Entering([Top EXCEPT !.parts = @ \cup returned])
  /\ returned' = NoResult
  /\ UNCHANGED <<cache, rows, coded>>

(* All parts are coded: the split is counted, and taken if it is the best   *)
CompleteSplit ==
  /\ Resumes /\ returned # {} /\ Top.left = Empty
  /\ \E better \in BOOLEAN :
       /\ Top.best = {} => better
       /\ frames' = WithTop([Top EXCEPT !.trying = "NONE", !.parts = {}, !.completed = @ \cup {Top.trying},
                                        !.best = IF better THEN Top.parts \cup returned ELSE @])
  /\ returned' = NoResult
  /\ UNCHANGED <<cache, nextNodeId, rows, coded>>

Next == \/ ReuseCached \/ CodeUnsplit \/ LeaveSplit \/ StoreUnsplit \/ RefuseSplit \/ TestSplit
        \/ Return \/ AbortSplit \/ NextPart \/ CompleteSplit

Spec == Init /\ [][Next]_vars

(***************************************************************************)
(* Properties                                                              *)
(***************************************************************************)

(* A coding is reused only where everything coded before the unit is what   *)
(* it was when the coding was found, however the unit was reached: the      *)
(* comparison of the splits in isTheSameNbHood is enough.                   *)
ReuseSound ==
  Popping("NS") /\ Reusing => cache[Top.area].before = CodedBefore

(* The rows the reader keeps once the CTU is coded are those of the coded   *)
(* tree: one unsplit row for each coded unit, and for a split row one row   *)
(* for each of its parts, although units are searched many times.           *)
ReaderFindsTree ==
  coded # NoResult =>
    LET unsplit == {r \in SelectedRows : r.selected = "NS"}
    IN /\ {r.area : r \in unsplit} = {cu.area : cu \in coded}
       /\ \A r, q \in SelectedRows : r.area = q.area => r = q
       /\ \A r \in SelectedRows \ unsplit :
            {q.area : q \in {p \in SelectedRows : p.parent = r.id}} = ToSet(SubAreas(r.area, r.selected))

(* A row that names a selected mode counts it as completed, as the cost the *)
(* reader compares the other modes with; one without has no coding at all.  *)
SelectedCompleted ==
  \A i \in DOMAIN rows : IF rows[i].selected = "NONE" THEN rows[i].completed = {}
                         ELSE rows[i].selected \in rows[i].completed

(***************************************************************************)
(* The inductive invariant                                                 *)
(***************************************************************************)

Units == [area : Areas, series : Seq(Splits), origin : Int]
FrameType == [id : Nat, parent : Int, via : Splits \cup {"NONE"}, area : Areas, path : Seq(Splits),
              modes : Seq(Splits \cup {"NS", "STORE"}), trying : Splits \cup {"NONE"},
              left : Seq(Areas), parts : SUBSET Units, best : SUBSET Units,
              completed : SUBSET (Splits \cup {"NS"})]
RowType == [id : Nat, parent : Int, via : Splits \cup {"NONE"}, area : Areas,
            completed : SUBSET (Splits \cup {"NS"}), selected : Splits \cup {"NS", "NONE"}]
TypeOK ==
  /\ frames \in Seq(FrameType) /\ nextNodeId \in Nat /\ returned \subseteq Units
  /\ rows \in Seq(RowType)
  /\ \A a \in DOMAIN cache : a \in Areas /\ cache[a].series \in Seq(Splits) /\ cache[a].origin \in Int

(* Two areas have no sample in common                                       *)
Apart(a, b) == a.x + a.w <= b.x \/ b.x + b.w <= a.x \/ a.y + a.h <= b.y \/ b.y + b.h <= a.y

(* The series of splits goes through the unit that a path leads to, and     *)
(* through a split of it                                                    *)
Through(series, path) == Len(path) <= Len(series) /\ \A i \in 1..Len(path) : series[i] = path[i]
ThroughSplit(series, path, s) ==
  Through(series, path) /\ Len(path) < Len(series) /\ series[Len(path) + 1] = s

(* Each mode has one turn: no split, its storing, then the splits           *)
OneTurn(modes) ==
  /\ \A i, j \in 1..Len(modes) : i # j => modes[i] # modes[j]
  /\ \A i \in 1..Len(modes) : /\ modes[i] = "NS" => i = 1
                              /\ modes[i] = "STORE" => i = 1 \/ (i = 2 /\ modes[1] = "NS")

(* The parts that wait lie in the unit behind its first one, and apart      *)
PartsWait(left, area) ==
  /\ \A i \in 1..Len(left) : Inside(left[i], area) /\ ~StartsAt(left[i], area)
  /\ \A i, j \in 1..Len(left) : i # j => Apart(left[i], left[j])

(* What is kept was coded through this unit, some unit of it starts where   *)
(* this one does, and the mode it was coded in is counted                   *)
KeptCounted(f) ==
  /\ f.best = {} => f.completed = {}
  /\ f.best # {} => \E cu \in f.best : StartsAt(cu.area, f.area)
  /\ \A cu \in f.best : /\ Through(cu.series, f.path)
                        /\ Len(cu.series) = Len(f.path) => "NS" \in f.completed
                        /\ Len(cu.series) > Len(f.path) => cu.series[Len(f.path) + 1] \in f.completed
  /\ (\E i \in 1..Len(f.modes) : f.modes[i] = "STORE") => \A cu \in f.best : cu.series = f.path

(* A split is tested once; its coded parts go through it                    *)
SplitInTest(f) ==
  /\ \A i \in 1..Len(f.modes) : f.modes[i] \in Splits \ {f.trying}
  /\ \A cu \in f.parts : ThroughSplit(cu.series, f.path, f.trying)
  /\ f.parts # {} => \E cu \in f.parts : StartsAt(cu.area, f.area)

FrameInv(f) ==
  /\ OneTurn(f.modes) /\ PartsWait(f.left, f.area) /\ KeptCounted(f)
  /\ \A i \in 1..Len(f.modes) :
       f.modes[i] \in Splits => \E k \in 1..Len(Offered(f.area)) : Offered(f.area)[k] = f.modes[i]
  /\ f.trying # "NONE" => SplitInTest(f)

(* Unit g is coded below unit f of the stack                                *)
Below(f, g) ==
  /\ f.trying \in Splits /\ ThroughSplit(g.path, f.path, f.trying)
  /\ Inside(g.area, f.area) /\ \A i \in 1..Len(f.left) : Apart(f.left[i], g.area)
  /\ StartsAt(g.area, f.area) => f.parts = {}

StackInv ==
  /\ \A k \in 1..Len(frames) : FrameInv(frames[k]) /\ Len(frames[k].path) = k - 1
  /\ \A k \in 1..Len(frames), j \in 1..Len(frames) : j < k => Below(frames[j], frames[k])
  /\ \A k \in 1..(Len(frames) - 1) :
       frames[k].parts = {} => StartsAt(frames[k + 1].area, frames[k].area)

ReturnedInv ==
  returned # NoResult =>
    /\ frames # Empty /\ Top.trying \in Splits
    /\ \A cu \in returned : ThroughSplit(cu.series, Top.path, Top.trying)
    /\ returned # {} /\ Top.parts = {} => \E cu \in returned : StartsAt(cu.area, Top.area)

(* What the cache says of an area in a unit of the stack whose splits it    *)
(* was stored below: it was stored in a test of that unit that is over, or  *)
(* not in a part that waits, and if it starts where the unit does, with all *)
(* that was coded before the unit                                           *)
StoredBelow(entry, a, f) == Through(entry.series, f.path) /\ Inside(a, f.area)
StoredIn(entry, a, f) ==
  Len(f.path) < Len(entry.series) =>
    LET s == entry.series[Len(f.path) + 1]
    IN /\ \A i \in 1..Len(f.modes) : f.modes[i] # s
       /\ s = f.trying => \A i \in 1..Len(f.left) : ~Inside(a, f.left[i])
Before(stack, j) == UNION {stack[k].parts : k \in 1..(j - 1)}
CacheInv ==
  \A a \in DOMAIN cache, j \in 1..Len(frames) :
    StoredBelow(cache[a], a, frames[j]) =>
      /\ StoredIn(cache[a], a, frames[j])
      /\ StartsAt(a, frames[j].area) => cache[a].before = Before(frames, j)

RecursionInv == TypeOK /\ StackInv /\ ReturnedInv /\ CacheInv /\ SelectedCompleted
=============================================================================
