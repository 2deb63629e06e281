----------------------------- MODULE TrainingData -----------------------------
(* How the training data come about: ref_model/script/run.sh encodes and     *)
(* decodes the videos of a list, the encoder dumps the costs of its search,  *)
(* the decoder appends the final partitioning to one file of labels, and     *)
(* network/src/createDataset.py turns labels and dumps into the CU tree and  *)
(* the cost cache that network/src/train.py loads. Every step may be the     *)
(* last one before a kill, and everything may be started again.              *)
(* A video has one unit to label: node 0, split into the nodes 1..Leaves.    *)
EXTENDS Integers, Sequences, FiniteSets, SequencesExt

CONSTANTS Lists,      \* the video lists of the batches, one run.sh each
          Leaves,
          MaxStarts   \* how often a batch may be started, in all

ASSUME ListsAssumption == Leaves \in Nat \ {0} /\ MaxStarts \in Nat
(* The path of a dump holds the dataset, the split, the name and the QP: two batches that *)
(* run side by side differ in one of them, and never write the same dump                  *)
ASSUME VideosAssumption ==
  /\ \A b \in DOMAIN Lists : Lists[b] \in Seq(Range(Lists[b])) \ {<<>>}
  /\ \A b, c \in DOMAIN Lists : b # c => Range(Lists[b]) \cap Range(Lists[c]) = {}

VARIABLES batch,      \* per list: what run.sh is doing, for which video, lines written for it
          starts,
          dumps,      \* the rows of <video>.tsv, for the files that exist
          done,       \* the videos with a .tsv.done
          labels,     \* the lines of Luma_Partition_Info.txt
          tree,       \* CU_Tree.npy and CU_Tree.pkl: the nodes, the samples
          cache,      \* CU_RDCost.npy and CU_RDCost.pkl: the rows, the sample sizes
          job         \* the conversion that is running
vars == <<batch, starts, dumps, done, labels, tree, cache, job>>
files == <<dumps, done, labels>>
dataset == <<tree, cache, job>>

Videos == UNION {Range(Lists[b]) : b \in DOMAIN Lists}
Nodes == 0..Leaves
None == <<>>            \* a file that does not exist
BlankNode == -1         \* of an array that was given its size but no contents yet
NoRow == <<>>           \* of a node whose costs are not valid
Idle == [doing |-> "nothing"]
Stopped == [step |-> "stopped", nth |-> 1, lines |-> 0]

Init ==
  /\ batch = [b \in DOMAIN Lists |-> Stopped] /\ starts = 0
  /\ dumps = None /\ done = {} /\ labels = <<>>
  /\ tree = [nodes |-> None, samples |-> None] /\ cache = [rows |-> None, sizes |-> None] /\ job = Idle

(***************************************************************************)
(* run.sh                                                                  *)
(***************************************************************************)
At(b, step) == batch[b].step = step
Video(b) == Lists[b][batch[b].nth]
Goto(b, step) == batch' = [batch EXCEPT ![b].step = step]

Start(b) ==
  /\ At(b, "stopped") /\ starts < MaxStarts
  /\ starts' = starts + 1 /\ batch' = [batch EXCEPT ![b] = [Stopped EXCEPT !.step = "clear"]]
  /\ UNCHANGED <<files, dataset>>

(* Killed, or a command that fails under set -e                             *)
Stop(b) ==
  /\ ~At(b, "stopped") /\ batch' = [batch EXCEPT ![b] = Stopped]
  /\ UNCHANGED <<starts, files, dataset>>

(* rm -f <video>.tsv <video>.tsv.done                                       *)
ClearDump(b) ==
  /\ At(b, "clear") /\ Goto(b, "clear mark")
  /\ dumps' = [v \in DOMAIN dumps \ {Video(b)} |-> dumps[v]]
  /\ UNCHANGED <<starts, done, labels, dataset>>

(* Mutant: only the dump is removed                                         *)
MarkClearedMutant(v) == done

MarkCleared(v) == done \ {v}

ClearMark(b) ==
  /\ At(b, "clear mark") /\ Goto(b, "open")
  /\ done' = MarkCleared(Video(b))
  /\ UNCHANGED <<starts, dumps, labels, dataset>>

(* The encoder opens its dump for writing, and writes a row as a unit is    *)
(* left, its parts before itself                                            *)
WholeDump == [i \in 1..(Leaves + 1) |-> IF i <= Leaves THEN i ELSE 0]

OpenDump(b) ==
  /\ At(b, "open") /\ Goto(b, "encode")
  /\ dumps' = [v \in DOMAIN dumps \cup {Video(b)} |-> IF v = Video(b) THEN <<>> ELSE dumps[v]]
  /\ UNCHANGED <<starts, done, labels, dataset>>

EncodeNode(b) ==
  /\ At(b, "encode") /\ dumps[Video(b)] # WholeDump
  /\ dumps' = [dumps EXCEPT ![Video(b)] = SubSeq(WholeDump, 1, Len(@) + 1)]
  /\ UNCHANGED <<batch, starts, done, labels, dataset>>

EndEncode(b) ==
  /\ At(b, "encode") /\ dumps[Video(b)] = WholeDump /\ Goto(b, "mark")
  /\ UNCHANGED <<starts, files, dataset>>

(* touch <video>.tsv.done: before the stream is decoded                     *)
MarkDone(b) ==
  /\ At(b, "mark") /\ Goto(b, "decode")
  /\ done' = done \cup {Video(b)}
  /\ UNCHANGED <<starts, dumps, labels, dataset>>

(* The decoder appends a line for each unsplit unit                         *)
DecodeLeaf(b) ==
  /\ At(b, "decode") /\ batch[b].lines < Leaves
  /\ batch' = [batch EXCEPT ![b].lines = @ + 1]
  /\ labels' = Append(labels, [video |-> Video(b), leaf |-> batch[b].lines + 1])
  /\ UNCHANGED <<starts, dumps, done, dataset>>

(* The decoded video is compared, or --skip-decode; a mismatch is a Stop    *)
NextVideo(b) ==
  /\ At(b, "decode") /\ batch[b].lines \in {0, Leaves}
  /\ batch' = [batch EXCEPT ![b] = IF @.nth = Len(Lists[b]) THEN Stopped
                                   ELSE [step |-> "clear", nth |-> @.nth + 1, lines |-> 0]]
  /\ UNCHANGED <<starts, files, dataset>>

(***************************************************************************)
(* createDataset.py --action cu-tree                                       *)
(***************************************************************************)

(* iter_partition_groups: consecutive lines of one key                      *)
AddLine(groups, line) ==
  IF groups # <<>> /\ Last(groups).video = line.video
  THEN ReplaceAt(groups, Len(groups), [Last(groups) EXCEPT !.leaves = @ \cup {line.leaf}])
  ELSE Append(groups, [video |-> line.video, leaves |-> {line.leaf}])

GroupsOf(lines) ==
  LET groups[i \in 0..Len(lines)] == IF i = 0 THEN <<>> ELSE AddLine(groups[i - 1], lines[i])
  IN groups[Len(lines)]

(* The nodes of a group: the unit, and the leaves it is split into          *)
InOrder(S) ==
  CHOOSE seq \in [1..Cardinality(S) -> S] : \A i, j \in DOMAIN seq : i < j => seq[i] < seq[j]
NodesOf(group) == <<0>> \o InOrder(group.leaves)
Samples(groups) == [g \in DOMAIN groups |-> [video |-> groups[g].video, size |-> Len(NodesOf(groups[g]))]]

(* offsets: where the nodes of each sample end in the array of all nodes    *)
Ends(samples) ==
  LET ends[s \in 0..Len(samples)] == IF s = 0 THEN 0 ELSE ends[s - 1] + samples[s].size
  IN ends
Total(samples) == Ends(samples)[Len(samples)]
SampleOf(samples, i) ==
  CHOOSE s \in DOMAIN samples : Ends(samples)[s - 1] < i /\ i <= Ends(samples)[s]

TreeNodes(groups) ==
  LET samples == Samples(groups)
  IN [i \in 1..Total(samples) |->
        LET s == SampleOf(samples, i) IN NodesOf(groups[s])[i - Ends(samples)[s - 1]]]

(* The array has its size at once and its contents later: a job that dies   *)
(* in between leaves an array of blank nodes                                *)
StartTree ==
  /\ job = Idle /\ labels # <<>>
  /\ job' = [doing |-> "tree", groups |-> GroupsOf(labels)]
  /\ tree' = [tree EXCEPT !.nodes = [i \in DOMAIN TreeNodes(GroupsOf(labels)) |-> BlankNode]]
  /\ UNCHANGED <<batch, starts, files, cache>>

FillNodes ==
  /\ job.doing = "tree"
  /\ tree' = [tree EXCEPT !.nodes = TreeNodes(job.groups)] /\ job' = [job EXCEPT !.doing = "samples"]
  /\ UNCHANGED <<batch, starts, files, cache>>

SaveSamples ==
  /\ job.doing = "samples"
  /\ tree' = [tree EXCEPT !.samples = Samples(job.groups)] /\ job' = Idle
  /\ UNCHANGED <<batch, starts, files, cache>>

KillJob ==
  /\ job # Idle /\ job' = Idle
  /\ UNCHANGED <<batch, starts, files, tree, cache>>

(***************************************************************************)
(* createDataset.py --action rdocost                                       *)
(***************************************************************************)

(* discover_rdo_files_for_dataset                                           *)
Discovered == {v \in done \cap DOMAIN dumps : dumps[v] # <<>>}

Sizes(samples) == [s \in DOMAIN samples |-> samples[s].size]

(* The key of each node, in the order of the array                          *)
Keys(nodes, samples) ==
  [i \in 1..Total(samples) |-> <<samples[SampleOf(samples, i)].video, nodes[i]>>]

(* Mutant: a key found again gets the same row                              *)
KeysAcceptedMutant(keys) == TRUE

(* "Duplicate CU-tree node key"                                             *)
KeysAccepted(keys) == IsInjective(keys)

(* Blank rows are not valid yet; a cache that is there is taken over        *)
BlankRows(nodes) == [i \in DOMAIN nodes |-> NoRow]
Inherited(nodes) ==
  IF cache.rows # None /\ cache.sizes # None THEN cache.rows ELSE BlankRows(nodes)

StartCosts ==
  /\ job = Idle /\ tree.samples # None /\ Discovered # {}
  /\ Total(tree.samples) <= Len(tree.nodes)
  /\ LET keys == Keys(tree.nodes, tree.samples)
         rows == Inherited(tree.nodes)
     IN /\ KeysAccepted(keys) /\ Len(rows) = Len(tree.nodes)
        /\ job' = [doing |-> "read", left |-> Discovered, keys |-> keys, rows |-> rows,
                   sizes |-> Sizes(tree.samples)]
  /\ UNCHANGED <<batch, starts, files, tree, cache>>

(* iter_final_dataset_rdo_records: no row counts without the row of its root *)
FinalRows(v) ==
  IF v \in DOMAIN dumps /\ 0 \in Range(dumps[v]) THEN {<<v, n>> : n \in Range(dumps[v])} ELSE {}

(* A file found a while ago is read now. "Duplicate final-tree RDCost key"  *)
ReadDump(v) ==
  /\ job.doing = "read" /\ v \in job.left /\ v \in DOMAIN dumps
  /\ LET hit == {i \in DOMAIN job.keys : job.keys[i] \in FinalRows(v)}
     IN /\ \A i \in hit : job.rows[i] = NoRow
        /\ job' = [job EXCEPT !.left = @ \ {v},
                              !.rows = [i \in DOMAIN @ |-> IF i \in hit THEN job.keys[i] ELSE @[i]]]
  /\ UNCHANGED <<batch, starts, files, tree, cache>>

(* "RDCost validation failed": a node without a row                         *)
SaveRows ==
  /\ job.doing = "read" /\ job.left = {} /\ NoRow \notin Range(job.rows)
  /\ cache' = [cache EXCEPT !.rows = job.rows] /\ job' = [job EXCEPT !.doing = "sizes"]
  /\ UNCHANGED <<batch, starts, files, tree>>

SaveSizes ==
  /\ job.doing = "sizes"
  /\ cache' = [cache EXCEPT !.sizes = job.sizes] /\ job' = Idle
  /\ UNCHANGED <<batch, starts, files, tree>>

BatchStep(b) ==
  \/ Start(b) \/ Stop(b) \/ ClearDump(b) \/ ClearMark(b) \/ OpenDump(b) \/ EncodeNode(b)
  \/ EndEncode(b) \/ MarkDone(b) \/ DecodeLeaf(b) \/ NextVideo(b)

Next ==
  \/ \E b \in DOMAIN Lists : BatchStep(b)
  \/ StartTree \/ FillNodes \/ SaveSamples \/ KillJob
  \/ StartCosts \/ (\E v \in Videos : ReadDump(v)) \/ SaveRows \/ SaveSizes

Spec == Init /\ [][Next]_vars

(***************************************************************************)
(* Properties                                                              *)
(***************************************************************************)

(* RDAwareGridmapCuTreeDataset: what training loads                         *)
Loadable ==
  /\ tree.samples # None /\ cache.rows # None /\ cache.sizes # None
  /\ Len(cache.rows) = Len(tree.nodes) /\ cache.sizes = Sizes(tree.samples)

(* However the batches are killed and started again, a dump that a reader   *)
(* takes, by its mark and its size, was written to its end.                 *)
TakenWhole == \A v \in Discovered : dumps[v] = WholeDump

(* The inductive invariant of the dumps: a mark and a dump of one video exist together    *)
(* only while the dump is whole, since a batch that is at the video has removed the mark  *)
(* before it opens the dump, and the dump before the mark.                                *)
Steps == {"stopped", "clear", "clear mark", "open", "encode", "mark", "decode"}
Begun == {SubSeq(WholeDump, 1, n) : n \in 0..(Leaves + 1)}     \* what is written of a dump
DumpsTyped ==
  /\ batch \in [DOMAIN Lists -> [step : Steps, nth : Nat, lines : Nat]]
  /\ \A b \in DOMAIN Lists : batch[b].nth \in DOMAIN Lists[b]
  /\ dumps \in [DOMAIN dumps -> Begun]
MarkedWhole == \A v \in done \cap DOMAIN dumps : dumps[v] = WholeDump
MarkInTurn(b) ==
  /\ At(b, "clear mark") => Video(b) \notin DOMAIN dumps
  /\ At(b, "open") \/ At(b, "encode") => Video(b) \notin done
  /\ At(b, "encode") \/ At(b, "mark") => Video(b) \in DOMAIN dumps
  /\ At(b, "mark") => dumps[Video(b)] = WholeDump
DumpInv == DumpsTyped /\ MarkedWhole /\ \A b \in DOMAIN Lists : MarkInTurn(b)

(* However batches and conversions are killed, started again and interleaved, *)
(* what training loads holds no sample twice, and the costs of each sample  *)
(* are those of its own video.                                              *)
CostsMatchSamples ==
  Loadable =>
    /\ \A s, t \in DOMAIN tree.samples : tree.samples[s].video = tree.samples[t].video => s = t
    /\ \A i \in DOMAIN cache.rows : cache.rows[i][1] = tree.samples[SampleOf(tree.samples, i)].video
=============================================================================
