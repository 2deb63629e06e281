# A verification development of FastPartitionVTM

FastPartitionVTM is VTM 24.0, the reference encoder and decoder of VVC, with a
learned policy that prunes the partition search of intra pictures: a Swin
network predicts, per 32x32 luma block, features from which small classifiers
give the probability of each way to split a coding unit, and the classes whose
probability stays under a threshold are not tested. This directory holds TLA+
models of the parts of the program that carry their own control, the TLC
configurations that check them and proofs that TLAPS checks. They follow one
picture through the program: the partition search and its learned policy, the
cost table the search leaves behind, the coded slice and its way through the
byte stream, the decoder's picture buffer, and the scripts that turn labels and
costs into training data.

Paths below are relative to `VVCSoftware_VTM/source/Lib` unless they start with
another directory of the repository. `PROJECT.json` maps every definition to the
lines it models.

## 1. Inventory

| Component | State | Operations | Interacts with | What makes it correct |
|---|---|---|---|---|
| Partitioner: `QTBTPartitioner` (`CommonLib/UnitPartitioner`) | stack of levels, six depth counters, quantisation-group positions, a cached implicit split per level | `initCtu`, `splitCurrArea`, `nextPart`, `exitCurrSplit`, `canSplit`, `getImplicitSplit` | driven by `EncCu` and `CABACReader`, read by `EncModeCtrl`, `IntraSearch` | the counters and caches depend on the path only, whatever was tried before; no CHECK fires; units lie in the picture; parts tile |
| Policy decision: `xFastPartitionGetAllowedClasses` and `fastPartitionRejected` (`EncoderLib/EncModeCtrl`) | the rejected classes of a unit | comparison with thresholds, fallback, installation | asks the partitioner for the legal classes, `EncFastPartition` for probabilities | a legal class is always left; nothing rejected is tested |
| Mode decision: `EncModeCtrlMTnoRQT` | a stack of `ComprCUCtx`: the modes to test, features, best coding | `initCULevel`, `tryMode`, `nextMode`, `useModeResult`, `finishCULevel` | called by `EncCu`, calls the policy | the search ends, with a coding, with the cheapest legal one; skip rules read what they think they read |
| CU compression: `EncCu::xCompressCU`, `xCheckModeSplit` | temporary and best coding structures per size, `splitRdCostBest` | the search loop, the recursion into parts | all of the above, `IntraSearch`, CABAC estimation | every part of a quad split is coded; costs compared are those of this unit |
| Inference and prediction cache: `EncFastPartition` | the predictions of the 32x32 blocks of the present CTU | `init`, prepare per CTU, `inferCu` | `EncCu::compressCtu` fills it, `EncModeCtrl` reads it | a unit only uses predictions of the present CTU and of the block that contains it |
| Configuration (`EncoderLib/EncCfg.h`, `App/EncoderApp/EncAppCfg.cpp`) | thresholds per size, model paths | parsing, validation | `EncLib`, `EncModeCtrl` | a partly given policy is an error |
| Reuse: `BestEncInfoCache` | best codings by position and size | `setFromCs`, `isValid`, `setCsFrom` | `initCULevel`, POST_DONT_SPLIT, `xReuseCachedResult` | a reused coding is still decodable at its new place |
| RDO cost recorder (`EncoderLib/EncCu.cpp`) | a stack of recorders, a node counter, the rows of a file | scheduled, completed, a row per unit | `xCompressCU`; read by `script/ThSearch_RdoCost.py` and `network/src/createDataset.py` | the rows of the coded tree, and only those, can be found again |
| Arithmetic coder (`EncoderLib/BinEncoder`, `DecoderLib/BinDecoder`) | low, range, held-back bytes, bits left; value, range, bits needed | bins with a context, bypass, aligned, terminate; `finish` | writer and reader of the syntax, `BitStream` | the decoder gets the bins that were coded and ends where the slice ends |
| NAL units and byte stream (`EncoderLib/NALwrite`, `AnnexBwrite`, `DecoderLib/NALread`, `AnnexBread`) | the bytes written, the bytes to read | emulation prevention, start codes, parsing | `EncGOP`, `DecApp` | every unit is found again, whole, with its payload |
| Decoder and its picture buffer (`DecoderLib/DecLib`, `CommonLib/Slice`, `App/DecoderApp/DecApp`) | the list of pictures with their marks, some fifteen flags and POCs of the decoding loop | decode a slice, finish a picture, write, flush | the application holds the list of the library | references are there while they are needed; every picture is shown once, in order |
| Sample processing: intra and inter search, transform, quantisation, loop filters | pictures, coefficients | - | `EncCu` | numerical |
| Syntax, parameter sets, GOP and rate control, SEI | tables | write and read | `EncLib`, `DecLib` | what is written is read back |
| Batch and data set scripts (`ref_model/script/run.sh`, `network/src/createDataset.py`) | dumps, `.done` markers, labels, CU tree, cost cache | encode, decode, convert; killed and started again | files only | what training loads is complete and belongs together |
| Evaluation scripts (`script/*.py`) | run manifest, result tables | run, verify, search thresholds | start the encoder and decoder | results that are reported were verified |
| Networks: `network/src` | models, data sets | train, export | exports what `EncFastPartition` loads | numerical |

Encoder and decoder are single-threaded here: what is hard is not interleaving
but *history*. The search tries and abandons thousands of partitions of one CTU
on shared mutable state (counters, caches, stored results, feature flags), and
every decision must depend on the present unit only, or on exactly the history it
is meant to depend on. The decoder has the same kind of history in its flags
and its picture list. Only the scripts meet kills, restarts and each other.
`PROJECT.json` lists the hazards at their lines.

What is hard, component by component, and the property that answers it:

| Hazard | Where | Property |
|---|---|---|
| a ternary split left early is undone with the wrong depths | `UnitPartitioner.cpp:672` | `Balanced`, `ExitRestores` |
| a level answers with the implicit split of its previous part | `UnitPartitioner.cpp:705` | `CacheFresh` |
| the QP predictor is fetched at the group of an abandoned split | `UnitPartitioner.cpp:649` | `QgAnchored` |
| a CHECK of the partitioner fires at the picture border | `UnitPartitioner.cpp:433, 498` | `ChecksHold` |
| a unit that leaves the picture stays unsplit | `UnitPartitioner.cpp:597` | `LeafInPic` |
| implicit splits make the tree deeper than its limit, or than its stack | `UnitPartitioner.cpp:602` | `DepthBudget`; `StackBounded` (theorem) |
| policy, quad-tree depths and skip rules together leave nothing to test | `EncModeCtrl.cpp:1965` | `Encoded`, `NoSplitSuffices`, `QuadPartCoded` |
| a mark says "tested and lost" of a split the policy removed | `EncModeCtrl.cpp:1870` | `DidHonest` |
| a cached coding slips past the policy | `EncModeCtrl.cpp:1974` | `PolicyKept` |
| skip rules read costs before they are there | `EncModeCtrl.cpp:1694, 1749` | `BinaryFirst`, `StoredFirst`, `BestIsLeast` |
| the search loop never runs out of modes | `EncCu.cpp:1616` | `Terminates` |
| a CTU is pruned with the predictions of another one | `EncCu.cpp:778` | `MapsCurrent` |
| a unit is classified from cells that are not its own | `EncFastPartition.cpp:271` | `RoiIsUnit`, `AlwaysCovered` |
| a classifier shape is missing in the middle of a CTU | `EncFastPartition.cpp:194` | `BranchLoaded` |
| a reused coding was predicted from other neighbours | `EncModeCtrl.cpp:1187` | `ReuseSound` |
| the readers of the cost table follow a tree that was not coded | `EncCu.cpp:328` | `ReaderFindsTree` |
| the selected mode has no cost in its row | `EncCu.cpp:193` | `SelectedCompleted` |
| a carry arrives after the bytes it changes were decided | `BinEncoder.cpp:304` | `SameBins` |
| a payload contains a start code, or loses a byte 3 | `NALwrite.cpp:97`, `NALread.cpp:66` | `NoStartCodeInside`, `ImplementsTransport` |
| the parser of the stream misses or cuts a unit | `AnnexBread.cpp:145` | `AllDelivered` |
| the slot of a picture still needed is reused | `DecLib.cpp:675` | `RefsFound`, `TypeOK` |
| pictures are written too early, too late or twice | `App/DecoderApp/DecApp.cpp:1036` | `Bounded`, `ImplementsDisplay` |
| a picture is not finished around an end of sequence | `App/DecoderApp/DecApp.cpp:381` | `AllShown` |
| a dump is read that a killed run left unfinished | `ref_model/script/run.sh:206` | `TakenWhole` |
| costs end up with samples of another video | `network/src/createDataset.py:1018` | `CostsMatchSamples` |

## 2. Modules

| Module | Models | Composition |
|---|---|---|
| `CuAreas` | the areas of the parts of a split | - |
| `Partitioner` | `QTBTPartitioner` | extends `CuAreas` |
| `SplitClasses` | the comparison of `xFastPartitionGetAllowedClasses` and the marks of `initCULevel`, as operators | - |
| `ModeCtrl` | the search of one unit: `EncModeCtrlMTnoRQT` with the loop of `xCompressCU` and the exits of `xCheckModeSplit` | extends `SplitClasses` |
| `UnitSearch` | nothing of the code: what a unit's search promises its caller | implemented by `ModeCtrl` |
| `FastPartition` | the prediction cache, and the walk of `compressCtu` over CTUs, channels and pictures | extends `Partitioner`, and implements it |
| `CuRecursion` | the recursion of `xCompressCU` over a CTU, `BestEncInfoCache`, the cost table and its readers | extends `CuAreas`, `SplitClasses` |
| `BinCoder` | the arithmetic coder and decoder | - |
| `NalUnits` | NAL units written to a byte stream and read back | - |
| `SliceStream` | a coded slice among other NAL units, from bins to bins | extends `BinCoder`, `NalUnits` |
| `Transport` | nothing of the code: units arrive unchanged and in order | implemented by `SliceStream` |
| `DecodedPictures` | the decoding loop, the picture list and the output | - |
| `Display` | nothing of the code: which picture may be shown next | implemented by `DecodedPictures` |
| `TrainingData` | `run.sh` and the conversions of `createDataset.py`, over the files they share | - |
| `MC...` | instances for TLC; `MCModeCtrl` takes its units from an instance of `Partitioner` | |
| `PartitionerProofs`, `ModeCtrlProofs`, `CuRecursionProofs`, `BinCoderProofs`, `DecodedPicturesProofs`, `TrainingDataProofs` | theorems and proofs of the module they are named after | extend it |
| `FastPartitionProofs` | theorems of `FastPartition` | extends it and `PartitionerProofs` |
| `SliceStreamProofs` | theorems of `SliceStream` and `NalUnits` | extends `SliceStream` and `BinCoderProofs` |

A definition named `...Mutant...` is a plausible mistake in the definition it
stands before; `PROJECT.json` names the property that notices it.

### Partitioner

`stack` is `m_partStack`, a level being a `PartLevel`: the split that made it,
its parts, the present part and the cached implicit split (`checked`,
`isImplicit`, `implicitSplit`). `curr` holds the six counters, `qgPos` the two
group positions. `saved` is history: the value of `curr` when each level was
pushed.

`InitCtu`, `SplitCurrArea`, `NextPart` and `ExitCurrSplit` are the calls of the
same names. A caller may split with any split `canSplit` allows, move on or
leave at any time: that is how the search tries and abandons splits, and the
parser is the special case that abandons none. `Query` is a call of
`getImplicitSplit` (or `canSplit`, which makes it), the only query that changes
state. The borders follow `nextPart`: a part may start outside the picture, in
which case the callers skip it. `Powers`, `AreaFits` and `LevelsLegal` are no part of the
code: they say what `AreaInv` knows of areas and levels.

### ModeCtrl

`node` is what the search asks of the partitioner about the unit, `facts` what it
reads of neighbours, cache and samples. `modes` is the stack of test modes,
`did`, `tri` and `maxQtSub` are the features of `ComprCUCtx` (`DID_*`, `DO_TRI*`,
`MAX_QT_SUB_DEPTH`), `splitCost` the costs behind `splitRdCostBest`, `best` the
best coding. `phase` follows the loop: `InitCULevel`, then for each mode on top
`Accept` or `Refuse` (`tryMode`), then one of `TestUnsplit`, `TestSplit`,
`GiveUpSplit` for the accepted one, and `Finish` when `nextMode` finds none.
`tryMode` is split by its own order: the rules any mode meets first
(`MandatoryRule`, `PolicyRule`, `ReuseRule`, `DepthRule`), then the rules for
splits (`ContentRefuses`, `QtPointless`, `TriPointless`, `QtWentDeep`,
`SkipTree`).

The recursion is cut (`CuRecursion` has it): what coding a part costs, how deep it was split and
whether it has a residual are chosen freely in each step, which includes
every result a real recursion gives. A test of an unsplit mode is taken to give
a coding. Probabilities and thresholds are reduced to the set of classes that
reach their threshold.

### FastPartition

`cache` is `m_fastPartitionLuma32CtuCache`. A description's values are abstracted
to `of`, the picture and place of the samples it was computed from, which is what
staleness is about. `Prepare` is `xFastPartitionPrepareLuma32Ctu` with its early
returns; `Asked` are the conditions under which
`xFastPartitionGetAllowedClasses` reaches `inferCu`, asked of the partitioner's
present state; `CoveringMaps` and `Roi` are the lookup and the cells it takes.
CTUs of inter slices are compressed without a walk: the policy is not asked
there and `Partitioner` covers intra slices only.

### CuRecursion

`frames` is the stack of activations of `xCompressCU`, with what each holds on the
way: the series of splits from the CTU (`splitSeries`), the modes left, the best
coding, and the split being tested with its parts. `Popping` a mode is
one turn of the loop; `TestSplit`, `NextPart`, `AbortSplit` and `CompleteSplit` are
`xCheckModeSplit` before, between and after its parts; `Return` is the end of the
loop and the destructor of the recorder, which writes a row. `cache` is
`m_bestEncInfo`: one unsplit coding per area, the last stored. A coding remembers the
series of splits it was made under and its `origin`, the activation that computed
it; `before` is history: which units had been coded when it was stored. Which
modes are offered, refused or cheaper is free. `SelectedRows` is the reader: it goes
through the file backwards and keeps a row whose parent was kept and selected the
mode that led to it.

`ReuseSound` says a reused coding was made with exactly the same units coded before
it, which is what its samples and contexts depend on; the code decides it from the
two series of splits only (`isTheSameNbHood`).

### BinCoder, NalUnits, SliceStream

`BinCoder` keeps the fields of both engines as records with the arithmetic of the
code on 32-bit words that its values never leave. A context is reduced to the state
it has when the bin is coded. The decoder is asked for the
symbols that were coded and `verdict` says what it made of them, including the
CHECKs at the end of the slice. `NalUnits` has the unit being written (`unit`), the
stream (`file`), and the reader; `queue` is history, the units that should
still arrive. Both are sequential in the program; `SliceStream` lets one slice and
other units go through them in the order encoder and decoder use: code, write,
close the file, read, decode.

### DecodedPictures

`vtm` holds the fields of `DecApp` and `DecLib` that decide what is kept and shown;
`dpb` is `m_cListPic` by POC. One action is one iteration of the loop of
`DecApp::decode`: `NewPicture` when the next NAL unit belongs to another picture,
`DecodePicture` for a slice, `EndOfSequence` for an EOS; the last two may be the end
of the file, with the flush behind the loop. The stream is written on the fly by a
conforming encoder (`enc`, `Legal`), which tracks the hypothetical decoder of the
standard; the rules for leading pictures and reference lists are those the decoder
itself CHECKs in `Slice::checkLeadingPictureRestrictions` and `Slice::checkRPL`. `due` is what must still
be shown. `Ready` is what one pass of `xWriteOutput` over the list writes, as a set: the pass counts
down what waits and what is full as it goes, so a picture is written exactly if too many are left
when those before it are gone. `Oddities` admits two kinds of stream on which the decoder loses a picture;
`dpb` has none of them, `dpb_last` one.

A skipped RASL picture leaves the position shown last (`lastDisplay`, `m_iPOCLastDisplay`) alone.
`isRandomAccessSkipPicture` does count `iPOCLastDisplay` up (`DecLib.cpp:4327`), through a reference, but to
the parameter of `xDecodeSlice`, which `DecLib::decode` passes by value (`DecLib.cpp:3046`, `4210`; `DecLib.h:414`):
the count ends in that copy, which nothing reads after line 3301. It matters for streams that hide their RASL
pictures, whose trailing pictures may have POCs close behind: were the position passed on by reference, the decoder
would pass over waiting pictures, show them late and keep too many. `dpb` has such streams, and
`DecodeSliceByReference` is the mutant that breaks `ImplementsDisplay` on them.

### TrainingData

Each action is one command of `run.sh` or one file written by `createDataset.py`, so
that a kill may fall between any two (`Stop`, `KillJob`). A video is one unit that is
split into `Leaves` parts: its dump has a row per node, its labels a line per leaf. The two
batches work on different videos and share the file of labels; the conversions
check their keys as the code does and end without a trace where it raises. A line of labels is appended as a whole:
that a kill may leave part of a line in the file is left out (such a line fails to parse, or to match a node).

## 3. Runs

| Run | Instance | Shows |
|---|---|---|
| `part_small` | 72x56 picture, 64x64 CTUs, limits halved | the inductive invariant where both CTUs are cut on two sides and implicit binary splits reach the depth limit |
| `part_vtm` | 136x72 picture, 128x128 CTUs, dual tree, limits of `cfg/encoder_intra_vtm.cfg` | each invariant, in every order of tried and abandoned splits |
| `search_policy` | every kind of unit the partitioner reaches on a 72x64 picture, with and without a forced quad split | the search with the policy in front of it, and that it implements `UnitSearch` |
| `search_content` | units with fewer than six legal classes, `ContentBasedFastQtbt` on, parts that may fail | the inductive invariant of the search, and what is left when parts fail |
| `search_quadpart` | the same | the finding below |
| `fp_pics` | two pictures of 168x136, intra or inter, 128x128 CTUs, luma and chroma | descriptions are current, cover every unit that is asked about, and the walk implements the partitioner |
| `fp_shapes` | 128x72 picture, limits of 64, smallest quad-tree leaf 32 | units across two blocks find no description; every shape that occurs has a classifier |
| `recursion` | a CTU of 4x2 blocks, one half with one split, the other with every way down to a block | reuse is sound, the readers find the coded tree, the selected mode has a cost |
| `stream` | up to 2 NAL units, a slice of up to 4 symbols, other payloads of the bytes 0, 1, 3, 128, up to 4 symbols and bytes in all | no start code inside a unit, all units delivered, the same bins, `Transport` |
| `dpb` | every conforming stream of up to 6 pictures with POCs up to 5, one picture of reordering, a buffer of 2; RASL pictures may be hidden | references found, buffer bounded, all pictures shown in order, `Display` |
| `dpb_last` | up to 5 pictures with POCs up to 3, a buffer of 3; CRA and trailing pictures may be hidden; the stream may end in one picture after an EOS | the second finding below |
| `batch` | two batches (two videos, one video), two leaves each, two starts in all, any number of conversions | dumps that are taken are whole, costs belong to their samples |

Why the bounds are enough. The partitioner's rules compare sizes, depths and
borders: one CTU cut on each side, one channel with each set of limits and a
depth of three multi-type splits below the quad tree exercise every rule and its
complement, and the proofs remove the bound. `MaxBtDepth` is 2 in `fp_pics`,
which has more CTUs to walk. Units are symmetric up to what the rules read, so
`MCModeCtrl` searches one unit of each kind (`Kind`), and two costs besides "no
coding" are enough to tell cheaper from dearer from equal. Two pictures show a
description surviving a picture, four CTUs one surviving a CTU, a column or a row.

In `recursion` each single block of the right half is reached by a quad split and by two
binary ones, after parts that were coded in other ways or abandoned: reuse is right for the
first block and wrong for one whose neighbours differ, and both occur. `stream` has the
symbols that drive the coder into its corners: bypass bytes that make
it hold back bytes of 255 and then carry into them, a run longer than a byte, bins of
a nearly certain and of an undecided context, and the range 256 after which bypass bins are
aligned; the four payload bytes are the two that matter to start codes, the one that
matters to emulation prevention and one other. The proof removes the bound on payloads. Six
pictures in `dpb` are enough for two or three sequences with leading and trailing pictures,
a full buffer and a reused slot, and for trailing pictures that wait behind skipped RASL pictures. `MaxNumReorder` and
the buffer size are so small that pictures wait and that either limit makes them be written. Which other types
may be hidden makes no difference to the proofs, which have any set of `HiddenTypes`. `batch`
has one restart of either batch, beside or after the other one, which repeats or interleaves groups.

`CHECK_DEADLOCK FALSE` is set where the system ends: a unit's search when its
modes are used up, the walk after the last picture, a CTU that is coded, a stream that is
read, and batches that have used up their starts. The partitioner's runs check deadlock.

Fairness. `ModeCtrl` assumes `WF_vars(Next)`: one thread runs the do-while loop
of `xCompressCU` to its end and nothing else can disable a step. The other
specifications state safety only and assume none.

### Findings

`search_quadpart` shows a disagreement between two rules of the encoder.
`xCheckModeSplit` CHECKs that the search of a part of a quad split ends with a
coding (`EncCu.cpp:1928`). With `ContentBasedFastQtbt` and `IntraPeriod` 1, the
texture rule refuses both splits of one direction on a square unit
(`EncModeCtrl.cpp:2218`); when the policy has kept just those, nothing is left
to test. `cfg/alternative-addon/reduced_runtime2.cfg` and `reduced_runtime3.cfg`
turn the rule on; the configurations in `script/` leave it off, and there
`Encoded` holds.

`dpb_last` shows a picture that is decoded and never written. An EOS sets `loopFiltered`
(`App/DecoderApp/DecApp.cpp:386`) so that the end of the file right behind it does not finish
its picture twice. If one picture follows and the file ends with it, there is neither a
new picture nor an EOS to reset the flag, and `!loopFiltered || bitstreamFile` (line 381) is false:
the picture is not finished, is not needed for output, and `xFlushOutput` ("flush all remaining
decoded pictures to file", `DecApp.h:115`) passes over it. Two pictures after the EOS are
enough to avoid it.

## 4. Proofs

Each theorem holds for every value of the constants under the assumptions the
modules name, which TLC evaluates on every instance, and what a theorem's own ASSUME adds:

- `SizesAssumption`, `LimitsAssumption`: sizes are positive, limits are numbers per channel.
- `PowersAssumption`: a CTU has a power of two samples a side, at most 128 (`MAX_CU_SIZE`) and twice the largest
  transform, 64 (`CTUSize` is 32, 64 or 128, `App/EncoderApp/EncAppCfg.cpp:5309`); the sides of a
  picture are multiples of 8 (lines 3150, 3221, 5338) and limits are at least 4, the smallest
  coding block (line 5298, `CommonLib/Slice.h:1162`). The limits need not be powers of two.
- `PredictionAssumption`: luma is searched, the blocks have 32 samples a side and the cells 4 (literals in
  `EncFastPartition.cpp`), and the CTU the networks were made for is a number of blocks.
- `BoundsAssumption`, `NodesAssumption`: a unit has a legal class, staying unsplit is one
  where nothing is implied, otherwise only the implied split and the quad split can be (`canSplit`); where
  nothing is implied, no side is longer than 64 (`getImplicitSplit` under a dual tree).
- `CtuAssumption`, `OfferedAssumption`: a CTU has samples, a unit is offered a split once, and
  only one that leaves samples in each part.
- `NalAssumption`, `SliceAssumption`: types and bytes are what they are called.
- `CoderAssumption`: a symbol is one bin with a context, whose probability has a 5-bit `q`, one terminate bin, or up
  to 16 bypass bins, and its value has no more bits than it has bins (what `encodeBinsEP` is called with).
- `BufferAssumption`: POCs lie below `MAX_INT`, which the decoder keeps as a sentinel, and a stream
  allows for at least one picture (`max_dec_pic_buffering` is coded less one). Any stream a conforming
  encoder writes (`Legal`) is allowed, the two oddities included.
- `ListsAssumption`, `VideosAssumption`: a list of videos is not empty, and two batches that run side by side
  have no video in common: the path of a dump names its data set, split, video and QP.

*Partitioner.* `IInv` is `TypeOK`, `Balanced`, `CacheFresh`, `DepthBudget`,
`QgAnchored` and three facts that make them inductive: `Suspended` (a level below
the innermost one keeps the part and the answer it was split with, so that
leaving a split finds them), `PartsShape` (a level has as many parts as its split
says) and `QgNested` (no group opens inside a level that opens none). The main
step is that `splitCurrArea` followed by any number of `nextPart` adds exactly
`Descend`, a function of the split and the present part, and `exitCurrSplit`
subtracts it (`PushIsDescend`, `AdvanceIsDescend`, `PopInverts`). `LeavesInside` follows from
`CacheFresh`: a unit that may stay unsplit has no implicit split, which the two
corner tests give only inside the picture.

*Areas.* `ChecksNeverFire` and `LevelsTile` rest on `LevelInv`, which says level by level what
`AreaInv` says, and that the parts of a level tile the area above (`Tiles`). `AreaInv` is that
sides are powers of two of at least 4, positions multiples of 4, quad-tree parts squares in their
own grid, and that an area that sticks out of the picture lies in the grid of its sides and is small
enough to be split again (`AreaFits`); and that each level below the first was made by a
split `canSplit` allows on the part above (`LevelsLegal`). The last part carries the induction: the rules
compare the present part with the first one and with the split above it (a ternary
part is not split again the same way), so that how a level came about must be known.
`LegalIsFit` turns the comparisons of `canSplit` into divisibility, `SubFits` carries areas to their
parts and `SubAreasTile` does the tiling, sample by sample, for each kind of split. `Powers` is
defined by divisors, since powers of two would need a recursion.

`StackBounded` answers for the fixed capacity of `PartitioningStack`, 15 levels, which `DepthBudget` does not: implicit splits
extend the depth. `Shrunk` says that the logarithms of the sides of a part and the number of its level make at most 15:
every split takes at least one from them (`SplitHalves`), and no side is shorter than 4, so that there are never more than 11
levels.

*ModeCtrl.* `IInv` adds to `TypeOK`, `PolicyKept`, `BestLegal` and `BestIsLeast`
that every queued multi-type split is legal (`QueueLegal`), that the policy
rejects only where nothing is mandatory (`PolicyScope`: the mandatory and forced
rules come before the policy in `tryMode`, and would override it) and that a mode
under test may be coded (`TestAdmissible`). `AcceptedAdmissible` is the heart: it
goes through the rules of `tryMode` in their order. `SearchKeepsPromise` maps each
step to one of `UnitSearch` or to none: the policy prunes once and never
everything (`SomethingIsLeft`), a test improves the coding or changes nothing.

`BinaryIsFirst` and `StoredIsFirst` need the order of the queue, `OrderInv`: modes come in their
`Turn`, everything tested had an earlier turn than all that waits, and POST_DONT_SPLIT, which stores the coding of the
unsplit modes, waits as long as one of them does. `NoSplitIsEnough` needs `WaitInv`:
while a unit that may stay unsplit has no coding, an unsplit mode waits that no rule of `tryMode` refuses. Of the others
it says nothing: `search_quadpart` shows that they may run out of modes. `SearchEncodes` is the same for all units (`CodingWaits`): with `ContentBasedFastQtbt` off and no
part failing, a mode waits that `tryMode` must accept (`Certain`), because every other heuristic
compares with a coding. The finding `search_quadpart` shows that it is wrong otherwise; its hypotheses are
those of the run `search_policy`. `MarksAreHonest` has the same hypothesis on the texture rule, which
refuses a split and leaves its mark, and holds of units under no forced quad split: under one (`minDepth` above the
quad-tree depth) `tryMode` refuses binary splits before it would clear their marks, and no rule
reads the marks there, the quad split being accepted first.

*FastPartition.* `FpInv` is the partitioner's invariant, the cache's type, that the
CTU is one of the picture's and `MapsCurrent`. `WalkImplementsPartitioner` shows
that the walk takes only steps of `Partitioner`, so that its theorems hold of the
encoder; `DescriptionsCurrent` follows from `Prepare` being total: it resets on
every early return and overwrites every block otherwise. `RoiFits`: the cells of a unit, which are
quotients by 4, are its own because a unit of at most 32 samples has both sides and its position on that
grid (`LevelInv`) and lies in the block that covers it. `BranchesLoaded` lists the shapes that the power-of-two sides and the aspect
rules leave. `UnitsCovered` says that the lookup never fails for want of a block: its `SmallLimits`
(binary and ternary splits only below 32 samples, as in `cfg/encoder_intra_vtm.cfg`) makes
every small unit lie in one 32x32 block (`BlockInv`), and the cache has every block of the
CTU whenever it has any (`CacheWhole`). The run `fp_shapes` has larger limits, and there it fails.

*CuRecursion.* `RecursionInv` says of each activation what is kept, counted and still to be coded
(`FrameInv`), of two activations that the inner one is coded below the outer one (`Below`), of what an
activation returns that it went through the split in test (`ReturnedInv`), and of each cached coding,
for every activation it was stored below, that the test it was stored in is over or its part does not wait
any more, and that a coding which starts where the activation's unit starts was stored with all that was
coded before that unit (`CacheInv`). `ReuseIsSound` follows from the two series of
splits: the code compares where the last activation starts that both have in common, and
nothing was coded between that activation and the unit (`NothingBetween`). The length of the common series
is a least number, taken from the well-foundedness of the naturals (`LeastNatural`).

`ReaderFindsCodedTree` needs to know what the table says while it is written, `TableInv`. The table has a
row for every unit that was tried, those of tests that were lost or given up included, and none of the areas that
a row's coding consists of. So `TableInv` supposes a function `A` from the names of units to such areas, and says by
it: a row selected `NS` has its own area; a row that selected a split has one row for each part of that
split, and the areas below them (`Partly`); what an activation has kept is found in its rows
in the same way, and no row belongs to a split it has not tested yet (`FrameFound`); the split in test lacks
exactly the parts still to come (`InTest`, `ResultFound`). Names are given once, and a
parent's row stands behind those of its parts, as the destructor writes it when they are done (`IdsOK`). The reader is a
recursive function over the rows; `KeptAre` reduces it to one sentence: a row is kept iff it has no
parent or its parent is kept and selected the mode that led to it. With `TableInv` the kept rows are then a tree (`IsTree`).
Its unsplit rows have the coded areas (`TreeCovers`, by the least row that has an area below it), and no two of
its rows have the same area (`TreeApart`): of two rows, one lies within the other or they have no
sample in common, which is shown from the end of the file down (`TreeOrdered`).

*TrainingData.* `DumpInv`: a marker stands beside a whole dump only (`MarkedWhole`), and a batch
that writes a dump has removed its marker in that turn (`MarkInTurn`). A kill may fall between any two of the
commands, so each place in `run.sh` says what must hold there. Two batches cannot disturb each
other because their videos differ.

`CostsAreOfSamples` needs to know what the three files of a dataset have to do with each other when any of the
steps that write them may be the last. `DataInv` says that each of them is of the groups of labels at some
time: the costs of the oldest, the samples of the same or newer ones, the array of nodes of the newest
(`AgesOK`); the contents of the array, of the cache and of a running conversion are given in terms of
these (`TreeOK`, `CacheOK`, `JobOK`). Labels only grow, and a line that changes the groups adds a node
(`LineAdded`), so groups of different times differ in the number of their nodes: the lengths that the
conversion and the loader compare are enough, and the recorded sizes are not needed. `AllFromDumps` is the step that
saves a cache: every node has a row, a row of a dump has no blank node, so the array is complete and of the
samples; each sample begins with node 0 (`TreeNodesOf`), so two samples of a video would have a key in common,
which `KeysAccepted` refuses. `Ends` and `GroupsOf` are recursive functions; `EndsOf` and `GroupsAppend` give their steps.

*SliceStream.* `UnitsStayWhole` is `NoStartCodeInside` for every payload, slice and padding. `IInv`
says that `zeros` is the number of zeros at the end of the bytes written so far, the
inserted ones included (`CountsZeros`), that no three bytes end the unit
(`Unbroken`), and that a payload not ending in a zero leaves none to
protect (`ZerosFromPayload`). Without `CountsZeros` a step could put a small byte behind two
zeros. `AppendUnbroken` is the lemma on sequences: one more byte breaks
nothing unless two zeros stand before it; `EscapedUnit`, `StartedUnit` and `PaddedUnit`
are the three steps that write.

`BinsComeBack` shows that the decoder gets back the bins of every slice, however long, and needs the
arithmetic of the coder. The bytes written, the one held back, the outstanding ones and `low` together are
one number, the lower end of the interval (`Low`), of `Bits(e)` bits. `Roomy` bounds it: a carry out of
`low` still fits into the byte held back, and none can come while that byte is 255; it also keeps `low`
within 30 bits, so that the program's 32-bit registers hold what the model's integers hold. `WriteOut` leaves the number alone, a symbol adds to it and
scales it (`Narrows`). Bytes `t` are in the interval when the number their first bytes make is (`Codes`), and
then everything in the decoder follows: `m_value` is the distance of `t` from the lower end, `m_bitsNeeded` and the
position are what the encoder's bit count says (`DecoderOf`). `SymbolDecoded` is that each symbol
maps decoder states of that form to decoder states of that form and yields the bins that were coded;
`FinishDecoded` that the bytes `finish` writes lie in the last interval, and hence in all before
(`CodesBack`). `CoderInv` carries the encoder's states along as a trace, one for each symbol, so that the decoder can be
compared with the encoder as it was. Powers of two up to 2^29 are a table (`PowerTable`), since what
a recursion gives for every argument cannot be proved.

`UnitsDelivered` and `StreamIsTransport` rest on `FileInv`: the file is one `Piece` for each unit waiting, one behind the
other (`Framed`), a piece being a start code and the bytes of a unit that is read back as it was
queued. `FirstUnit` shows that the parser cuts off exactly the first piece: no start code begins inside a unit
(`UnitsStayWhole` again) or across its end, which is not zero. That `convertPayloadToRBSP` undoes
the escaping is `Converts`, kept byte by byte while the unit is written: it turns what has been written into the header and
the payload so far, with the same count of zeros.

*DecodedPictures.* `ReferencesFound` needs an invariant over the decoder that is asked for the
pictures and the buffer together. `IInv` says, within a sequence (`Within`), that every reference the
hypothetical decoder keeps is `Held`: in the buffer, marked, the picture of this sequence, and
complete unless it is the one in decoding, so that `GetNewPicBuffer` cannot take its slot; that no
EOS is pending; and that random access is at the CRA that opened the sequence. The exception is a
RASL picture of that CRA (`Lost`), which is skipped, and `Decodable` shows from the rules of the leading
pictures that only skipped pictures refer to it. `ReferencesAreMeant` reads off that a POC that
comes again is never taken for the older picture.

`BufferBounded` holds because the decoder is never ahead of the hypothetical decoder (`NotAhead`):
all that waits in its buffer waits there too or is shown there already, and it has shown nothing later
than that one has. A pass writes what removing pictures in POC order would (`ReadyIsBumped`), and
removing leaves a buffer within its bounds (`BumpedFacts`); what it writes between two pictures
(`WrittenAreShown`) or at a slice (`WrittenAreBumped`) the other has shown before. The second of these
is where the slot of the new picture counts: the hypothetical decoder makes room for it first, the
program writes afterwards. Between sequences (`Between`) nothing is in decoding and the next slice flushes.

`AllShownHolds` and `ImplementsDisplayHolds` assume `Oddities = {}`: on the two odd streams the decoder loses a
picture. `DisplayInv` says that what is due is exactly what waits in the buffer and the picture in decoding
(`AllDue`), all of the current sequence; that what was shown last comes before it (`Following`); and
that the picture in decoding will be finished and will then wait if it must be shown (`Showing`): no RASL picture
is open when an EOS comes, `newClvs` is not set for one, and `loopFiltered` is left set only behind an EOS.
`Shows` says when an iteration is a step of `Display`, `WritePuts`, `FlushPuts` and `LastPuts` what the three ways of
writing put out, from `ByPocFacts`: a set of POCs has one increasing enumeration of its size. That the picture
in decoding comes after what is written before it is `NotAhead` again. `SliceShows` is the case with most to it:
a slice may flush the sequence before, be skipped, or start a picture that will be shown.

Model-checked only: `Terminates` (liveness is beyond the prover). Every safety property of a passing run is
stated by a theorem.

## 5. Not modelled, and the plan

Scope of the partition modules: intra slices in a dual or single tree of type
TREE_D and MODE_TYPE_ALL, one QP per unit, no IBC, palette, rate control or
debugging replay; the heuristics of `encoder_intra_vtm.cfg` on. `CuRecursion` has one
CTU, one channel and no quantisation group below the CTU; only the completed tests are counted, as no
reader uses the scheduled ones. `DecodedPictures` has one layer, frames of one slice,
one set of parameters, no GDR, no lost references and no long-term references; POCs
stay within one cycle of their least significant bits. `BinCoder` takes the state
of a context as given and `NalUnits` has one layer. `TrainingData` has one unit per video and
leaves the numbers in the rows out.

Not modelled, and why: prediction, transform, quantisation, loop filters, rate
control and the networks are numerical work on samples or weights; SEI, VUI and the
syntax of parameter sets are long lists of independent fields, written and read one
after the other; the option tables are parsed once; the stream tools copy NAL units;
vendored code and build files are not this program's. `PROJECT.json` has the reason
for each component. The models cover the parts with control of their own, which
are a small share of the lines: by far the most lines are those numerical kernels and tables.

Known behaviour that no property promises, with its place under "hazards": a
restarted `run.sh` appends its labels again and the conversion then refuses them; a
second cost conversion refuses its own cache; a killed tree conversion leaves blank
nodes that the loader accepts; a marker precedes the verification of its dump; a RASL picture right
before an EOS is not shown.

Next, in order:

1. `ModeCtrl` composed with `CuRecursion`: the free choices of the one replaced by the other.
2. GDR pictures and lost references in `DecodedPictures`.
3. `evaluate.py`: the run manifest and when a result counts.
