--------------------------- MODULE MCPartitioner ---------------------------
(* Instances of Partitioner for TLC: the limits of each channel. *)
EXTENDS Partitioner

PerChannel(luma, chroma) == [ch \in Channels |-> IF ch = "LUMA" THEN luma ELSE chroma]

\* a 64x64 CTU with MAX_TB_SIZEY 32, half the program's: the only quad split is 64 to 32,
\* boundary blocks need more binary splits than MaxBtDepth
SmallMaxBtDepth == PerChannel(2, 2)
SmallMinBt == PerChannel(4, 4)
SmallMaxBt == PerChannel(64, 64)
SmallMinTt == PerChannel(4, 4)
SmallMaxTt == PerChannel(32, 32)
SmallMinQt == PerChannel(32, 32)
SmallQg == [q \in Qg |-> IF q = "qp" THEN 3 ELSE 2]

\* the program's own sizes: cfg/encoder_intra_vtm.cfg
VtmMaxBtDepth == PerChannel(3, 3)
VtmMinBt == PerChannel(4, 4)
VtmMaxBt == PerChannel(32, 64)
VtmMinTt == PerChannel(4, 4)
VtmMaxTt == PerChannel(32, 32)
VtmMinQt == PerChannel(8, 8)
=============================================================================
