--------------------------- MODULE MCFastPartition ---------------------------
(* Instances of FastPartition: 128x128 CTUs, limits per channel. *)
EXTENDS FastPartition

PerChannel(luma, chroma) == [ch \in Channels |-> IF ch = "LUMA" THEN luma ELSE chroma]
Sides == {4, 8, 16, 32}
AllSizes == Sides \X Sides      \* as script/thresholds_fast.cfg does, but for 4x4
NoQg == [q \in Qg |-> 0]

\* cfg/encoder_intra_vtm.cfg
FourEach == PerChannel(4, 4)
TwoEach == PerChannel(2, 2)
ThreeEach == PerChannel(3, 3)
EightEach == PerChannel(8, 8)
VtmMaxBt == PerChannel(32, 64)
Largest32 == PerChannel(32, 32)
\* larger limits, which put 32x32 units across two blocks
Largest64 == PerChannel(64, 64)
SmallestQt64 == PerChannel(64, 64)
=============================================================================
