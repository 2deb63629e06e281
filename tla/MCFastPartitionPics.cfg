SPECIFICATION FpSpec
CONSTANTS
  CtuSize = 128
  PicW = 168
  PicH = 136
  Channels = {"LUMA", "CHROMA"}
  DualTree = TRUE
  MaxBtDepth <- TwoEach
  MinBt <- FourEach
  MaxBt <- VtmMaxBt
  MinTt <- FourEach
  MaxTt <- Largest32
  MinQt <- EightEach
  MaxTb = 64
  DualTreeMax = 64
  MinTb = 4
  MinChromaWidth = 4
  MinChromaSize = 16
  QgSubdiv <- NoQg
  HaveModels = TRUE
  ThresholdSizes <- AllSizes
  PreparedCtu = 128
  BlockSize = 32
  GridUnit = 4
  NumPics = 2
INVARIANTS MapsCurrent RoiIsUnit AlwaysCovered
PROPERTY WalksPartitioner
CHECK_DEADLOCK FALSE
