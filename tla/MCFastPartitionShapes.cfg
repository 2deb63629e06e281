SPECIFICATION FpSpec
CONSTANTS
  CtuSize = 128
  PicW = 128
  PicH = 72
  Channels = {"LUMA"}
  DualTree = TRUE
  MaxBtDepth <- ThreeEach
  MinBt <- FourEach
  MaxBt <- Largest64
  MinTt <- FourEach
  MaxTt <- Largest64
  MinQt <- Largest32
  MaxTb = 64
  DualTreeMax = 64
  MinTb = 4
  MinChromaWidth = 4
  MinChromaSize = 16
  QgSubdiv <- NoQg
  HaveModels = TRUE
  ThresholdSizes <- AllSizes
  PreparedCtu = 128
  BlockSize = 32
  GridUnit = 4
  NumPics = 1
INVARIANTS RoiIsUnit BranchLoaded
CHECK_DEADLOCK FALSE
