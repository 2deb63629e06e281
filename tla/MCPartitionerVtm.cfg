SPECIFICATION Spec
CONSTANTS
  CtuSize = 128
  PicW = 136
  PicH = 72
  Channels = {"LUMA", "CHROMA"}
  DualTree = TRUE
  MaxBtDepth <- VtmMaxBtDepth
  MinBt <- VtmMinBt
  MaxBt <- VtmMaxBt
  MinTt <- VtmMinTt
  MaxTt <- VtmMaxTt
  MinQt <- VtmMinQt
  MaxTb = 64
  DualTreeMax = 64
  MinTb = 4
  MinChromaWidth = 4
  MinChromaSize = 16
  QgSubdiv <- SmallQg
INVARIANTS Balanced CacheFresh QgAnchored ChecksHold LeafInPic DepthBudget PartsTile
PROPERTY ExitRestores
