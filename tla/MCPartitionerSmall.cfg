SPECIFICATION Spec
CONSTANTS
  CtuSize = 64
  PicW = 72
  PicH = 56
  Channels = {"LUMA"}
  DualTree = FALSE
  MaxBtDepth <- SmallMaxBtDepth
  MinBt <- SmallMinBt
  MaxBt <- SmallMaxBt
  MinTt <- SmallMinTt
  MaxTt <- SmallMaxTt
  MinQt <- SmallMinQt
  MaxTb = 32
  DualTreeMax = 32
  MinTb = 4
  MinChromaWidth = 4
  MinChromaSize = 16
  QgSubdiv <- SmallQg
INVARIANT IInv
