SPECIFICATION Spec
CONSTANTS
  MaxPoc = 3
  MaxPics = 5
  MaxNumReorder = 1
  MaxDecPicBuffering = 3
  HiddenTypes = {"CRA", "TRAIL"}
  Oddities = {"LoneAfterEos"}
INVARIANT AllShown
CHECK_DEADLOCK FALSE
