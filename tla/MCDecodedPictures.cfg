SPECIFICATION Spec
CONSTANTS
  MaxPoc = 5
  MaxPics = 6
  MaxNumReorder = 1
  MaxDecPicBuffering = 2
  HiddenTypes = {"RASL"}
  Oddities = {}
INVARIANTS TypeOK AllShown RefsFound Bounded
PROPERTY ImplementsDisplay
CHECK_DEADLOCK FALSE
