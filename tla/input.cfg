SPECIFICATION MCSpec
CONSTANTS
  Surfaces = {"f1", "f2"}
  PadInputs = {"b1", "pre"}
  Profiles = {"p1","p2"}
  Target <- MCTarget
  Keys = {"k1", "k2"}
  KeyTarget <- MCKeyTarget
  Offers <- MCOffers
  Moves <- MCMoves
  MotionTable <- MCTable
  MaxRetained = 2
  MaxSteps = 1
  MaxPresses = 2
  MaxTurns = 3
  PadOrder <- MCPadOrder
  Optional <- MCOptional
  Inputs = {"i1", "i2"}
  Standard <- MCStandard
  KeyOrder <- MCKeyOrder
  Codes = {"k1", "tab"}
  Excluded = {"tab"}
  Unbound = "unbound"
INVARIANTS PressTakenOnce InputInSync NoSharedBinding
PROPERTIES OnePressOneTarget
CHECK_DEADLOCK FALSE
