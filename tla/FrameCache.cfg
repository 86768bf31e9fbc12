SPECIFICATION FairSpec
CONSTANTS
  NChunks = 2
  Value = {black, white}
  black = black
  white = white
  MaxRetries = 1
INVARIANTS TypeOK CacheIsShown
PROPERTIES NeverMixed FramesGoOn
