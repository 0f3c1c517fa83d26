SPECIFICATION SetsSpec
CONSTANTS
  AvcSettings = {}
  HevcSettings = {}
  PictureSet <- MCPictureSet
  VideoSet <- MCVideoSet
  SliceOctets = {0, 96, 128, 200, 255}
INVARIANT SlicesHaveHeaders
CHECK_DEADLOCK FALSE
