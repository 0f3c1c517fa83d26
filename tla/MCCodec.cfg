SPECIFICATION CodecSpec
CONSTANTS
  Base = 3
  MaxBytes = 11
  MaxUnitBytes = 5
  Configs <- MCConfigs
  FrameSamples = {1024, 4096, 5120}
  Payloads = {0, 1, 8184, 8185}
  Samples <- MCSamples
  Conversions <- MCConversions
  MaxFed = 5
  MaxCalls = 3
  AvcSettings <- MCAvcSettings
  HevcSettings <- MCHevcSettings
  PictureSet <- MCPictureSet
  VideoSet <- MCVideoSet
  SliceOctets = {0, 96, 128, 200, 255}
  Media <- MCMedia
  MaxMedia = 3
  ChunkSizes = {24000, 32752, 32754}
  Clocks = {8000, 11025, 96000}
  MaxEncoded = 36
  Formats <- MCFormats
  Decoded = {1, 2}
  Spare = {0, 4}
  MaxFrames = 4
INVARIANT DataKeepsUnits
INVARIANT UnitsSurvive
INVARIANT ConfigSurvives
INVARIANT LawsHold
INVARIANT ChunksDoNotShow
INVARIANT SpsIsRead
INVARIANT CodecDataSurvives
INVARIANT SdpKeepsCodecs
INVARIANT FramesAreNumbered
PROPERTY FramesKeepSamples
CHECK_DEADLOCK FALSE
