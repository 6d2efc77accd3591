\* A bitstream of 6 bytes on hardware that does not fail.
SPECIFICATION Spec
CONSTANTS
  Images <- MCOddImages
  Requests <- MCOddImages
  BoardModes <- MCOneMode
  Masks <- MCMasks
  ApiCalls = {}
  PowerLosses = 0
  ChunkSizes = {4, 8}
  BufferSize = 8
  DataLimit = 12
  Polls = 1
  UseDclk = FALSE
  MaxCalls = 2
  Crashes = 0
PROPERTY BitstreamWritten
CHECK_DEADLOCK FALSE
