\* Direct calls of the manager's functions and writeFPGAconfig, an FPGA that may
\* be slow, fail or lose its power, and a process that may be killed.
SPECIFICATION FairSpec
CONSTANTS
  Images <- MCImages
  Requests <- MCRequests
  BoardModes <- MCBoardModes
  Masks <- MCMasks
  ApiCalls <- MCApi
  PowerLosses = 1
  ChunkSizes = {4, 8}
  BufferSize = 8
  DataLimit = 12
  Polls = 1
  UseDclk = TRUE
  MaxCalls = 3
  Crashes = 1
INVARIANTS TypeOK ControlGivenBack NoStaleInterrupt StreamErrorReported
PROPERTIES SuccessMeansThisImage ConfigureReturns
CHECK_DEADLOCK FALSE
