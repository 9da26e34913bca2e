CONSTANTS
  Contents <- MCContents
  Symbols <- MCSymbols
  Limits <- MCLimits
  Names = {"", "f"}

SPECIFICATION ChunkSpec
PROPERTY EveryFileIsChunked
CHECK_DEADLOCK FALSE
