SPECIFICATION FairSpec
CONSTANTS
  Texts <- MCTexts
  Unparsable <- MCUnparsable
  FrameMax = 64
  WordMod = 1000
  MaxLogs = 2
INVARIANTS
  FramesAsSent
  FramesAsQueued
  TextsHandedOver
  RepliesTold
PROPERTIES
  EveryFrameBuilt
  CallsReturn
CHECK_DEADLOCK FALSE
