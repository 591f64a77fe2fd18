SPECIFICATION FairSpec
CONSTANTS
  mNumFrames = 4
  mBufferSize = 2
PROPERTIES
  EveryFrameIsDelivered
CHECK_DEADLOCK FALSE
