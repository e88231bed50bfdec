\* Frames truncated right after their headers, in a buffer that goes on.
SPECIFICATION FrameSpec
CONSTANTS
  DataLimit = 90
  Frames <- MCTruncatedFrames
INVARIANTS
  EmptyIsNotCounted
CHECK_DEADLOCK FALSE
