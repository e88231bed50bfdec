\* Whole and truncated frames of every form, and a limit that cuts the longest.
SPECIFICATION FrameSpec
CONSTANTS
  DataLimit = 90
  Frames <- MCFrames
INVARIANTS
  DeliversWhatWasSent
  DeliversNothingElse
\* The callback returns.
CHECK_DEADLOCK FALSE
