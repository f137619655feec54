SPECIFICATION PipelineSpec
CONSTANTS
  Switches = {s1, s2}
  PollTicks = 2
  Threshold = 3
  DedupWindows = {0}
  BatchTicks = 4
INVARIANTS RestoredFollowsDown
