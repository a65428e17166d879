SPECIFICATION AppSpec
CONSTANTS
  Job = {j1, j2, j3}
  Conv = {c1, c2}
  WithMedia = {j1, j3}
  MaxCrashes = 2
INVARIANTS EarlierTurnsAnswered RunsWithMedia QueuedWorkSurvives PumpNeverIdles
CHECK_DEADLOCK FALSE
