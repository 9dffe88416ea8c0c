CONSTANTS
  MotorPorts <- MCMotorPorts
  Speeds <- MCSpeeds
  Asked <- MCAsked
  Angles = {2}
  Times = {2}
  Brakes = {TRUE}
  Files <- MCFiles
  Word = 64
  WavePart = 4
  MinFreq = 2
  MinMs = 4
SPECIFICATION RcmdSpec
INVARIANTS RunsAsAsked LinesObeyed
PROPERTIES GoalEnds FileEnds
CHECK_DEADLOCK FALSE
