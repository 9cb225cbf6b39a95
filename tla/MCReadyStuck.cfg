CONSTANTS
  UARetries = 2
  TimeoutPolls = 3
SPECIFICATION FairSpec
PROPERTY LoadAlwaysEnds
