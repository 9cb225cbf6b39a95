CONSTANTS
  Files = {"plextor", "old", "other", "stale"}
  Loadable = {"plextor", "old", "other"}
  Reporting = {"plextor"}
  Matching = {"plextor", "old", "stale"}
  Samples = 2
  Queries = 2
  EjectPolls = 2
  C2s = {0, 294}
  Subs = {0, 96}
  Lengths = {1, 4}
  Probes <- MCProbes
  SlotChunk = 1
  MinSectors = 2
  MaxSectors = 5
  PerSecond = 1
  K = 3
  Noise = 2
  Rates = {0, 3, 6, 12}
  LagDrives <- MCLagDrives
  SectorPairs = 12
  MaxShift = 2
  LagChunk = 2
  RunUp = 1
  MaxWindows = 2
  WindowReads = 3
  MinFlags = 2
  MinTp = 2
  MinDiffs = 2
  MinPeak = 100
  MinContrast = 3
  Requests <- MCRequests
  Chunks = 3
  Attempts = 4
  Pages <- MCPages
  Claims = {"short", "whole", "long"}
  Burns <- MCBurns
  Values = {0, 1}
  Spb = 2
  Count = 5
  Extra = 0
  AnchorLen = 2
  ShiftMax = 2
  MinDistinct = 2
  BadUnit = 2
  BadKeep = 1
  SepDiv = 2
  QDiscs <- MCQDiscs
  QOptions <- MCQOptions
  Speeds = {0, 40}
  ScanFrames = 4
  CleanFrames = 2
  ScanChunk = 2
  ScanBudget = 3
  PulseA = 6
  PulseB = 16
  PulseLen = 4
  Total = 23
  SearchReach = 3
  RunLen = 4
  RunMin = 2
  Early <- MCEarly
SPECIFICATION MCSpec
INVARIANT NothingLeftBehind
INVARIANT ProbeTrueUntilSetFails
INVARIANT LearntIsTrue
INVARIANT RecordsInPlace
INVARIANT WindowsAreFresh
INVARIANT LagIsTrue
INVARIANT PassSpeedKept
INVARIANT PageIsWhatWasAsked
INVARIANT VerdictIsTrue
INVARIANT NothingGuessed
INVARIANT OffsetIsTrue
PROPERTY SettingsRestored
