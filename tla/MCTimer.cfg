SPECIFICATION FairSpec
CONSTANTS
  Low = 4
  High = 2
  MaxClock = 3
  Snapshots <- MCSnapshots
INVARIANTS
  StatusMatchesTimer
  DeadlineIsDue
  HalvesOfOneTime
PROPERTIES
  AlarmRings
  MigrationKeepsAlarm
  AlarmEnds
