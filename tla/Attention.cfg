CONSTANTS
  Worlds <- MCWorlds
  MaxNow = 4
  StartingSoon = 1
  MeetingSoon = 2
  MeetingPrep = 3
  SatOverdue = 4
  SatAging = 3
  SatFreshness = 2
  SatDueSoon = 2
  Scale = 12
  CandidateCap = 2
  Limits = {1, 2}
SPECIFICATION AttentionSpec
INVARIANTS ShownHonest LastWordDecides
PROPERTIES DemandSteady
CHECK_DEADLOCK FALSE
