SPECIFICATION Spec
CONSTANTS
  Deadline = 6
  Late = 3
  Slack = 2
  MaxTime = 16
INVARIANTS
  TypeOK
  AlarmMeansSilence
  NoFalseAlarm
PROPERTY
  ImplementsBeatSpec
