SPECIFICATION DiskSpec
CONSTANTS
  KindOrder <- MCKindOrder
  Answers <- MCAnswers
  LegacyFiles <- MCLegacyFiles
  HomeRows <- MCHomeRows
  RowCap = 2
  MaxTicks = 2
  Ips = {i1, i2}
  Editors = {a1, a2}
  MaxEdits = 3
  MaxDeaths = 1
INVARIANTS
    RestartKeeps
    HomeIsSound
PROPERTIES
    NothingForgotten
CHECK_DEADLOCK FALSE
