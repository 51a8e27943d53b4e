SPECIFICATION Spec
CONSTANTS
  c1 = c1
  Scenario <- Movies
  Codec = {c1}
  NoCodec = NoCodec
  m24 = m24
  m50 = m50
  m60 = m60
  k60 = k60
  h24 = h24
  h60 = h60
  Hz = {h24, h60}
  NoHz = NoHz
  NoHint = NoHint
  ModeName <- FourModes
  NoName = NoName
  Format <- MCFormat
  Fractional <- MCFractional
  Null = Null
  Config <- MoviesConfigs
INVARIANTS TypeOK OriginalModeKept DetectionIsBounded BlackScreenHasPendingSwitch DisplayAgrees LeavesOriginalMode StatsFresh
PROPERTIES ImplementsDisplayLoan BlackoutRemembersShownMode BlackoutOnlyFromOriginal
