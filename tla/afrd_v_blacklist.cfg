SPECIFICATION FairSpec
CONSTANTS
  c1 = c1
  Scenario <- BlacklistedPlayer
  Codec = {c1, c2}
  NoCodec = NoCodec
  m24 = m24
  m50 = m50
  m60 = m60
  k60 = k60
  h24 = h24
  h60 = h60
  Hz = {h60}
  NoHz = NoHz
  NoHint = NoHint
  ModeName <- OneMode
  NoName = NoName
  Format <- MCFormat
  Fractional <- MCFractional
  Null = Null
  Config <- OneBlacklisted
PROPERTIES BlackScreenEnds
