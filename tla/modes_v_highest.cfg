SPECIFICATION Spec
CONSTANTS
  NoMode = NoMode
  Caps <- Fast
  Extra <- Interlaced
  System <- Selected
  Measured <- Seen
  Requested <- Asked
  Config <- Defaults
INVARIANTS HighestMultiple
