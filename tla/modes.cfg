SPECIFICATION Spec
CONSTANTS
  NoMode = NoMode
  Caps <- Usual
  Extra <- Interlaced
  System <- Selected
  Measured <- Seen
  Requested <- Asked
  Config <- Options
INVARIANTS TypeOK NoDuplicates NeverBadMode BestIsFound
