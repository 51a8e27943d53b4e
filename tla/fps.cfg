SPECIFICATION Spec
CONSTANTS
  r23 = r23
  r24 = r24
  r60 = r60
  Rate = {r23, r24, r60}
  NoRate = NoRate
  Close <- MCClose
  Movies = {r23, r60}
  Attempts = 4
  Errors = 1
  Starts = 2
CHECK_DEADLOCK FALSE
INVARIANTS TypeOK Confirmed OneErrorHarmless
PROPERTIES SteadySourceSucceeds HintUsableAtOnce
