SPECIFICATION Spec
CONSTANTS
  rgb = rgb
  y444 = y444
  y420 = y420
  bit8 = bit8
  bit10 = bit10
  limit = limit
  full = full
  user_mode = user_mode
  film = film
  video = video
  Value <- MCValue
  Reserved = Reserved
  Initial <- MCInitial
  Mode = {user_mode, film, video}
  Home = user_mode
  NoMode = NoMode
  NoList = NoList
  NoText = NoText
  Freed = Freed
  Scenario <- OneRun
PROPERTY DefaultIsUsed
CHECK_DEADLOCK FALSE
