SPECIFICATION FairSpec
CONSTANTS
  Daemon = {d1, d2}
  Client = {app}
  Inode <- MCInode
  one = one
  two = two
  Full = Full
  Zero = Zero
  Field <- MCField
  Order <- MCOrder
  Before <- MCBefore
  Value = {Full, Zero, one, two}
  Status <- MCStatus
  Bumped = Bumped
  NoView = NoView
  d1 = d1
  d2 = d2
  Scenario <- AllEnds
INVARIANTS TypeOK ShownWhole
PROPERTIES ImplementsStatusBoard CatchesUpAfterEnd
CHECK_DEADLOCK FALSE
