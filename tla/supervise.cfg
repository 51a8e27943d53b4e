SPECIFICATION FairSpec
CONSTANTS
  Daemon = {d1, d2, d3}
  Launcher = {"service", "boot"}
  File = {f1, f2, f3, f4}
  Scenario <- All
INVARIANTS TypeOK OneDaemon
PROPERTIES Supervised ConfigFollowed
CHECK_DEADLOCK FALSE
