\* Two runs of the watchdog which may overlap and be killed, two pids; or two cleanups.
CHECK_DEADLOCK FALSE
SPECIFICATION MCSpec
CONSTANTS
  Runs = {"w1", "w2"}
  MaxPid = 2
  Cooldown = 1
  MaxRan = 1
  Confs <- MCConfs
  Prompts = {"t1", "t2"}
  Cleaners = {"c1", "c2"}
  Threshold = 2
PROPERTIES
  RestartsJustified
  RestartTried
  OnlyOrphansFailed
