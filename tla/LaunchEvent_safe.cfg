SPECIFICATION FairLaunchSpec
CONSTANTS
  Launches = {l1, l2, l3}
  Conns = {c1, c2}
  NoLaunch = NoLaunch
INVARIANT LaunchInv
PROPERTIES NeverOverwritten LaunchLeaves
CHECK_DEADLOCK FALSE
