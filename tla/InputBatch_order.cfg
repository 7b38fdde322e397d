SPECIFICATION FairSpec
CONSTANTS
  Clients <- MCClients
  Permissions = {"controller", "mouse", "kbd", "touch", "pen"}
  Short = 8
  MaxQueue = 3
INVARIANT NotStranded
PROPERTIES ChangesInOrder FinalKept DrainsWhenQuiet
CHECK_DEADLOCK FALSE
