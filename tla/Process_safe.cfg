SPECIFICATION FairSpec
CONSTANTS
  game = game
  launcher = launcher
  desktop = desktop
  Callers = {t1}
  Pollers = {}
  Apps <- MCApps
  NoApp = NoApp
  InputApp = InputApp
  Prep <- MCPrep
  Desktop = {desktop}
  Virtual = {desktop, launcher}
  Gamepad = {game}
  OnPause = {game}
  AutoDetach = {launcher, desktop}
  WaitAll = {game}
INVARIANT HostMatchesApp
PROPERTIES UndoInOrder KeepsStack 
