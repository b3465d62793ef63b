\* Two launchers that start four times in all, one update, one fault.
CONSTANTS
  l1 = l1
  l2 = l2
  none = none
  Launcher <- MCLauncher
  Versions = 2
  Histories <- MCHistories
  MaxLaunches = 4
  MaxFaults = 1
  Nothing = none
SPECIFICATION PatcherSpec
SYMMETRY Symmetry
INVARIANTS
  PatcherTypeOK
  MarkerIsTrue
  LaunchRunsTheLatest
  FirstOriginalIsKept
  OneFaultLosesNothing
CHECK_DEADLOCK FALSE
