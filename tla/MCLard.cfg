SPECIFICATION Spec
CONSTANTS
  Machines <- MCMachines
  Configs <- MCConfigs
  Unknown = Unknown
  None = None
INVARIANTS OffersWhatIsMissing RunsOnlyWhenMet InstallsInOrder
CHECK_DEADLOCK FALSE
