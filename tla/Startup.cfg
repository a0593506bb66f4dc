SPECIFICATION StartupSpec
CONSTANTS
  Arguments <- MCArguments
  MaxArguments = 3
  Candidates = 2
INVARIANTS
  ReadyToServe
  NoSocketLeftBehind
PROPERTY StopDuringStartup
