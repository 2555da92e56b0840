SPECIFICATION Spec
CONSTANTS
  Commands <- AllCommands
  Flags <- MoreFlags
INVARIANTS
  CommandsAreReadRight
  AllowedCommandsMeetPolicy
