SPECIFICATION Spec
CONSTANTS
  Commands <- Writers
  Flags <- MoreFlags
INVARIANT
  AllowedCommandsWriteNothing
