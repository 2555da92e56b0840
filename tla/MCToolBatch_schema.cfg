SPECIFICATION FairSpec
CONSTANTS
  Registered = {"file_reader", "file_writer", "file_editor", "bash"}
  Guarded = {"bash"}
  Foreign = {"up"}
  Sealed = {"s"}
  Hanging = {"serve"}
  Daemons = {"nohup"}
  MaxLen = 4
  RemindAfter = 2
  Scripts <- Announced
INVARIANTS
  AnnouncedEditsWork
