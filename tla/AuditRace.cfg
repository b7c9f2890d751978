CONSTANTS
  Chars = {"l", "s"}
  Prompts = {"plain", "title"}
  MaxKeys = 4
SPECIFICATION Spec
INVARIANT RowsAreCommands
CHECK_DEADLOCK FALSE
