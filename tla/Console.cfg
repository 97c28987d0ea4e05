SPECIFICATION Spec
CONSTANTS
  Procs <- MCProcs
  ThreadId <- MCThreadId
  Reasons <- MCReasons
  BUFFER_HEIGHT = 3
  BUFFER_WIDTH = 2
  Char <- MCChar
  Unprintable = {"t"}
  ScancodeCap = 1
  ConsoleCap = 2
  InputCap = 1
  Keys = {"x", "nl", "bs", "eof", "ctrl_c", "raw"}
  Uses <- MCUses
  ReadLens = {1}
  Strings <- MCStrings
  Warning <- MCWarning
  Loads <- MCLoads
INVARIANTS
  QueuedIsPolled
  SleepersAreWoken
  ReadersGetLines
  ScreenShowsTerminal
CHECK_DEADLOCK FALSE
