CONSTANTS
  i1 = i1
  i2 = i2
  Invoice <- MCInvoice
  Configs <- MCConfigs
  Tracker = tracker_md
  MaxTurns = 3
  Parallel = 2
  Faults = 1
  ChatClient = {"telegram"}
  StreamClient = {"cli"}
  Checker = {"loop", "command"}
  Alert = {"disk full"}
  MaxMessage = 3
  MaxFact = 1
  MaxCrash = 1
  MaxBeat = 3
SPECIFICATION AssistantSpec
INVARIANTS ContextIsWhole RunsAccounted
PROPERTIES RungOnce ChatIsAnswered RunsAreOver
CHECK_DEADLOCK FALSE
