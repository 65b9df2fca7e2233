\* One device that loses its connection once.
CONSTANTS
    Devs = {plug}
    Callers = {ticker, phone}
    Handlers = {phone}
    NoOne = nobody
    UnhealthyLimit = 1
    MaxCommands = 0
    MaxPresses = 0
    MaxBreaks = 1
    MaxBadMessages = 0
SPECIFICATION FairSpec
PROPERTIES OutputsRecover
CHECK_DEADLOCK FALSE
