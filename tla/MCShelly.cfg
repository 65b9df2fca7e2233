\* One device and two goroutines that set its output: two commands, a relay
\* switched by hand, a lost connection and a message that is not understood.
\* The program ends when Setup fails, and when it crashes.
CONSTANTS
    Devs = {plug}
    Callers = {ticker, phone}
    Handlers = {phone}
    NoOne = nobody
    UnhealthyLimit = 1
    MaxCommands = 2
    MaxPresses = 1
    MaxBreaks = 1
    MaxBadMessages = 1
SPECIFICATION FairSpec
INVARIANTS TypeOK StatusTracksRelay
PROPERTIES ImplementsOutput DriverRecovers
CHECK_DEADLOCK FALSE
