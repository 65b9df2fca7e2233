\* Two outputs polled by the ticker and commanded by one HomeKit connection: a
\* command, a request that goes wrong and a light that somebody else switches.
\* The program ends when Setup fails.
CONSTANTS
    Outputs = {kitchen, hall}
    Main = ticker
    Users = {phone}
    NoOne = nobody
    Freshness = 2
    CallTime = 1
    MaxCommands = 1
    MaxFaults = 1
    MaxChanges = 1
SPECIFICATION FairSpec
INVARIANTS TypeOK CacheTruth
PROPERTIES BoundedStaleness CallsAdvance ImplementsOutput CallsReturn CacheConverges
CHECK_DEADLOCK FALSE
