\* One output, and nothing goes wrong: two commands are enough.
CONSTANTS
    Outputs = {hall}
    Main = ticker
    Users = {phone}
    NoOne = nobody
    Freshness = 2
    CallTime = 1
    MaxCommands = 2
    MaxFaults = 0
    MaxChanges = 0
SPECIFICATION Spec
INVARIANTS SetTakesEffect
