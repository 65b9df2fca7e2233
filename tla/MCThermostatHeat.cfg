\* Heating only, where a request for cool or auto is not taken as it is.
CONSTANTS
    Ticker = ticker
    HkClients = {phone}
    NoOne = nobody
    Readings <- MCReadings
    Targets <- MCTargets
    HeatingThreshold = 1
    CoolingThreshold = 1
    CoolingEnabled = FALSE
    DisableHomekit = FALSE
    MinTemperature = 0
    MaxTemperature = 50
    MaxRequests = 2
    MaxReadings = 2
    MaxFaults = 1
SPECIFICATION FairSpec
INVARIANTS TypeOK
PROPERTIES HeatingFollowsDemand HkShowsTargets
