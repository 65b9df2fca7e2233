\* Heating and cooling, two HomeKit connections beside the ticker: two writes,
\* two readings (or expiries of them) and one failing output call.
CONSTANTS
    Ticker = ticker
    HkClients = {phone, tablet}
    NoOne = nobody
    Readings <- MCReadings
    Targets <- MCTargets
    HeatingThreshold = 1
    CoolingThreshold = 1
    CoolingEnabled = TRUE
    DisableHomekit = FALSE
    MinTemperature = 0
    MaxTemperature = 50
    MaxRequests = 2
    MaxReadings = 2
    MaxFaults = 1
SYMMETRY MCSymmetry
SPECIFICATION Spec
INVARIANTS ModeObeyed Interlock
PROPERTIES CoolingNeverStarts NoChatter
