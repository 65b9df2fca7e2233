\* Heating only: one reading, which may expire, and one request of a controller.
CONSTANTS
    Ticker = ticker
    HkClients = {phone}
    NoOne = nobody
    Readings <- MCReadings
    Targets <- MCTargets
    HeatingThreshold = 1
    CoolingThreshold = 1
    CoolingEnabled = FALSE
    DisableHomekit = FALSE
    MinTemperature = 0
    MaxTemperature = 50
    MaxRequests = 1
    MaxReadings = 1
    MaxFaults = 0
SPECIFICATION FairSpec
PROPERTIES OffStopsHeating
