\* A hallway: a light with two wall switches, which may stand alike or not, and
\* a button.  Two commands and a driver error: a write, a press or a change of a
\* switch races with another one, and with the ticker whose read or write fails.
CONSTANTS
    Lights = {hall}
    Outlets = {}
    Switches = {wall, door}
    Motions = {}
    Buttons = {knob}
    Ticker = ticker
    HkClients = {phone}
    Pushers = {listener}
    SwitchSlice <- MCSwitchSlice
    ToggleMap <- MCToggleMap
    SyncOrder <- MCSyncOrder
    HkDisabled = {}
    MaxCommands = 2
    MaxFaults = 1
SPECIFICATION FairSpec
PROPERTIES PollsConverge SwitchesRule
