\* One IO of each kind: every interleaving of the ticker, one HomeKit
\* connection and one push goroutine over two commands and a driver error.
CONSTANTS
    Lights = {hall}
    Outlets = {plug}
    Switches = {wall}
    Motions = {pir}
    Buttons = {knob}
    Ticker = ticker
    HkClients = {phone}
    Pushers = {listener}
    SwitchSlice <- MCSwitchSlice
    ToggleMap <- MCToggleMap
    SyncOrder <- MCSyncOrder
    HkDisabled = {}
    MaxCommands = 2
    MaxFaults = 1
SPECIFICATION Spec
INVARIANTS TypeOK NoPhantomOn
PROPERTIES SettledStays
