\* Three push events, at any moment of the start and after it.  The program may
\* end, hang or crash.
CONSTANTS
    lamp = lamp
    fan = fan
    toggle = toggle
    bell = bell
    door = door
    heater = heater
    Devices = {lamp, fan}
    Switches = {toggle}
    Buttons = {bell, door}
    Thermostats = {heater}
    IoOrder <- Home
    Configs <- Files
    NoDriver = NoDriver
    Nobody = Nobody
    MaxPresses = 3
SPECIFICATION FairSpec
INVARIANTS TypeOK PressesFindOutputs WiredAsConfigured StartedWhole FailedStartTurnsOff
PROPERTIES  StartProgresses StartEnds
CHECK_DEADLOCK FALSE
