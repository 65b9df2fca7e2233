\* The intervals of mcpio_driver.go in units of 15 ms: 15, 75 and 300 ms.  A
\* listener takes up to 30 ms, a timer or a Sleep ends up to 15 ms late.
CONSTANTS
    Listen = 1
    Confirm = 5
    Dead = 20
    FireTime = 2
    Late = 1
SPECIFICATION Spec
INVARIANTS TypeOK PressIsSeen
PROPERTIES EventsSpaced NoGhostPress
