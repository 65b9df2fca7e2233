---------------------------- MODULE MCLifecycle ----------------------------
(***************************************************************************)
(* A small instance of Lifecycle: a light and an outlet, a switch, two     *)
(* buttons and a thermostat, under six configuration files.               *)
(***************************************************************************)
EXTENDS Lifecycle

CONSTANTS lamp, fan, toggle, bell, door, heater

Home == <<lamp, bell, door, toggle, fan, heater>>

By(driver, pin, e) == [driver |-> driver, pin |-> pin, event |-> e]

Drivers(l, s, b, d, f, h) ==
    (lamp :> l @@ toggle :> s @@ bell :> b @@ door :> d @@ fan :> f @@ heater :> h)

Pins == (toggle :> 1 @@ bell :> 1 @@ door :> 2)

Sensors == [wire |-> {"attic"}, influx_sensors |-> {"attic", "hall"}]

\* Everything the code can do well: controllers of both kinds, own and named
\* drivers, an event of each kind of button, a sensor that two drivers have.
Plain == [
    driverOf |-> Drivers("gpio", "gpio", "mcpio", "remoteio_slave", "mcpio", "gpio"),
    inPin |-> Pins, silent |-> {door},
    controllers |-> (lamp :> <<By(NoDriver, 1, 0), By("mcpio", 1, 0)>>
                     @@ fan :> <<By(NoDriver, 1, 0), By("remoteio_slave", 2, 2)>>),
    sensors |-> Sensors, sensorId |-> (heater :> "attic")]

\* A light of a Shelly, no sensors.
Relays == [Plain EXCEPT
    !.driverOf = Drivers("shelly", "gpio", "mcpio", "mcpio", "gpio", "gpio"),
    !.controllers = (lamp :> <<By("gpio", 1, 0), By("mcpio", 2, 0)>> @@ fan :> <<>>),
    !.sensors = <<>>]

\* A button where there are no push events; one controller that is not there.
Wrong == [Plain EXCEPT
    !.driverOf = Drivers("gpio", "gpio", "gpio", "mcpio", "mcpio", "gpio"),
    !.controllers = (lamp :> <<By(NoDriver, 1, 0)>> @@ fan :> <<By(NoDriver, 7, 0)>>)]

\* A controller that is not there, and a sensor that no driver has.
Missing == [Plain EXCEPT
    !.silent = {},
    !.controllers = (lamp :> <<By("mcpio", 1, 0), By("mcpio", 9, 0)>>
                     @@ fan :> <<By(NoDriver, 1, 0)>>),
    !.sensorId = (heater :> "cellar")]

\* Pins of more than 8 bits: the remote-io server takes pin 257 for pin 1, the
\* others refuse them.
Wide == [Plain EXCEPT
    !.driverOf = Drivers("gpio", "remoteio_slave", "mcpio", "remoteio_slave", "mcpio", "gpio"),
    !.inPin = (toggle :> 1 @@ bell :> 1 @@ door :> 257),
    !.controllers = (lamp :> <<By("mcpio", 1, 0)>> @@ fan :> <<By("remoteio_slave", 257, 1)>>)]

TooWide == [Plain EXCEPT !.inPin = (toggle :> 300 @@ bell :> 1 @@ door :> 2)]

Files == {Plain, Relays, Wrong, Missing, Wide, TooWide}

=============================================================================
