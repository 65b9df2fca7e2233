\* A temperature is old after one round of the ticker instead of ten, a query may
\* take a round, and one sensor or series dies in a run: one 1-wire sensor more
\* than that is there to suffer from it.
CONSTANTS
    attic = attic
    cellar = cellar
    hall = hall
    s1 = s1
    Wires = {attic, cellar}
    Influxes = {hall}
    Series = {s1}
    Matches <- Tags
    Readers = {thermostat}
    Old = 1
    Range = 1
    QueryTime = 1
    MaxChanges = 1
SPECIFICATION FairSpec
INVARIANTS TypeOK FreshData ShownIsRecent
PROPERTIES WorkingAreRead DeadShowFault
