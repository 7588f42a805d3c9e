CONSTANTS
    Readers = {c1, c2}
    Flights = {f1, f2}
    None = None
    RetainModes = {TRUE, FALSE}
    Budget = TRUE
    Damages = FALSE
SPECIFICATION Spec
INVARIANTS
    EnsureServes
