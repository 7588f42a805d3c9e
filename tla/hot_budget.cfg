CONSTANTS
    Readers = {c1, c2}
    Flights = {f1, f2}
    None = None
    RetainModes = {TRUE, FALSE}
    Budget = TRUE
    Damages = TRUE
SPECIFICATION Spec
INVARIANTS
    TypeOK
    PendingHeld
    TransientOwned
    OneBuild
SYMMETRY HotSymmetry
