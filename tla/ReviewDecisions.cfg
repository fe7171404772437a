SPECIFICATION BoundedSpec
CONSTANTS
    Frontends = {u1, u2}
    SimulationModes = {TRUE, FALSE}
    Alone = u2
INVARIANTS
    ReviewInv
PROPERTIES
    RulesKept
