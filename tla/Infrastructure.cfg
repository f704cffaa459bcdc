SPECIFICATION Spec
CONSTANTS
    Callers = {c1, c2}
INVARIANTS
    TypeOK
    PingDecides
    HealthWasSo
    SteadyRedisPassesTest
