\* Probes while every dependency comes and goes, of a process with an AppRole
\* or with a token; then requests of every kind, and a signal at any moment.
SPECIFICATION ProcessSpec
CONSTANTS
    Req = {r1, r2}
    Kinds = {"public", "console", "publicsocket", "callback"}
    PublicTimeout = 2
    ConsoleTimeout = 1
    MaxTimer = 2
    DrainTime = 2
    Budget = 1
    RedisTime = 2
INVARIANTS TypeOK InflightIsExact SuccessMeansWhole CleanExitCutsOnlyTunnels KilledForAReason
INVARIANTS ReadyTypeOK ErrorsHaveCauses
PROPERTIES SignalEnds RequestsEnd ReadyAgain
\* The process exits.
CHECK_DEADLOCK FALSE
