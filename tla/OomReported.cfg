SPECIFICATION OomSpec
CHECK_DEADLOCK FALSE
CONSTANTS
    MaxSpawns = 3
    MaxKills = 3
INVARIANT
    LoggedKillsHappened
