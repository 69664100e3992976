CONSTANTS
    Procs = {1, 2, 3}
    Commands <- MCCommands
    MaxIds = 3
    MaxKills = 1
SPECIFICATION Spec
INVARIANTS TypeOK NoDamage NoDuplicates ReportsHonest
PROPERTIES RefinesAtomicFile
CHECK_DEADLOCK FALSE
