SPECIFICATION Spec
CONSTANTS
    Word <- MCWord
    Number <- MCNumber
    Huge <- MCHuge
    Json <- MCJson
    Stray = {0, 1}
    MaxArgs = 4
INVARIANTS
    TypeOK
    WordsArrive
    CrashHasCause
PROPERTIES
    QuitExits
CHECK_DEADLOCK FALSE
