SPECIFICATION Spec
CONSTANTS
    MaxTime = 4
    MaxVersion = 3
    EditsAtStartup = FALSE
INVARIANTS
    ChecksCurrentFiles
    StaleIsNoticed
    ReplacedWholeOrKept
CHECK_DEADLOCK FALSE
