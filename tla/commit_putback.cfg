SPECIFICATION Spec
CONSTANTS
    Trash <- OnePlace
    Temps <- OneTemp
    MaxFiles = 2
    MaxEdits = 0
    MaxFaults = 1
    MaxCrashes = 1
PROPERTIES
    PutBackStays
CHECK_DEADLOCK FALSE
