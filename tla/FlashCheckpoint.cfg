SPECIFICATION FairSpec
CONSTANTS
    MaxStep = 4
    SaveSteps = 1
    Limits = {1, 2}
    MaxStarts = 2
CHECK_DEADLOCK FALSE
INVARIANTS
    TracerOnDisk
PROPERTIES
    BestStays
    ResumesLastComplete
    TrainingFinishes
