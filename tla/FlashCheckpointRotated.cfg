SPECIFICATION Spec
CONSTANTS
    MaxStep = 4
    SaveSteps = 1
    Limits = {1}
    MaxStarts = 1
CHECK_DEADLOCK FALSE
INVARIANT TracerAlwaysOnDisk
