SPECIFICATION Spec
CONSTANTS
    Cli = {n1}
    MaxTx = 1
    MaxEntries = 2
    MayClear = FALSE
PROPERTY AbortedIsNotActive
