SPECIFICATION Spec
CONSTANTS
    Cli = {n1, n2}
    MaxTx = 2
    MaxEntries = 1
    MayClear = TRUE
SYMMETRY CliSymmetry

    
PROPERTIES
    RollbackRestores
    LatestGoodKept
