SPECIFICATION RoutedSpec
CONSTANTS
    Providers = {p1}
    FailThreshold = 2
    RecoverThreshold = 2
    OpenDuration = 2
    ResultsPerEntry = 2
    Idle = Idle
CHECK_DEADLOCK FALSE
PROPERTIES
    TripsAndClosesOnRuns
    DeadProviderTrips
    
