SPECIFICATION FairSpec
CONSTANTS
    Files = {1}
    SlotsOf <- MCSlotsOf
    Downloads = {1}
    InitFiles <- MCInitFiles
    Main = main
    Reloader = reloader
    Downloader = downloader
    Lookups = {p1}
    Numbers = {1, 2, 3, 4, 5, 6, 7, 8, 9, 10}
    MaxVersion = 2
    MaxFaults = 0
    Nil = Nil
INVARIANTS
    FallbackServed
CHECK_DEADLOCK FALSE
