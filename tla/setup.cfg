CONSTANTS
    Machines <- MCMachines
    MaxFiles = 3
    NameSize = 3
    MaxCore = 7
    Aps = {1, 2}
    MaxRedirection = 4
    TicksToWait = 3
    Rate = 2
    MaxCap = 2
    System <- amd64
    Wanted <- Names
    Word = 65536
SPECIFICATION Spec
INVARIANTS
    TypeOK
    LookupExact
    ParsesMeaning
    TablesRecorded
    DevicesMapped
    Calibrated
    RecordsAgree
PROPERTIES
    SetupEnds
