SPECIFICATION MCSpec
CONSTANTS
    Thread = {t1, t2}
    Key = {1, 2, 3}
    CrabbitKey <- MCCrabbitKey
    Unicode = {"on", "off"}
    Bytes = {"bytes"}
    Absent = "absent"
    Configs <- MCConfigs
    Environments <- MCEnvironments
    MaxCalls = 2
    Nobody = Nobody
    OrderError = OrderError
    Orders <- MCOrders
    Registered = {"ext"}
    Own = {"lower", "link", "gvn"}
    Machine = {"isel", "ra"}
    DiskMayFail = TRUE
INVARIANTS
    SectionSeesItsConfig
    EnvironmentRestored
    StagesInOrder
    TraceShowsWhatRan
    RootOnlyInProgramStage
PROPERTY
    CallsReturn
CHECK_DEADLOCK FALSE
