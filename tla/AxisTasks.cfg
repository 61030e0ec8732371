CONSTANTS
    Configs <- MCConfigs
    Requests = {"UNDEFINED", "FULL_CALIBRATION_SEQUENCE", "ENCODER_DIR_FIND", "CLOSED_LOOP_CONTROL"}
    WatchdogReset = 1
SPECIFICATION FairSpec
INVARIANTS
    TypeOK
    OnlyAskedTasks
PROPERTIES
    FloatNoticed
    RequestServed
    HostSilenceIdles
