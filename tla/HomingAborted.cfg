CONSTANTS
    Configs <- MCConfigs
    Requests = {"UNDEFINED", "ENCODER_OFFSET_CALIBRATION", "HOMING"}
    WatchdogReset = 0
SPECIFICATION Spec
PROPERTIES
    HomedAtEndstop
