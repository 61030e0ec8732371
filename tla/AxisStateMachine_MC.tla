------------------------ MODULE AxisStateMachine_MC ------------------------
(* Configurations of an axis for TLC. *)
EXTENDS AxisStateMachine

\* an axis that calibrates, homes and goes to closed loop on its own
Autonomous ==
    [startup |-> {"MOTOR_CALIBRATION", "ENCODER_INDEX_SEARCH", "ENCODER_OFFSET_CALIBRATION",
                  "HOMING", "CLOSED_LOOP_CONTROL"},
     pre_calibrated |-> FALSE, find_idx_on_lockin_only |-> TRUE,
     idx_search_unidirectional |-> TRUE, endstop_enabled |-> TRUE]

\* a calibrated encoder that only needs its index, wherever it passes
IndexOnly ==
    [startup |-> {"SENSORLESS_CONTROL"},
     pre_calibrated |-> TRUE, find_idx_on_lockin_only |-> FALSE,
     idx_search_unidirectional |-> FALSE, endstop_enabled |-> FALSE]

MCConfigs == {Autonomous, IndexOnly}
=============================================================================
