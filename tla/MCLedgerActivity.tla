--------------------------- MODULE MCLedgerActivity ---------------------------
(* Instances of LedgerActivity for TLC.                                     *)
EXTENDS LedgerActivity

\* A reading, and a camera that announces its address or reports without one.
MCEvents ==
    [type : {"SENSOR_READING"}, actor : Devices, sensor : Sensors]
        \cup [type : {"CAMERA_EVENT"}, actor : Devices, sensor : Sensors,
              url : Urls \cup {None}]

MCReadings == [type : {"SENSOR_READING"}, actor : Devices, sensor : Sensors]
===============================================================================
