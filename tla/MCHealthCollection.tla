------------------------- MODULE MCHealthCollection -------------------------
(* Two callers of Collect; nothing is enabled, or two sections are.        *)
EXTENDS HealthCollection

MCConfigurations == {{}, {"machineInfo", "metrics"}}
=============================================================================
