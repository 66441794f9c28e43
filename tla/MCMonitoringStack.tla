------------------------- MODULE MCMonitoringStack -------------------------
(* Constants for model checking MonitoringStack.                            *)
EXTENDS MonitoringStack

Input == INSTANCE MonitoringSites
MCSites == Input!MCSites
MCQueries == Input!MCQueries
============================================================================
