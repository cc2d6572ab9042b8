-------------------------- MODULE MCEngineTelemetry --------------------------
\* Instances of EngineTelemetry; Telemetry.cfg gives the sizes.
EXTENDS EngineTelemetry
=============================================================================
