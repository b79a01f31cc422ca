------------------------------ MODULE MCBridge ------------------------------
EXTENDS Bridge

\* The setting of the driver's configuration.
FirstSetting == [hz |-> 1, mode |-> 1]
=============================================================================
