------------------------------ MODULE MCSerial ------------------------------
EXTENDS Serial
=============================================================================
