--------------------------- MODULE MCSupervision ---------------------------
EXTENDS Supervision
=============================================================================
