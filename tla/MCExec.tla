-------------------------------- MODULE MCExec --------------------------------
EXTENDS Exec
=============================================================================
