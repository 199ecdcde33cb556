----------------------------- MODULE MCDiagnosis -----------------------------
EXTENDS Diagnosis, MCOperations

=============================================================================
