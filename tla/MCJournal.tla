------------------------------ MODULE MCJournal ------------------------------
EXTENDS Journal

\* Every kind a switch, a rollback or an adopt of a directory plans.
RecoverableKinds == SwitchKinds \union {"adopt"}

\* An adopt of a path where nothing is, beside the adopt of a directory.
AdoptsOfBoth == AdoptKinds
=============================================================================
