------------------------------ MODULE MCUpdater ------------------------------
\* Updater with two files and two pushes after the installed commit.
EXTENDS Updater
=============================================================================
