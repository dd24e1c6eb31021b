-------------------------------- MODULE MCGarbd --------------------------------
EXTENDS Garbd

\* Every system call become_daemon() checks may fail.
MCAllFaults == {"chdir", "fork", "setsid", "open"}
=============================================================================
