------------------------------ MODULE MCDaemon ------------------------------
\* Bounded instances of Daemon.
EXTENDS Daemon
=============================================================================
