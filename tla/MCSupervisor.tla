---------------------------- MODULE MCSupervisor ----------------------------
EXTENDS Supervisor
=============================================================================
