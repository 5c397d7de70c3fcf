---------------------------- MODULE MCEpollEcho ----------------------------
EXTENDS EpollEcho
============================================================================
