---------------------------- MODULE MCRelayCommands ----------------------------
EXTENDS RelayCommands
===============================================================================
