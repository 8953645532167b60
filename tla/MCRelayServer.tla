----------------------------- MODULE MCRelayServer ----------------------------
EXTENDS RelayServer
===============================================================================
