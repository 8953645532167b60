------------------------------ MODULE MCRelayLink -----------------------------
EXTENDS RelayLink
===============================================================================
