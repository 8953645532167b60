----------------------------- MODULE MCOtaUpdate ------------------------------
EXTENDS OtaUpdate
===============================================================================
