------------------------------- MODULE MCStuck --------------------------------
EXTENDS Stuck
===============================================================================
