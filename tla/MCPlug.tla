--------------------------------- MODULE MCPlug --------------------------------
EXTENDS Plug
===============================================================================
