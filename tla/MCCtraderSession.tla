--------------------------- MODULE MCCtraderSession ---------------------------
\* Model-checking instance of CtraderSession.
EXTENDS CtraderSession

CONSTANTS w1, w2    \* model values
==============================================================================
