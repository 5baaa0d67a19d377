---------------------------- MODULE MCCtraderBook ----------------------------
\* Model-checking instance of CtraderBook.
EXTENDS CtraderBook, TLC

CONSTANTS eur

MCSym == {eur}
==============================================================================
