------------------------------- MODULE MCBars --------------------------------
\* Instances of Bars for TLC: the cfg files give its constants their values.
EXTENDS Bars, TLC
=============================================================================
