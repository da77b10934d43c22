------------------------- MODULE MCTradesSubscription -------------------------
\* Small instances of TradesSubscription.
EXTENDS TradesSubscription
===============================================================================
