-------------------------- MODULE MCBookSubscription --------------------------
\* Small instances of BookSubscription.
EXTENDS BookSubscription, TLC

MarketSymmetry == Permutations(Markets)
===============================================================================
