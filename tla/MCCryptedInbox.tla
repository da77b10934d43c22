--------------------------- MODULE MCCryptedInbox ---------------------------
\* Small instance of CryptedInbox: a window of 4 words of 2 bits (8 numbers)
\* and message numbers that start in its tail half, as the code's counter
\* does, and run past its end so that it slides, by less than its length (13)
\* and by more (22).
EXTENDS CryptedInbox

MCMsgNums == {0, 3, 4, 5, 7, 8, 10, 13, 22}
=============================================================================
