--------------------------- MODULE MCHighDelivery ---------------------------
\* Small instance of HighDelivery: a window of 2 words of 1 bit, so that a
\* session's second number already slides the window and the half that an
\* acknowledgement carries has one bit.
EXTENDS HighDelivery

CONSTANT k1
MCKeys == {k1}
=============================================================================
