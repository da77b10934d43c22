-------------------------- MODULE MCSlicedTransfer --------------------------
\* Small instances of SlicedTransfer.
EXTENDS SlicedTransfer
=============================================================================
